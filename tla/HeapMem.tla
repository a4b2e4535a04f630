------------------------------ MODULE HeapMem ------------------------------
(***************************************************************************)
(* The heap manager, lib/heapmgr.ld, on memory: the same library as module *)
(* Heap, with the chain kept in bytes as the code keeps it, every word     *)
(* store made in the code's order, and the clients' data.  It is shown to  *)
(* implement Heap, the set-level view of the chain.                        *)
(*                                                                         *)
(* A word store writes two bytes, so clearing a flag also stores the byte  *)
(* above it: this is where headers and data could damage each other.       *)
(* HeapResizeObject is three steps here: its calls of HeapNewObject and    *)
(* HeapDeleteObject are steps of the chain, and the copy is between them.  *)
(***************************************************************************)
EXTENDS Integers, FiniteSetsExt

CONSTANTS
  ByteSize,     \* 256 on the machine
  HeapID,       \* address of the region
  SizeInBytes,  \* its size, as given to HeapDefineMemory
  Top,          \* bound: the last address that is modelled
  Sizes,        \* the sizes that clients ask for
  NewSizes,     \* the sizes that clients resize to
  Bytes,        \* the bytes that clients store
  MaxCalls      \* bound: how many calls the clients make

Word == ByteSize * ByteSize   \* addresses and words are of two bytes

ASSUME HeapMemAssumption ==
  /\ MaxCalls \in Nat
  /\ ByteSize \in Nat /\ ByteSize > 1
  /\ HeapID \in Nat /\ SizeInBytes \in Nat /\ Top \in Nat
  /\ HeapID > 100 /\ Top < Word - 100
  /\ SizeInBytes > 7 /\ HeapID + SizeInBytes <= Top
  /\ Sizes \subseteq 0 .. Word - 1 /\ NewSizes \subseteq 1 .. Word - 1
  /\ Bytes \subseteq 0 .. ByteSize - 1

VARIABLES
  mem,      \* the bytes HeapID .. Top
  req,      \* the size asked for, of each object a client holds
  result,   \* the word the last call of a chain operation left on the stack
  pushed,   \* how many words it left
  moving,   \* HeapResizeObject in progress, or where the program was lost
  stray,    \* a copy has stored outside the new object
  calls     \* how many calls have been made

vars == <<mem, req, result, pushed, moving, stray, calls>>

None    == [step |-> "none"]
Lost(f) == [step |-> "lost", in |-> f]   \* the program runs wild from f

-----------------------------------------------------------------------------
(***************************************************************************)
(* Memory.  What lies outside the modelled addresses reads as zero, which  *)
(* is what the machine starts with (next(0), at the top of memory, is read *)
(* by HeapDefrag), and stores there are lost.                              *)
(***************************************************************************)
Byte(m, a) == IF a % Word \in DOMAIN m THEN m[a % Word] ELSE 0

\* PUSHS
Load(m, a) == Byte(m, a) + ByteSize * Byte(m, a + 1)

\* POPS
Store(m, a, w) ==
  [x \in DOMAIN m |-> IF x = a THEN w % ByteSize ELSE IF x = a + 1 THEN w \div ByteSize ELSE m[x]]

Flag(m, o)       == Byte(m, o - 3)
NextOf(m, o)     == Load(m, o - 2)
KeepHigh(m, o)   == Load(m, o - 3) - Flag(m, o)   \* AND 0xff00
FirstOf(m)       == Load(m, HeapID)

\* Mutant of Split: no room for the header.
SplitNoHeader(o, size) == o + size

Split(o, size) == o + size + 3

\* GetObjectRealSize
GetObjectRealSize(m, o) ==
  LET n == NextOf(m, o) IN
    (IF n # 0 THEN n - o - 3 ELSE Load(m, HeapID + 2) + HeapID - o - 3) % Word

\* How many turns of a loop along the chain are followed: enough, as the chain runs
\* upwards.  The state of a loop after each turn is kept as a set with one element.
Turns == Top - HeapID

\* A turn of the loop of HeapListMap: the object at "at" is printed.
ListTurn(m, s) ==
  IF s.at = 0 THEN s
  ELSE [at |-> NextOf(m, s.at), seen |-> s.seen \cup {s.at}]

\* The objects of the chain, as HeapListMap prints them.
Objects(m) ==
  LET after[k \in 0 .. Turns] ==
        IF k = 0 THEN {[at |-> FirstOf(m), seen |-> {}]}
        ELSE {ListTurn(m, s) : s \in after[k - 1]}
  IN  UNION {s.seen : s \in after[Turns]}

Used(m) == {o \in Objects(m) : Flag(m, o) # 0}

-----------------------------------------------------------------------------
(***************************************************************************)
(* HeapDefineMemory.                                                       *)
(***************************************************************************)
Define ==
  LET m1 == Store([a \in HeapID .. Top |-> 0], HeapID, HeapID + 7)
      m2 == Store(m1, HeapID + 2, SizeInBytes - 4)
      m3 == Store(m2, HeapID + 4, 0)
  IN  Store(m3, HeapID + 5, 0)

Init ==
  /\ mem = Define
  /\ req = [o \in {} |-> 0]
  /\ result = HeapID /\ pushed = 1
  /\ moving = None
  /\ stray = FALSE
  /\ calls = 0

-----------------------------------------------------------------------------
(***************************************************************************)
(* HeapNewObject.                                                          *)
(***************************************************************************)

\* A turn of the walk along the chain, at the object s.at: it ends where there is room,
\* or at the last object, which is free ("tail") or not ("full").
WalkTurn(m, size, s) ==
  LET o == s.at IN
    IF s.end # "walking" THEN s
    ELSE IF Flag(m, o) = 0 /\ GetObjectRealSize(m, o) >= size THEN [end |-> "fit", at |-> o]
    ELSE IF NextOf(m, o) # 0 THEN [end |-> "walking", at |-> NextOf(m, o)]
    ELSE [end |-> IF Flag(m, o) = 0 THEN "tail" ELSE "full", at |-> o]

\* How the walk from the first object ends, and where.
Walk(m, size) ==
  LET after[k \in 0 .. Turns] ==
        IF k = 0 THEN {[end |-> "walking", at |-> FirstOf(m)]}
        ELSE {WalkTurn(m, size, s) : s \in after[k - 1]}
  IN  CHOOSE s \in after[Turns] : TRUE

\* The flag of a fitting object is set, its next pointer kept.
MarkFit(m, o) == Store(m, o - 3, KeepHigh(m, o) + 1)

\* Mutant of SplitOff: the link to the new object is never stored.
SplitOffLoose(m, o, n) ==
  LET m1 == Store(m, n - 2, 0)
      m2 == Store(m1, n - 3, 0)
  IN  Store(m2, n - 2, NextOf(m, o))

\* A free object n is put between o and what follows o.
SplitOff(m, o, n) ==
  LET m1 == Store(m, n - 2, 0)
      m2 == Store(m1, n - 3, 0)
      m3 == Store(m2, o - 2, n)
  IN  Store(m3, n - 2, NextOf(m, o))

\* The stores at the end of the chain, in the code's order.
TailStores(m, o, n) ==
  LET m1 == Store(m, o - 3, 1)
      m2 == Store(m1, o - 2, n)
      m3 == Store(m2, n - 3, 0)
  IN  Store(m3, n - 2, 0)

Give(o, size) ==
  /\ req' = [u \in DOMAIN req \cup {o} |-> IF u = o THEN size ELSE req[u]]
  /\ result' = o /\ pushed' = 1

Fail(code, words) ==
  result' = code /\ pushed' = words /\ UNCHANGED <<mem, req>>

\* Bound: the chain stays below Top.
Modelled(o, size) == Split(o, size) < Top

NewObjectEmpty(size) == size = 0 /\ Fail(result, 0)

NewObjectTooLarge(size) ==
  size # 0 /\ Load(mem, HeapID + 2) - 3 < size /\ Fail(2, 1)

NewObjectFit(size) ==
  LET w == Walk(mem, size)
      left == GetObjectRealSize(mem, w.at) - size
  IN
    /\ size # 0 /\ size <= Load(mem, HeapID + 2) - 3
    /\ w.end = "fit" /\ Modelled(w.at, size)
    /\ mem' = IF left < 8 THEN MarkFit(mem, w.at)
              ELSE MarkFit(SplitOff(mem, w.at, Split(w.at, size)), w.at)
    /\ Give(w.at, size)

NewObjectTail(size) ==
  LET w == Walk(mem, size) IN
    /\ size # 0 /\ size <= Load(mem, HeapID + 2) - 3
    /\ w.end = "tail" /\ Modelled(w.at, size)
    /\ IF w.at - HeapID - 7 > size
         THEN mem' = TailStores(mem, w.at, Split(w.at, size)) /\ Give(w.at, size)
         ELSE Fail(3, 2)

NewObjectFull(size) ==
  /\ size # 0 /\ size <= Load(mem, HeapID + 2) - 3
  /\ Walk(mem, size).end = "full"
  /\ Fail(4, 1)

NewObject(size) ==
  \/ NewObjectEmpty(size)
  \/ NewObjectTooLarge(size)
  \/ NewObjectFit(size)
  \/ NewObjectTail(size)
  \/ NewObjectFull(size)

-----------------------------------------------------------------------------
(***************************************************************************)
(* HeapDefrag and HeapDeleteObject.                                        *)
(***************************************************************************)

\* A turn of the outer loop: s.cond is the word it tests, s.x is IndexX.  An object in
\* use is stepped over; with a free one the inner loop begins at what follows it.
OuterTurn(s) ==
  LET n == NextOf(s.mem, s.x) IN
    IF s.cond = 0 THEN [s EXCEPT !.loop = "none"]
    ELSE IF Flag(s.mem, s.cond) # 0 THEN [s EXCEPT !.cond = n, !.x = n]
    ELSE IF n = 0 THEN [s EXCEPT !.loop = "none"]
    ELSE [s EXCEPT !.loop = "inner", !.cond = n]

\* A turn of the inner loop, with IndexY in s.cond: IndexX swallows a free object.  One
\* in use ends the loop, and is what the outer loop tests next.
InnerTurn(s) ==
  LET n == NextOf(s.mem, s.cond) IN
    IF Flag(s.mem, s.cond) # 0 THEN [s EXCEPT !.loop = "outer", !.x = n]
    ELSE [s EXCEPT !.mem = Store(s.mem, s.x - 2, n), !.cond = n,
                   !.loop = IF n = 0 THEN "none" ELSE "inner"]

DefragTurn(s) ==
  CASE s.loop = "outer" -> OuterTurn(s)
    [] s.loop = "inner" -> InnerTurn(s)
    [] s.loop = "none"  -> s

Defrag(m) ==
  LET after[k \in 0 .. Turns] ==
        IF k = 0 THEN {[mem |-> m, loop |-> "outer", cond |-> FirstOf(m), x |-> FirstOf(m)]}
        ELSE {DefragTurn(s) : s \in after[k - 1]}
  IN  (CHOOSE s \in after[Turns] : TRUE).mem

\* The flag is cleared, the byte above it kept.
Clear(m, o) == Store(m, o - 3, KeepHigh(m, o))

Delete(o) ==
  /\ mem' = Defrag(Clear(mem, o))
  /\ req' = [u \in DOMAIN req \ {o} |-> req[u]]
  /\ result' = 0 /\ pushed' = 1

-----------------------------------------------------------------------------
(***************************************************************************)
(* HeapResizeObject.                                                       *)
(***************************************************************************)

\* HeapNewObject.  After an error the jump to the exit is missing its @: it is
\* assembled as data, and executed it jumps to an address made of half of the
\* exit's.  The program is lost.
ResizeStart(o, size) ==
  /\ NewObject(size)
  /\ moving' = IF result' < 100 THEN Lost("HeapResizeObject")
               ELSE [step |-> "copy", from |-> o, to |-> result', size |-> size]
  /\ UNCHANGED stray

\* The copy loop.  Each turn stores a byte of the old object as a word, at the
\* address OR-ed with the high byte that was there.
Bit(w, i) == (w \div 2 ^ i) % 2

Or(v, w) == SumSet({2 ^ i : i \in {j \in 0 .. 15 : Bit(v, j) + Bit(w, j) > 0}})

CopyTo(m, a) == Or(a, ByteSize * Byte(m, a + 1))

CopyTurn(s, from, to, i) ==
  LET a == CopyTo(s.mem, to + i)
  IN  [mem |-> Store(s.mem, a, Byte(s.mem, from + i)), at |-> s.at \cup {a}]

CopyLoop(m, from, to, len) ==
  LET after[k \in 0 .. len] ==
        IF k = 0 THEN {[mem |-> m, at |-> {}]}
        ELSE {CopyTurn(s, from, to, k - 1) : s \in after[k - 1]}
  IN  CHOOSE s \in after[len] : TRUE

\* The bytes of the new object that belong to its owner.
Block(o, size) == o .. o + size - 1

ResizeCopy ==
  /\ moving.step = "copy"
  /\ LET len  == Min({moving.size, GetObjectRealSize(mem, moving.from)})
         done == CopyLoop(mem, moving.from, moving.to, len)
         mine == Block(moving.to, moving.size)
     IN  /\ mem' = done.mem
         /\ stray' = \/ ~ (done.at \subseteq mine)
                     \/ \E a \in DOMAIN mem \ mine : mem[a] # done.mem[a]
  /\ moving' = [moving EXCEPT !.step = "delete"]
  /\ UNCHANGED <<req, result, pushed, calls>>

\* HeapDeleteObject of the old object; the call returns moving.to.
ResizeEnd ==
  /\ moving.step = "delete" /\ ~ stray
  /\ Delete(moving.from)
  /\ moving' = None
  /\ UNCHANGED <<stray, calls>>

-----------------------------------------------------------------------------
(***************************************************************************)
(* The calls of the clients.  Nothing is followed past a copy gone astray. *)
(***************************************************************************)
Idle == moving = None /\ ~ stray

\* A client makes its next call.
Call == Idle /\ calls < MaxCalls /\ calls' = calls + 1

HeapNewObject(size) ==
  Call /\ NewObject(size) /\ UNCHANGED <<moving, stray>>

HeapDeleteObject(o) ==
  Call /\ Delete(o) /\ UNCHANGED <<moving, stray>>

HeapDefrag ==
  /\ Call
  /\ mem' = Defrag(mem)
  /\ result' = 0 /\ pushed' = 1
  /\ UNCHANGED <<req, moving, stray>>

\* Every way out of its loop along the chain is a jump like the one in
\* HeapResizeObject.
HeapValidate ==
  /\ Call
  /\ moving' = Lost("HeapValidate")
  /\ UNCHANGED <<mem, req, result, pushed, stray>>

\* The owner of o stores b in all its bytes.
Fill(o, b) ==
  /\ Call
  /\ mem' = [a \in DOMAIN mem |-> IF a \in Block(o, req[o]) THEN b ELSE mem[a]]
  /\ UNCHANGED <<req, result, pushed, moving, stray>>

HeapResizeObject ==
  \/ \E o \in DOMAIN req, size \in NewSizes : Call /\ ResizeStart(o, size)
  \/ ResizeCopy
  \/ ResizeEnd

Next ==
  \/ \E size \in Sizes : HeapNewObject(size)
  \/ \E o \in DOMAIN req : HeapDeleteObject(o)
  \/ \E o \in DOMAIN req, b \in Bytes : Fill(o, b)
  \/ HeapDefrag
  \/ HeapValidate
  \/ HeapResizeObject

Spec == Init /\ [][Next]_vars

-----------------------------------------------------------------------------
(***************************************************************************)
(* Properties.                                                             *)
(***************************************************************************)

\* As long as no copy of HeapResizeObject has gone astray, the bytes are a
\* chain as module Heap describes it, through every word store.
H == INSTANCE Heap WITH
       Sizes <- Sizes \cup NewSizes,
       objs <- Objects(mem), used <- Used(mem), wild <- FALSE
ImplementsHeap == H!Init /\ [][H!Next \/ stray']_(H!vars)

\* Neither allocating, splitting, freeing, joining nor moving an object alters
\* a byte that another client holds.
KeepsBytes ==
  [][\A o \in DOMAIN req \cap DOMAIN req' :
       ~ (\E b \in Bytes : Fill(o, b)) /\ ~ stray' /\ ~ ResizeCopy
         => \A a \in Block(o, req[o]) : mem'[a] = mem[a]]_vars

\* 'HeapResizeObject(HeapID,ObjectID,NewSize_In_Bytes):ObjectID Return < 100 is
\* error code': the call returns, also when there is no room.
ResizeReturns == moving # Lost("HeapResizeObject")

\* 'HeapValidate(HeapID):0|error(1|2|3)': the call returns.
ValidateReturns == moving # Lost("HeapValidate")

\* Comment in HeapResizeObject: 'Copy just the OldSize data from Old Object to
\* New'.
CopiesTheData ==
  [][ResizeCopy =>
       \A i \in 0 .. Min({moving.size, req[moving.from]}) - 1 :
         mem'[moving.to + i] = mem[moving.from + i]]_vars
=============================================================================
