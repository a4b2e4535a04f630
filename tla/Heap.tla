-------------------------------- MODULE Heap --------------------------------
(***************************************************************************)
(* The chain of objects kept by the heap manager, lib/heapmgr.ld.          *)
(*                                                                         *)
(* A heap is a region of the 16-bit memory.  An object is named by the     *)
(* address of its data; the three bytes below it hold a flag (0 free, 1 in *)
(* use) and the address of the next object (0 at the end of the chain).    *)
(* The chain always runs upwards in memory, so the set of objects          *)
(* determines it: the next object is the closest one above.  The model     *)
(* keeps that set, the flags, and for each object in use the size its      *)
(* owner asked for, which the code itself does not remember.               *)
(*                                                                         *)
(* Bytes, and HeapResizeObject which copies them, are in module HeapMem.   *)
(***************************************************************************)
EXTENDS Integers

CONSTANTS
  HeapID,       \* address of the region
  SizeInBytes,  \* its size, as given to HeapDefineMemory
  Word,         \* addresses are 0 .. Word - 1 (2^16 on the machine)
  Sizes         \* the sizes that clients ask for

OBJ_HEAD_SIZE  == 3
HEAP_HEAD_SIZE == 4
SPLITTHRESHOLD == OBJ_HEAD_SIZE + (OBJ_HEAD_SIZE + 2)

(***************************************************************************)
(* HeapDefineMemory refuses a region that runs past the top of memory; the *)
(* library asks for addresses above 100, smaller results being error codes.*)
(***************************************************************************)
ASSUME HeapAssumption ==
  /\ Word \in Nat /\ HeapID \in Nat /\ SizeInBytes \in Nat
  /\ HeapID > 100
  /\ SizeInBytes > HEAP_HEAD_SIZE + OBJ_HEAD_SIZE
  /\ HeapID + SizeInBytes < Word
  /\ Sizes \subseteq 0 .. Word - 1

VARIABLES
  objs,    \* the objects of the chain
  used,    \* those whose flag says in use
  req,     \* the size asked for, of each object in use
  result,  \* the word the last call left on top of the stack
  pushed,  \* how many words it left there beyond its arguments
  wild     \* a header has been written through a wrapped address

vars == <<objs, used, req, result, pushed, wild>>

\* The first object, and the end of the heap as GetObjectRealSize computes it
\* from the stored size.
First   == HeapID + HEAP_HEAD_SIZE + OBJ_HEAD_SIZE
HeapLen == SizeInBytes - HEAP_HEAD_SIZE
HeapEnd == HeapID + HeapLen

-----------------------------------------------------------------------------
(***************************************************************************)
(* The chain S with objects U in use.                                      *)
(***************************************************************************)

\* n is the next pointer of o: the closest object above, 0 for the last one.
IsNext(S, o, n) ==
  \/ n = 0 /\ \A p \in S : p <= o
  \/ n \in S /\ n > o /\ \A p \in S : p > o => p >= n

\* The room of an object whose next pointer is n, in 16-bit arithmetic.
RealSize(o, n) ==
  IF n # 0 THEN n - o - OBJ_HEAD_SIZE
           ELSE (HeapEnd - o - OBJ_HEAD_SIZE) % Word

\* Mutant of Fits: the flag is not looked at.
FitsAnyFlag(S, U, o, size) ==
  /\ o \in S
  /\ \E n \in S \cup {0} : IsNext(S, o, n) /\ RealSize(o, n) >= size

\* o is free and the size fits in it.
Fits(S, U, o, size) ==
  /\ o \in S \ U
  /\ \E n \in S \cup {0} : IsNext(S, o, n) /\ RealSize(o, n) >= size

\* The first-fit walk stops at o.
FirstFit(S, U, o, size) ==
  Fits(S, U, o, size) /\ \A p \in S : Fits(S, U, p, size) => o <= p

\* The walk runs off the chain, having looked at t last.
NoFit(S, U, t, size) ==
  t \in S /\ IsNext(S, t, 0) /\ \A p \in S : ~ Fits(S, U, p, size)

\* Mutant of Split: no room for the header of the following object.
SplitNoHeader(o, size) == o + size

\* Where the header of the object that follows a new one is put.
Split(o, size) == o + size + OBJ_HEAD_SIZE

\* HeapDefrag looks at z after x.  An object in use is stepped over.  A free
\* one is joined with the free ones after it, up to an object y in use; the
\* walk then goes on two objects above y, because the flag it tests next is
\* y's while its index is already past y.
Visits(S, U, x, z) ==
  \/ x \in U /\ z \in S /\ IsNext(S, x, z)
  \/ /\ x \notin U
     /\ \E y \in U, m \in S :
          /\ y > x /\ \A p \in U : p > x => p >= y
          /\ z \in S /\ IsNext(S, y, m) /\ IsNext(S, m, z)

\* The objects at which the outer loop of HeapDefrag tests a flag of its own:
\* the first one, and those the walk comes to after it.
Visited(S, U) ==
  LET visited[x \in S] == x = First \/ \E v \in S : Visits(S, U, v, x) /\ visited[v]
  IN  {x \in S : visited[x]}

\* Mutant of Joined: a free object is joined with the next one only.
JoinedOnce(S, U) ==
  {p \in S \ U : \E x \in (S \cap Visited(S, U)) \ U : IsNext(S, x, p)}

\* The free objects that HeapDefrag unlinks: each follows a visited free
\* object with no object in use between.
Joined(S, U) ==
  LET starts == (S \cap Visited(S, U)) \ U IN
    {p \in S \ U : \E x \in starts : x < p /\ \A q \in U : ~ (x < q /\ q < p)}

-----------------------------------------------------------------------------
(***************************************************************************)
(* HeapDefineMemory: one free object, last of the chain.                   *)
(***************************************************************************)
Init ==
  /\ objs = {First}
  /\ used = {}
  /\ req = [o \in {} |-> 0]
  /\ result = HeapID
  /\ pushed = 1
  /\ wild = FALSE

(***************************************************************************)
(* HeapNewObject.                                                          *)
(***************************************************************************)
Take(o, size) ==
  /\ used' = used \cup {o}
  /\ req' = [u \in used \cup {o} |-> IF u = o THEN size ELSE req[u]]
  /\ result' = o
  /\ pushed' = 1

\* A free header goes to address Split(o, size); at Word that is address 0,
\* which as a next pointer ends the chain, and above Word it lands in low
\* memory, over the program.
Extend(o, size) ==
  /\ objs' = IF Split(o, size) < Word THEN objs \cup {Split(o, size)} ELSE objs
  /\ wild' = (Split(o, size) > Word)

Fail(code, words) ==
  result' = code /\ pushed' = words /\ UNCHANGED <<objs, used, req, wild>>

\* Size 0 jumps to the exit without a result: the caller takes for one the
\* word that its own stack has on top.
NewObjectEmpty(size) ==
  size = 0 /\ Fail(result, 0)

NewObjectTooLarge(size) ==
  size # 0 /\ HeapLen - OBJ_HEAD_SIZE < size /\ Fail(2, 1)

\* The first free object with room enough; split if what remains is worth it.
NewObjectFit(size) ==
  /\ size # 0 /\ size <= HeapLen - OBJ_HEAD_SIZE
  /\ \E o \in objs, n \in objs \cup {0} :
       /\ FirstFit(objs, used, o, size)
       /\ IsNext(objs, o, n)
       /\ Take(o, size)
       /\ IF RealSize(o, n) - size < SPLITTHRESHOLD
            THEN UNCHANGED <<objs, wild>>
            ELSE Extend(o, size)

\* The last object t is free and too small.  What the code compares with the
\* size is the room below t, not the room above it.  When that is too small, the
\* result of the subtraction is left on the stack under the error code.
NewObjectTail(size) ==
  /\ size # 0 /\ size <= HeapLen - OBJ_HEAD_SIZE
  /\ \E t \in objs \ used :
       /\ NoFit(objs, used, t, size)
       /\ IF t - HeapID - HEAP_HEAD_SIZE - OBJ_HEAD_SIZE > size
            THEN Take(t, size) /\ Extend(t, size)
            ELSE Fail(3, 2)

NewObjectFull(size) ==
  /\ size # 0 /\ size <= HeapLen - OBJ_HEAD_SIZE
  /\ \E t \in used : NoFit(objs, used, t, size)
  /\ Fail(4, 1)

HeapNewObject(size) ==
  /\ ~ wild
  /\ \/ NewObjectEmpty(size)
     \/ NewObjectTooLarge(size)
     \/ NewObjectFit(size)
     \/ NewObjectTail(size)
     \/ NewObjectFull(size)

(***************************************************************************)
(* HeapDeleteObject of an object in use: clear its flag, then HeapDefrag.  *)
(***************************************************************************)
HeapDeleteObject(o) ==
  /\ ~ wild
  /\ o \in used
  /\ used' = used \ {o}
  /\ req' = [u \in used \ {o} |-> req[u]]
  /\ objs' = objs \ Joined(objs, used \ {o})
  /\ result' = 0 /\ pushed' = 1
  /\ UNCHANGED wild

\* HeapDefrag called directly, as the library exports it.
HeapDefrag ==
  /\ ~ wild
  /\ objs' = objs \ Joined(objs, used)
  /\ result' = 0 /\ pushed' = 1
  /\ UNCHANGED <<used, req, wild>>

Next ==
  \/ \E size \in Sizes : HeapNewObject(size)
  \/ \E o \in used : HeapDeleteObject(o)
  \/ HeapDefrag

Spec == Init /\ [][Next]_vars

-----------------------------------------------------------------------------
(***************************************************************************)
(* Properties.                                                             *)
(***************************************************************************)

\* Types: the chain starts at the first object, and only its objects are used.
TypeOK ==
  /\ objs \subseteq First .. Word - 1
  /\ First \in objs
  /\ used \subseteq objs
  /\ req \in [used -> 1 .. Word - 1]
  /\ result \in 0 .. Word - 1
  /\ pushed \in 0 .. 2
  /\ wild \in BOOLEAN

\* Neither the data nor the header of any object lies in the bytes that the
\* owner of an object in use was promised, whatever was allocated, split,
\* freed and joined before.
NoOverlap ==
  \A u \in used, p \in objs : p > u => u + req[u] + OBJ_HEAD_SIZE <= p

\* Freeing everything gives the whole heap back: HeapDefrag leaves one object.
EmptyIsWhole == used = {} => objs = {First}

\* The chain is an allocator: clients never share bytes, an allocation takes
\* nothing from another client, only HeapDeleteObject ends a block, and an
\* error code is never mistaken for a block.
A == INSTANCE Allocator WITH
       Addresses <- 0 .. Word - 1, Gap <- OBJ_HEAD_SIZE,
       live <- req, answer <- result
ImplementsAllocator == A!Spec

\* docs/lesson11.md: 'Automatically runs defragmentation to merge adjacent
\* free blocks', so two free objects never follow each other.
NoAdjacentFree ==
  \A o, n \in objs : o \notin used /\ IsNext(objs, o, n) => n \in used

\* 'We can't deal with more SizeInBytes than the whole heap had', and error 3
\* 'no room at heap tail': what is handed out lies in the heap's region.
InsideHeap ==
  \A u \in used : u + req[u] <= HeapID + SizeInBytes

\* 'HeapNewObject(HeapID,Size_in_Bytes):ObjectID Return < 100 is Error code':
\* a call leaves exactly one word, its result.
OneResult == pushed = 1
=============================================================================
