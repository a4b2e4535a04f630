----------------------------- MODULE HeapProofs -----------------------------
(***************************************************************************)
(* Proofs about the chain of the heap manager, for every region, every     *)
(* word size and every set of requested sizes.                             *)
(*                                                                         *)
(* NoOverlap is inductive together with TypeOK: a new object takes a gap   *)
(* that ends where the next object's header starts, and the split address  *)
(* lies in that gap.  No other strengthening is needed.                    *)
(***************************************************************************)
EXTENDS Heap, WellFoundedInduction, TLAPS

USE HeapAssumption DEF HeapAssumption, OBJ_HEAD_SIZE, HEAP_HEAD_SIZE,
                       SPLITTHRESHOLD, First, HeapLen, HeapEnd

\* The room of an object that has a successor ends below the successor's
\* header (GetObjectRealSize).
LEMMA RoomBelowNext ==
  ASSUME NEW S \in SUBSET (First .. Word - 1), NEW U, NEW o \in S,
         NEW n \in S \cup {0}, NEW size \in Nat,
         IsNext(S, o, n), Fits(S, U, o, size)
  PROVE  \A p \in S : p > o => n # 0 /\ o + size + 3 <= n /\ n <= p
<1>1. PICK m \in S \cup {0} : IsNext(S, o, m) /\ RealSize(o, m) >= size
  BY DEF Fits
<1>2. m = n
  BY <1>1 DEF IsNext
<1>3. QED
  BY <1>1, <1>2 DEF IsNext, RealSize

\* HeapDefrag unlinks only free objects, never the first one.
LEMMA JoinedAreFree ==
  ASSUME NEW S \in SUBSET (First .. Word - 1), NEW U
  PROVE  Joined(S, U) \subseteq S \ U /\ First \notin Joined(S, U)
BY DEF Joined

\* A set of numbers has a least element.
LEMMA LeastOf ==
  ASSUME NEW T \in SUBSET Nat, T # {}
  PROVE  \E k \in T : \A j \in T : ~ (j < k)
<1> DEFINE R == {p \in Nat \X Nat : p[1] < p[2]}
<1>1. IsWellFoundedOn(R, Nat)
  BY NatLessThanWellFounded DEF OpToRel
<1> HIDE DEF R
<1>2. \E k \in T : \A j \in T : ~ (<<j, k>> \in R)
  BY <1>1, WFMin
<1> QED
  BY <1>2 DEF R

\* So a set with 0 that goes on from each number below n to the next has all of them.
LEMMA CountsTo ==
  ASSUME NEW n \in Nat, NEW T, 0 \in T, \A k \in 0 .. n : k # n /\ k \in T => k + 1 \in T
  PROVE  n \in T
<1> DEFINE U == {k \in 0 .. n : k \notin T}
<1> SUFFICES ASSUME U # {} PROVE FALSE
  OBVIOUS
<1>1. PICK k \in U : \A j \in U : ~ (j < k)
  <2>1. U \in SUBSET Nat
    OBVIOUS
  <2> HIDE DEF U
  <2> QED
    BY <2>1, LeastOf
<1>2. k # 0 /\ k - 1 \in 0 .. n /\ k - 1 # n /\ k - 1 < k /\ (k - 1) + 1 = k
  OBVIOUS
<1>3. k - 1 \in T
  BY <1>1, <1>2
<1> QED
  BY <1>2, <1>3

-----------------------------------------------------------------------------
(***************************************************************************)
(* The objects HeapDefrag visits, for chains of any length.                *)
(***************************************************************************)

\* The walk of HeapDefrag goes upwards.
LEMMA VisitsUp ==
  ASSUME NEW S \in SUBSET (First .. Word - 1), NEW U \in SUBSET S,
         NEW v \in S, NEW x \in S, Visits(S, U, v, x)
  PROVE  v < x
<1>1. \A o \in S, z \in S : IsNext(S, o, z) => o < z
  BY DEF IsNext
<1>2. CASE v \in U
  BY <1>1, <1>2 DEF Visits
<1>3. CASE v \notin U
  <2>1. PICK y \in U, m \in S : y > v /\ IsNext(S, y, m) /\ IsNext(S, m, x)
    BY <1>3 DEF Visits
  <2>2. y < m /\ m < x
    BY <1>1, <2>1
  <2> QED
    BY <2>1, <2>2
<1> QED
  BY <1>2, <1>3

\* x is visited if it is the first object or comes after a visited one.
VisitedFrom(S, U, V, x) == x = First \/ \E v \in V : Visits(S, U, v, x)

\* As the walk goes upwards, there is such a set, address after address.
LEMMA VisitedExists ==
  ASSUME NEW S \in SUBSET (First .. Word - 1), NEW U \in SUBSET S
  PROVE  \E V \in SUBSET S : \A x \in S : x \in V <=> VisitedFrom(S, U, V, x)
<1> DEFINE upto(V, k) == \A x \in S : x <= k => (x \in V <=> VisitedFrom(S, U, V, x))
           T == {k \in Nat : \E V \in SUBSET S : upto(V, k)}
<1>1. 0 \in T
  <2>1. upto({}, 0)
    OBVIOUS
  <2> QED
    BY <2>1
<1>2. ASSUME NEW k \in 0 .. Word, k # Word, k \in T PROVE k + 1 \in T
  <2>1. PICK V \in SUBSET S : upto(V, k)
    BY <1>2
  <2> DEFINE W == IF k + 1 \in S /\ VisitedFrom(S, U, V, k + 1)
                  THEN V \cup {k + 1} ELSE V \ {k + 1}
  <2>2. \A x \in S : x # k + 1 => (x \in W <=> x \in V)
    OBVIOUS
  <2>3. W \in SUBSET S
    OBVIOUS
  <2>4. ASSUME NEW x \in S, x <= k + 1 PROVE VisitedFrom(S, U, W, x) <=> VisitedFrom(S, U, V, x)
    <3>1. \A v \in S : Visits(S, U, v, x) => v # k + 1
      BY <2>4, VisitsUp
    <3> HIDE DEF W
    <3> QED
      BY <2>2, <2>3, <3>1 DEF VisitedFrom
  <2>5. ASSUME NEW x \in S, x <= k + 1 PROVE x \in W <=> VisitedFrom(S, U, V, x)
    <3>1. CASE x = k + 1
      BY <3>1
    <3>2. CASE x # k + 1
      <4>1. x <= k
        BY <2>5, <3>2
      <4> HIDE DEF W
      <4> QED
        BY <2>1, <2>2, <3>2, <4>1
    <3> QED
      BY <3>1, <3>2
  <2> HIDE DEF W
  <2>6. upto(W, k + 1)
    BY <2>4, <2>5
  <2>7. k + 1 \in Nat
    OBVIOUS
  <2> HIDE DEF upto
  <2> QED
    BY <2>3, <2>6, <2>7
<1>3. Word \in T
  <2> HIDE DEF T
  <2> QED
    BY <1>1, <1>2, CountsTo
<1>4. PICK V \in SUBSET S : upto(V, Word)
  BY <1>3
<1> QED
  BY <1>4

\* The visited objects are the first one and those that come after a visited one.
LEMMA VisitedIs ==
  ASSUME NEW S \in SUBSET (First .. Word - 1), NEW U \in SUBSET S
  PROVE  /\ Visited(S, U) \subseteq S
         /\ \A x \in S : x \in Visited(S, U) <=> VisitedFrom(S, U, Visited(S, U), x)
<1> DEFINE fixed(f) == f = [x \in S |-> x = First \/ \E v \in S : Visits(S, U, v, x) /\ f[v]]
           f == CHOOSE f : fixed(f)
<1>1. \E g : fixed(g)
  <2>1. PICK V \in SUBSET S : \A x \in S : x \in V <=> VisitedFrom(S, U, V, x)
    BY VisitedExists
  <2> DEFINE g == [x \in S |-> x \in V]
             h == [x \in S |-> x = First \/ \E v \in S : Visits(S, U, v, x) /\ g[v]]
  <2>2. ASSUME NEW x \in S PROVE g[x] = h[x]
    <3>1. \A v \in S : g[v] <=> v \in V
      OBVIOUS
    <3>2. (\E v \in S : Visits(S, U, v, x) /\ g[v]) <=> \E v \in V : Visits(S, U, v, x)
      <4> HIDE DEF g
      <4> QED
        BY <3>1, Zenon
    <3>3. (x = First \/ \E v \in S : Visits(S, U, v, x) /\ g[v]) <=> x \in V
      BY <2>1, <3>2, Zenon DEF VisitedFrom
    <3>4. h[x] = (x = First \/ \E v \in S : Visits(S, U, v, x) /\ g[v])
      BY Zenon
    <3>5. g[x] <=> h[x]
      BY <3>3, <3>4, Zenon
    <3>6. g[x] \in BOOLEAN /\ h[x] \in BOOLEAN
      OBVIOUS
    <3> HIDE DEF g, h
    <3> QED
      BY <3>5, <3>6
  <2>3. g = h
    BY <2>2, Zenon
  <2> QED
    BY <2>3
<1>2. fixed(f)
  BY <1>1, Zenon
<1>3. Visited(S, U) = {x \in S : f[x]}
  BY Zenon DEF Visited
<1> HIDE DEF f
<1>4. \A x \in S : f[x] = (x = First \/ \E v \in S : Visits(S, U, v, x) /\ f[v])
  BY <1>2, Zenon
<1>5. \A x \in S : x \in Visited(S, U) <=> f[x]
  BY <1>3, Zenon
<1>6. Visited(S, U) \subseteq S
  BY <1>3, Zenon
<1> QED
  BY <1>4, <1>5, <1>6, Zenon DEF VisitedFrom

\* A set of objects with the first one and what comes after each of them has all of the
\* visited ones.
LEMMA VisitedLeast ==
  ASSUME NEW S \in SUBSET (First .. Word - 1), NEW U \in SUBSET S, NEW D,
         First \in D, \A v \in D \cap S, x \in S : Visits(S, U, v, x) => x \in D
  PROVE  Visited(S, U) \subseteq D
<1> DEFINE T == {x \in Visited(S, U) : x \notin D}
<1> SUFFICES ASSUME T # {} PROVE FALSE
  OBVIOUS
<1>1. PICK x \in T : \A y \in T : ~ (y < x)
  <2>1. T \in SUBSET Nat
    <3>1. Visited(S, U) \subseteq S
      BY VisitedIs
    <3>2. S \subseteq Nat
      OBVIOUS
    <3> QED
      BY <3>1, <3>2
  <2> HIDE DEF T
  <2> QED
    BY <2>1, LeastOf
<1>2. x \in S /\ x # First /\ VisitedFrom(S, U, Visited(S, U), x)
  BY VisitedIs
<1>3. PICK v \in Visited(S, U) : Visits(S, U, v, x)
  BY <1>2 DEF VisitedFrom
<1>4. v \in S /\ v < x
  BY <1>2, <1>3, VisitedIs, VisitsUp
<1> QED
  BY <1>1, <1>2, <1>3, <1>4

\* With no object in use, HeapDefrag joins everything with the first object.
LEMMA JoinedWhole ==
  ASSUME NEW S \in SUBSET (First .. Word - 1), First \in S
  PROVE  S \ Joined(S, {}) = {First}
<1>1. First \in (S \cap Visited(S, {})) \ {}
  <2>1. {} \in SUBSET S
    OBVIOUS
  <2> QED
    BY <2>1, VisitedIs DEF VisitedFrom
<1>2. \A p \in S : p # First => First < p
  OBVIOUS
<1>3. \A p \in S : p # First => p \in Joined(S, {})
  BY <1>1, <1>2 DEF Joined
<1>4. First \notin Joined(S, {})
  BY JoinedAreFree
<1>5. QED
  BY <1>3, <1>4

-----------------------------------------------------------------------------
HInv == TypeOK /\ NoOverlap /\ EmptyIsWhole

LEMMA InitHInv == Init => HInv
<1> SUFFICES ASSUME Init PROVE HInv
  OBVIOUS
<1>1. /\ objs = {First} /\ used = {} /\ result = HeapID
      /\ pushed = 1 /\ wild = FALSE
  BY DEF Init
<1>2. req \in [used -> 1 .. Word - 1]
  BY DEF Init
<1>3. First \in First .. Word - 1 /\ result \in 0 .. Word - 1
  BY <1>1
<1>4. pushed \in 0 .. 2
  BY <1>1
<1>5. wild \in BOOLEAN
  BY <1>1
<1>6. TypeOK
  BY <1>1, <1>2, <1>3, <1>4, <1>5 DEF TypeOK
<1>7. QED
  BY <1>1, <1>6 DEF HInv, NoOverlap, EmptyIsWhole

\* A call that fails leaves the heap as it was.
LEMMA FailHInv ==
  ASSUME HInv, NEW code \in 0 .. Word - 1, NEW words \in 0 .. 2,
         Fail(code, words)
  PROVE  HInv'
BY DEF HInv, TypeOK, NoOverlap, EmptyIsWhole, Fail

\* Taking an object that has room, with or without a split behind it, keeps
\* the promises made to the owners of the others.
LEMMA TakeHInv ==
  ASSUME HInv, NEW size \in Sizes, size # 0, NEW o \in objs \ used,
         Take(o, size),
         \/ UNCHANGED <<objs, wild>>
         \/ Extend(o, size) /\ \A p \in objs : p > o => Split(o, size) < p,
         \A p \in objs : p > o => o + size + 3 <= p
  PROVE  HInv'
<1> USE DEF HInv, TypeOK
<1>1. /\ o \in Nat /\ o >= First /\ o < Word /\ size \in 1 .. Word - 1
      /\ objs \subseteq Nat /\ used \subseteq objs
      /\ \A u \in used : req[u] \in Nat
  OBVIOUS
<1>2. objs' \subseteq objs \cup {Split(o, size)} /\ objs \subseteq objs'
  BY DEF Extend
<1>3. /\ Split(o, size) \in objs' /\ Split(o, size) \notin objs
         => /\ Split(o, size) < Word
            /\ \A p \in objs : p > o => Split(o, size) < p
  BY DEF Extend
<1>4. TypeOK'
  <2>1. objs' \subseteq First .. Word - 1
    <3>1. CASE UNCHANGED objs
      BY <3>1
    <3>2. CASE Extend(o, size)
      <4>1. Split(o, size) \in Nat /\ Split(o, size) >= First
        BY <1>1 DEF Split
      <4>2. Split(o, size) < Word => objs' = objs \cup {Split(o, size)}
        BY <3>2 DEF Extend
      <4>3. ~ (Split(o, size) < Word) => objs' = objs
        BY <3>2 DEF Extend
      <4>4. Split(o, size) < Word => Split(o, size) \in First .. Word - 1
        BY <4>1, <1>1
      <4>5. objs \subseteq First .. Word - 1
        OBVIOUS
      <4>6. CASE Split(o, size) < Word
        BY <4>2, <4>4, <4>5, <4>6
      <4>7. CASE ~ (Split(o, size) < Word)
        BY <4>3, <4>5, <4>7
      <4>8. QED
        BY <4>6, <4>7
    <3>3. QED
      BY <3>1, <3>2
  <2>6. wild' \in BOOLEAN
    <3>1. CASE UNCHANGED wild
      BY <3>1
    <3>2. CASE Extend(o, size)
      BY <3>2 DEF Extend
    <3>3. QED
      BY <3>1, <3>2
  <2>2. req' \in [used' -> 1 .. Word - 1]
    BY <1>1 DEF Take
  <2>3. First \in objs' /\ used' \subseteq objs'
    BY <1>2 DEF Take
  <2>4. result' \in 0 .. Word - 1 /\ pushed' \in 0 .. 2
    BY <1>1 DEF Take
  <2>5. QED
    BY <2>1, <2>2, <2>3, <2>4, <2>6
<1>5. ASSUME NEW u \in used', NEW p \in objs', p > u
      PROVE  u + req'[u] + 3 <= p
  <2>1. CASE u = o
    BY <2>1, <1>1, <1>2, <1>5 DEF Take, Split
  <2>2. CASE u # o /\ p \in objs
    BY <2>2, <1>1, <1>5 DEF Take, NoOverlap
  <2>3. CASE u # o /\ p \notin objs
    <3>1. u \in used /\ req'[u] = req[u] /\ p = Split(o, size)
      BY <2>3, <1>2 DEF Take
    <3>2. u < o
      <4>1. u \in objs /\ u \in Nat /\ p \in objs' /\ p \notin objs
        BY <3>1, <2>3, <1>1
      <4>2. u > o => p < u
        BY <4>1, <3>1, <1>3
      <4>3. QED
        BY <4>1, <4>2, <3>1, <2>3, <1>1, <1>5 DEF Split
    <3>3. u + req[u] + 3 <= o
      BY <3>1, <3>2, <1>1 DEF NoOverlap
    <3>4. QED
      BY <3>1, <3>3, <1>1 DEF Split
  <2>4. QED
    BY <2>1, <2>2, <2>3
<1>6. NoOverlap'
  BY <1>5 DEF NoOverlap
<1>7. EmptyIsWhole'
  BY DEF EmptyIsWhole, Take
<1>8. QED
  BY <1>4, <1>6, <1>7

\* The guards of the two ways HeapNewObject finds an object give what
\* TakeHInv asks for.
LEMMA NewObjectFitRoom ==
  ASSUME HInv, NEW size \in Sizes, NEW o \in objs, NEW n \in objs \cup {0},
         FirstFit(objs, used, o, size), IsNext(objs, o, n)
  PROVE  /\ o \notin used
         /\ \A p \in objs : p > o => o + size + 3 <= p
         /\ ~ (RealSize(o, n) - size < SPLITTHRESHOLD)
              => \A p \in objs : p > o => Split(o, size) < p
<1>1. objs \in SUBSET (First .. Word - 1) /\ size \in Nat
  BY DEF HInv, TypeOK
<1>2. Fits(objs, used, o, size)
  BY DEF FirstFit
<1>3. \A p \in objs : p > o => n # 0 /\ o + size + 3 <= n /\ n <= p
  BY <1>1, <1>2, RoomBelowNext
<1>4. QED
  BY <1>1, <1>2, <1>3 DEF Fits, RealSize, Split

LEMMA DeleteHInv ==
  ASSUME HInv, NEW o \in used, HeapDeleteObject(o)
  PROVE  HInv'
<1> USE DEF HInv, TypeOK
<1> DEFINE gone == Joined(objs, used \ {o})
<1>1. objs' = objs \ gone /\ used' = used \ {o}
  BY DEF HeapDeleteObject
<1>2. gone \subseteq objs \ (used \ {o}) /\ First \notin gone
  BY JoinedAreFree
<1> HIDE DEF gone
<1>3. TypeOK'
  <2>1. req' \in [used' -> 1 .. Word - 1]
    BY <1>1 DEF HeapDeleteObject
  <2>2. objs' \subseteq First .. Word - 1 /\ First \in objs' /\ used' \subseteq objs'
    BY <1>1, <1>2
  <2>3. result' \in 0 .. Word - 1 /\ pushed' \in 0 .. 2 /\ wild' \in BOOLEAN
    BY DEF HeapDeleteObject
  <2>4. QED
    BY <2>1, <2>2, <2>3
<1>4. NoOverlap'
  BY <1>1 DEF NoOverlap, HeapDeleteObject
<1>5. EmptyIsWhole'
  BY <1>1, JoinedWhole DEF gone, EmptyIsWhole
<1>6. QED
  BY <1>3, <1>4, <1>5

LEMMA DefragHInv ==
  ASSUME HInv, HeapDefrag
  PROVE  HInv'
<1> USE DEF HInv, TypeOK
<1>1. Joined(objs, used) \subseteq objs \ used /\ First \notin Joined(objs, used)
  BY JoinedAreFree
<1>2. TypeOK'
  <2>1. req' \in [used' -> 1 .. Word - 1]
    BY DEF HeapDefrag
  <2>2. objs' \subseteq First .. Word - 1 /\ First \in objs' /\ used' \subseteq objs'
    BY <1>1 DEF HeapDefrag
  <2>3. result' \in 0 .. Word - 1 /\ pushed' \in 0 .. 2
    BY DEF HeapDefrag
  <2>4. wild' \in BOOLEAN
    BY DEF HeapDefrag
  <2>5. QED
    BY <2>1, <2>2, <2>3, <2>4
<1>3. NoOverlap'
  BY DEF NoOverlap, HeapDefrag
<1>4. EmptyIsWhole'
  BY JoinedWhole DEF EmptyIsWhole, HeapDefrag
<1>5. QED
  BY <1>2, <1>3, <1>4

LEMMA NewObjectHInv ==
  ASSUME HInv, NEW size \in Sizes, HeapNewObject(size)
  PROVE  HInv'
<1>1. CASE NewObjectEmpty(size)
  BY <1>1, FailHInv DEF NewObjectEmpty, HInv, TypeOK
<1>2. CASE NewObjectTooLarge(size)
  BY <1>2, FailHInv DEF NewObjectTooLarge
<1>3. CASE NewObjectFit(size)
  <2>1. PICK o \in objs, n \in objs \cup {0} :
          /\ FirstFit(objs, used, o, size)
          /\ IsNext(objs, o, n)
          /\ Take(o, size)
          /\ IF RealSize(o, n) - size < SPLITTHRESHOLD
               THEN UNCHANGED <<objs, wild>>
               ELSE Extend(o, size)
    BY <1>3 DEF NewObjectFit
  <2>2. size # 0
    BY <1>3 DEF NewObjectFit
  <2>3. /\ o \notin used
        /\ \A p \in objs : p > o => o + size + 3 <= p
        /\ ~ (RealSize(o, n) - size < SPLITTHRESHOLD)
             => \A p \in objs : p > o => Split(o, size) < p
    BY <2>1, NewObjectFitRoom
  <2>4. \/ UNCHANGED <<objs, wild>>
        \/ Extend(o, size) /\ \A p \in objs : p > o => Split(o, size) < p
    BY <2>1, <2>3
  <2>5. QED
    BY <2>1, <2>2, <2>3, <2>4, TakeHInv
<1>4. CASE NewObjectTail(size)
  <2>1. PICK t \in objs \ used :
          /\ NoFit(objs, used, t, size)
          /\ \/ Take(t, size) /\ Extend(t, size)
             \/ Fail(3, 2)
    BY <1>4 DEF NewObjectTail
  <2>2. size # 0 /\ \A p \in objs : ~ (p > t)
    BY <1>4, <2>1 DEF NewObjectTail, NoFit, IsNext, HInv, TypeOK
  <2>3. CASE Fail(3, 2)
    BY <2>3, FailHInv
  <2>4. CASE Take(t, size) /\ Extend(t, size)
    BY <2>2, <2>4, TakeHInv
  <2>5. QED
    BY <2>1, <2>3, <2>4
<1>5. CASE NewObjectFull(size)
  BY <1>5, FailHInv DEF NewObjectFull
<1>6. QED
  BY <1>1, <1>2, <1>3, <1>4, <1>5 DEF HeapNewObject

LEMMA NextHInv == HInv /\ [Next]_vars => HInv'
<1> SUFFICES ASSUME HInv, [Next]_vars PROVE HInv'
  OBVIOUS
<1>1. CASE \E size \in Sizes : HeapNewObject(size)
  BY <1>1, NewObjectHInv
<1>2. CASE \E o \in used : HeapDeleteObject(o)
  BY <1>2, DeleteHInv
<1>3. CASE HeapDefrag
  BY <1>3, DefragHInv
<1>4. CASE UNCHANGED vars
  BY <1>4 DEF vars, HInv, TypeOK, NoOverlap, EmptyIsWhole
<1>5. QED
  BY <1>1, <1>2, <1>3, <1>4 DEF Next

\* The invariant holds in every reachable state.
THEOREM HeapInvariant == Spec => []HInv
BY InitHInv, NextHInv, PTL DEF Spec

\* Type correctness of the chain (the state HeapDefineMemory sets up and every
\* call keeps).
THEOREM TypeCorrect == Spec => []TypeOK
BY HeapInvariant, PTL DEF HInv

\* Clients of HeapNewObject never share bytes, nor own a header's bytes.
THEOREM ClientsApart == Spec => []NoOverlap
BY HeapInvariant, PTL DEF HInv

\* When every object has been deleted, HeapDefrag has made the heap one again.
THEOREM NothingLeaks == Spec => []EmptyIsWhole
BY HeapInvariant, PTL DEF HInv

-----------------------------------------------------------------------------
(***************************************************************************)
(* The chain implements Allocator: the map of live blocks is req, and the  *)
(* answer is the word on top of the stack.                                 *)
(***************************************************************************)

\* An object taken with room above it is a new block apart from the others.
LEMMA TakeIsAlloc ==
  ASSUME HInv, NEW size \in Sizes, size # 0, NEW o \in objs \ used,
         Take(o, size),
         \A p \in objs : p > o => o + size + 3 <= p
  PROVE  A!Alloc
<1>1. /\ o \in 0 .. Word - 1 /\ o >= 100 /\ o \notin used /\ size > 0
      /\ used \subseteq objs /\ objs \subseteq Nat /\ size \in Nat
  BY DEF HInv, TypeOK
<1>2. DOMAIN req = used /\ \A u \in used : req[u] \in Nat
  BY DEF HInv, TypeOK
<1>3. /\ result' = o
      /\ req' = [u \in used \cup {o} |-> IF u = o THEN size ELSE req[u]]
  BY DEF Take
<1>4. DOMAIN req' = used \cup {o} /\ req'[o] = size
  BY <1>3
<1>5. ASSUME NEW x \in used
      PROVE  /\ req'[x] = req[x]
             /\ IF x < o THEN A!Apart(x, req[x], o) ELSE A!Apart(o, req'[o], x)
  <2>1. req'[x] = req[x]
    BY <1>1, <1>3
  <2>2. x \in Nat /\ x \in objs /\ x # o
    BY <1>1
  <2>3. CASE x < o
    BY <2>1, <2>2, <2>3, <1>1, <1>2 DEF HInv, NoOverlap, A!Apart
  <2>4. CASE ~ (x < o)
    BY <2>1, <2>2, <2>4, <1>1, <1>4 DEF A!Apart
  <2>5. QED
    BY <2>1, <2>3, <2>4
<1>6. QED
  BY <1>1, <1>2, <1>3, <1>4, <1>5 DEF A!Alloc, A!ErrorLimit

\* A failing call is a refusal.
LEMMA FailIsRefuse ==
  ASSUME NEW code \in 0 .. 99, NEW words, Fail(code, words)
  PROVE  A!Refuse
BY DEF Fail, A!Refuse, A!ErrorLimit

LEMMA NewObjectRefines ==
  ASSUME HInv, NEW size \in Sizes, HeapNewObject(size)
  PROVE  A!Next \/ UNCHANGED A!vars
<1>1. CASE NewObjectEmpty(size)
  BY <1>1 DEF NewObjectEmpty, Fail, A!vars
<1>2. CASE NewObjectTooLarge(size)
  BY <1>2, FailIsRefuse DEF NewObjectTooLarge, A!Next
<1>3. CASE NewObjectFit(size)
  <2>1. PICK o \in objs, n \in objs \cup {0} :
          FirstFit(objs, used, o, size) /\ IsNext(objs, o, n) /\ Take(o, size)
    BY <1>3 DEF NewObjectFit
  <2>2. size # 0
    BY <1>3 DEF NewObjectFit
  <2>3. o \notin used /\ \A p \in objs : p > o => o + size + 3 <= p
    BY <2>1, NewObjectFitRoom
  <2>4. A!Alloc
    BY <2>1, <2>2, <2>3, TakeIsAlloc
  <2>5. QED
    BY <2>4 DEF A!Next
<1>4. CASE NewObjectTail(size)
  <2>1. PICK t \in objs \ used :
          NoFit(objs, used, t, size) /\ (Take(t, size) \/ Fail(3, 2))
    BY <1>4 DEF NewObjectTail
  <2>2. size # 0 /\ \A p \in objs : ~ (p > t)
    BY <1>4, <2>1 DEF NewObjectTail, NoFit, IsNext, HInv, TypeOK
  <2>3. CASE Fail(3, 2)
    BY <2>3, FailIsRefuse DEF A!Next
  <2>4. CASE Take(t, size)
    BY <2>2, <2>4, TakeIsAlloc DEF A!Next
  <2>5. QED
    BY <2>1, <2>3, <2>4
<1>5. CASE NewObjectFull(size)
  BY <1>5, FailIsRefuse DEF NewObjectFull, A!Next
<1>6. QED
  BY <1>1, <1>2, <1>3, <1>4, <1>5 DEF HeapNewObject

LEMMA DeleteIsFree ==
  ASSUME HInv, NEW o \in used, HeapDeleteObject(o)
  PROVE  A!Free
<1>1. DOMAIN req = used
  BY DEF HInv, TypeOK
<1>2. QED
  BY <1>1 DEF HeapDeleteObject, A!Free

LEMMA StepRefines == HInv /\ [Next]_vars => [A!Next]_A!vars
<1> SUFFICES ASSUME HInv, [Next]_vars PROVE A!Next \/ UNCHANGED A!vars
  OBVIOUS
<1>1. CASE \E size \in Sizes : HeapNewObject(size)
  BY <1>1, NewObjectRefines
<1>2. CASE \E o \in used : HeapDeleteObject(o)
  BY <1>2, DeleteIsFree DEF A!Next
<1>3. CASE HeapDefrag
  BY <1>3 DEF HeapDefrag, A!Refuse, A!ErrorLimit, A!Next
<1>4. CASE UNCHANGED vars
  BY <1>4 DEF vars, A!vars
<1>5. QED
  BY <1>1, <1>2, <1>3, <1>4 DEF Next

LEMMA InitRefines == Init => A!Init
BY DEF Init, A!Init

\* Every behaviour of the chain is one of the allocator: clients get disjoint
\* blocks, keep them until HeapDeleteObject, and error codes are no blocks.
THEOREM ChainIsAllocator == Spec => ImplementsAllocator
<1>1. Spec => []HInv
  BY HeapInvariant
<1>2. QED
  BY <1>1, InitRefines, StepRefines, PTL DEF Spec, ImplementsAllocator, A!Spec
=============================================================================
