----------------------------- MODULE Allocator -----------------------------
(***************************************************************************)
(* What the heap manager, lib/heapmgr.ld, promises its clients: blocks of  *)
(* memory that stay theirs until they give them back.  Nothing is said     *)
(* about which block an allocation gets, nor when it may fail.             *)
(***************************************************************************)
EXTENDS Integers

CONSTANTS
  Addresses,   \* where blocks may start
  Gap          \* bytes below a block that its client must not write

\* Results below this are error codes, as the library's header says.
ErrorLimit == 100

VARIABLES
  live,     \* block address -> size, of the blocks handed out
  answer    \* the result of the last call

vars == <<live, answer>>

Init == live = [b \in {} |-> 0] /\ answer \in Addresses

\* Two blocks are apart when the lower one, and the header of the upper one
\* above it, end before the upper one starts.
Apart(lo, size, hi) == lo + size + Gap <= hi

\* The answer is the new block; its size is what live records for it.
Alloc ==
  LET b == answer' IN
    /\ b \in Addresses \ DOMAIN live
    /\ b >= ErrorLimit
    /\ DOMAIN live' = DOMAIN live \cup {b}
    /\ live'[b] > 0
    /\ \A x \in DOMAIN live :
         /\ live'[x] = live[x]
         /\ IF x < b THEN Apart(x, live[x], b) ELSE Apart(b, live'[b], x)

Refuse == answer' < ErrorLimit /\ UNCHANGED live

Free ==
  \E b \in DOMAIN live :
    /\ live' = [x \in DOMAIN live \ {b} |-> live[x]]
    /\ answer' = 0

Next == Alloc \/ Refuse \/ Free

Spec == Init /\ [][Next]_vars
=============================================================================
