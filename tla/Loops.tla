------------------------------- MODULE Loops --------------------------------
(***************************************************************************)
(* The FOR loops of lib/structure.asm, as the code their macros expand to. *)
(* The index is a variable in memory, tested at the top of the loop; what  *)
(* NEXT adds to it is not known there.                                     *)
(***************************************************************************)
EXTENDS Words

CONSTANT Forms   \* among "For", "ForIup", "ForIdown"

ASSUME FormsAssumption == Forms \subseteq {"For", "ForIup", "ForIdown"}

VARIABLES
  form, start, stop, by,   \* the loop that was written
  index,                   \* its variable
  at,                      \* "top", "body", "next" or "out"
  passes,                  \* how often the body was entered, up to MaxPasses
  broke                    \* the body has left the loop by FORBREAK

loop == <<form, start, stop, by>>
loopvars == <<form, start, stop, by, index, at, passes, broke>>

\* A loop that goes on for longer than this comes back to an index it had.
MaxPasses == WordSize + 1

LoopInit ==
  /\ form \in Forms
  /\ start \in WordSet /\ stop \in WordSet
  /\ by \in WordSet \ {0}
  /\ index = start
  /\ at = "top" /\ passes = 0 /\ broke = FALSE

-----------------------------------------------------------------------------
\* The flags at the top: stop minus index, or index minus stop going down.
Compared ==
  IF form = "ForIdown" THEN FlagsOfMinus(index, stop)
                       ELSE FlagsOfMinus(stop, index)

\* Mutant of Leaves: going down, only equality stops the loop.
LeavesAtStop ==
  CASE form = "For"      -> Compared.z
    [] form = "ForIup"   -> ~ Compared.c \/ Compared.z
    [] form = "ForIdown" -> Compared.z

\* The jumps to NextEnd: JMPZ, JMPNC and JMPN.
Leaves ==
  CASE form = "For"      -> Compared.z
    [] form = "ForIup"   -> ~ Compared.c \/ Compared.z
    [] form = "ForIdown" -> Compared.n \/ Compared.z

Top ==
  /\ at = "top"
  /\ IF Leaves
       THEN at' = "out" /\ UNCHANGED passes
       ELSE at' = "body" /\ passes' = IF passes < MaxPasses THEN passes + 1 ELSE passes
  /\ UNCHANGED <<loop, index, broke>>

\* The body runs to its end.
Body ==
  /\ at = "body"
  /\ at' = "next"
  /\ UNCHANGED <<loop, index, passes, broke>>

FORBREAK ==
  /\ at = "body"
  /\ at' = "out"
  /\ broke' = TRUE
  /\ UNCHANGED <<loop, index, passes>>

\* It jumps where FORBREAK does, past NEXT.
FORCONTINUE ==
  /\ at = "body"
  /\ at' = "out"
  /\ UNCHANGED <<loop, index, passes, broke>>

\* Mutant of NextBy: the index is not advanced.
NextByNothing ==
  /\ at = "next"
  /\ at' = "top"
  /\ UNCHANGED <<loop, index, passes, broke>>

\* Next (by = 1), NextBy, NextByI.
NextBy ==
  /\ at = "next"
  /\ index' = Plus(index, by)
  /\ at' = "top"
  /\ UNCHANGED <<loop, passes, broke>>

LoopNext == Top \/ Body \/ FORBREAK \/ FORCONTINUE \/ NextBy

\* The CPU goes on executing instructions.
LoopSpec == LoopInit /\ [][LoopNext]_loopvars /\ WF_loopvars(LoopNext)

-----------------------------------------------------------------------------
\* The index after k increments.
After(k) == (start + k * by) % WordSize

\* Going down to a stop that is less than half of the words below, the loop
\* runs for every index above the stop, also when a step jumps over the stop.
DownRuns ==
  LET span == start - stop
      down == WordSize - by
  IN  form = "ForIdown" /\ span \in 0 .. Half - 1 /\ down \in 1 .. Half =>
        /\ at = "out" /\ Leaves => passes = (span + down - 1) \div down
        /\ at = "body" => index > stop /\ index <= start

\* 'index will increment from start to stop and must Exactly equal the stop value to
\* end the loop': when a step comes to it, though the index may wrap around before.
ComesToStop == form = "For" /\ \E k \in 0 .. WordSize : After(k) = stop

\* Going down over less than half of the words.
GoesDown ==
  form = "ForIdown" /\ start - stop \in 0 .. Half - 1 /\ WordSize - by \in 1 .. Half

\* A loop ends when its step comes to the stop value, and going down whatever the step.
LoopStops == ComesToStop \/ GoesDown => <>(at = "out")

\* 'For from constant A until >= Constant B': a loop upwards enters its body
\* when it starts below its stop.
UpRuns == form = "ForIup" /\ start < stop /\ at = "out" => passes > 0

\* 'All For Termination tests are Unsigned': so does a loop downwards.
DownRunsUnsigned == form = "ForIdown" /\ start > stop /\ at = "out" => passes > 0

\* 'it shortcuts the loop to the NEXT line': FORCONTINUE does not end the loop.
EndsAtStop == form = "For" /\ at = "out" /\ ~ broke => index = stop
=============================================================================
