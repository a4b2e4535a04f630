----------------------------- MODULE MCEmulator -----------------------------
(***************************************************************************)
(* Programs of three instructions: one that stores and loops, one that     *)
(* calls, ones that fault, trace and use the terminal.                     *)
(***************************************************************************)
EXTENDS Emulator, Sequences, TLC

CONSTANTS f1, f2, none

Op(o) == [op |-> o, to |-> 0]
To(o, a) == [op |-> o, to |-> a]
Program(q0) == [a \in 0 .. 2 |-> q0[a + 1]]

MCPrograms ==
  {Program(q0) : q0 \in
     { <<Op("store"), To("branch", 0), Op("end")>>,
       <<To("push", 2), To("jump", 1), Op("end")>>,
       <<Op("pop"), To("push", 0), Op("toggle")>>,
       <<Op("noecho"), Op("raw"), Op("reset")>> }}

MCLine == 0 :> f1 @@ 1 :> none @@ 2 :> f2
=============================================================================
