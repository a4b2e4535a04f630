----------------------------- MODULE MCDiskTool -----------------------------
(***************************************************************************)
(* An instance of DiskTool: two names, two payloads, room for one file.    *)
(***************************************************************************)
EXTENDS DiskTool, TLC

CONSTANTS a, b, one, two

MCNames    == {a, b}
MCFold     == [n \in MCNames |-> n]
MCLength   == [p \in Payloads |-> IF p = one THEN 1 ELSE 2]

\* The processes run the same program.
Symmetry == Permutations(Procs)
=============================================================================
