---------------------------- MODULE MCDiskImage ----------------------------
(***************************************************************************)
(* An instance of DiskImage: names of which two fold together, and         *)
(* payloads that take one, two and three extents.                          *)
(***************************************************************************)
EXTENDS DiskImage

CONSTANTS a, A, b, empty, middle, large

MCNames    == {a, A, b}
MCFold     == [n \in MCNames |-> IF n = A THEN a ELSE n]
MCPayloads == {empty, middle, large}
MCLength   == [p \in MCPayloads |->
                 CASE p = empty -> 0 [] p = middle -> 3 [] p = large -> 5]
=============================================================================
