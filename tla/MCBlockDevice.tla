--------------------------- MODULE MCBlockDevice ---------------------------
(***************************************************************************)
(* An instance of BlockDevice: a sector has four bytes and memory sixteen. *)
(* A sector can be read and written at 11, read by Python alone at 12, and *)
(* not at all at 13.                                                       *)
(***************************************************************************)
EXTENDS BlockDevice

CONSTANTS d0, d1, lost, zero, one, two
=============================================================================
