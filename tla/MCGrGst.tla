------------------------------ MODULE MCGrGst ------------------------------
(***************************************************************************)
(* Small instances of GrGst for TLC.                                       *)
(***************************************************************************)
EXTENDS GrGst
=============================================================================
