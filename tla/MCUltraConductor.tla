-------------------------- MODULE MCUltraConductor --------------------------
(***************************************************************************)
(* Small instances of UltraConductor.                                      *)
(***************************************************************************)
EXTENDS UltraConductor
=============================================================================
