-------------------------------- MODULE MCSdk -------------------------------
(***************************************************************************)
(* The SDK on a small instance.  Liveness is checked, so no symmetry is    *)
(* declared.                                                               *)
(***************************************************************************)
EXTENDS Sdk
=============================================================================
