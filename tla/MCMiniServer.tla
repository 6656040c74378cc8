---------------------------- MODULE MCMiniServer ----------------------------
(***************************************************************************)
(* The mini server on small instances.  Liveness is checked, so no         *)
(* symmetry is declared.                                                   *)
(***************************************************************************)
EXTENDS MiniServer
=============================================================================
