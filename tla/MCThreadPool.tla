---------------------------- MODULE MCThreadPool ----------------------------
(***************************************************************************)
(* The thread pool on small instances.  Liveness is checked, so no         *)
(* symmetry is declared.                                                   *)
(***************************************************************************)
EXTENDS ThreadPool

MCMaxChoices == {1, 2}
=============================================================================
