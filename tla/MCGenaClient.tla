---------------------------- MODULE MCGenaClient ----------------------------
(***************************************************************************)
(* Control-point eventing on small instances.                              *)
(***************************************************************************)
EXTENDS GenaClient, TLC

MCSymmetry == Permutations(Sids) \cup Permutations(Threads)
=============================================================================
