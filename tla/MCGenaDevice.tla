---------------------------- MODULE MCGenaDevice ----------------------------
(***************************************************************************)
(* Device-side eventing on small instances.                                *)
(***************************************************************************)
EXTENDS GenaDevice, TLC

(* A maximum of Infinite, which a configuration file cannot write. *)
MCSubscriptionMaxima == {Infinite, 1}
MCTimeOutMaxima == {Infinite, 1}
MCNoMaxima == {}
MCSymmetry == Permutations(Sids) \cup Permutations(Workers)
=============================================================================
