-------------------------- MODULE MCOverlayListing --------------------------
(* OverlayListing for TLC.                                                 *)
EXTENDS OverlayListing, TLC
CONSTANTS c1, c2

ClientSymmetry == Permutations(Clients)
=============================================================================
