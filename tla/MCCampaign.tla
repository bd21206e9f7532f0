----------------------------- MODULE MCCampaign -----------------------------
(***************************************************************************)
(* Instances of Campaign for TLC: a few copies of one message arriving     *)
(* together.  Copies are interchangeable, so TLC uses their symmetry.      *)
(***************************************************************************)
EXTENDS Campaign, TLC

CopySymmetry == Permutations(Copy)
=============================================================================
