---------------------------- MODULE MCQuarantine ----------------------------
(***************************************************************************)
(* Instances of Quarantine for TLC.                                         *)
(***************************************************************************)
EXTENDS Quarantine, TLC

CONSTANTS r1, r2, plain, pending

\* One ordinary hold, and one held for a challenge to an active account.
MCAccount == (plain :> "none") @@ (pending :> "active")

RequestSymmetry == Permutations(Request)
=============================================================================
