------------------------------- MODULE MCBrands -------------------------------
(***************************************************************************)
(* Instances of Brands for TLC.                                            *)
(***************************************************************************)
EXTENDS Brands, TLC

CONSTANTS n1, n2, l1
TwoNodes == {n1, n2}

\* An administrator may set a priority below or above the one of the build.
OnePriority == (1 :> 1)
SomePriorities == {0, 2}

\* Processes are interchangeable.
NodeSymmetry == Permutations(TwoNodes)
=============================================================================
