---------------------------- MODULE MCUserProfile ----------------------------
(***************************************************************************)
(* Instances of UserProfile for TLC.                                       *)
(***************************************************************************)
EXTENDS UserProfile, TLC

CONSTANTS u1, u2, u3, d1, g1, g2

\* Requests of one kind are interchangeable.
RequestSymmetry == Permutations({u1, u2, u3}) \cup Permutations({g1, g2})

=============================================================================
