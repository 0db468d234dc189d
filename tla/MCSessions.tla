----------------------------- MODULE MCSessions -----------------------------
(***************************************************************************)
(* Instances of Sessions for TLC.                                          *)
(***************************************************************************)
EXTENDS Sessions, TLC

CONSTANTS l1, r1, r2, o1, k1, k2

\* Requests of one kind are interchangeable.
RequestSymmetry == Permutations({r1, r2}) \cup Permutations({k1, k2})

=============================================================================
