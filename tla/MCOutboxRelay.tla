---------------------------- MODULE MCOutboxRelay ----------------------------
(***************************************************************************)
(* Instances of OutboxRelay for TLC.                                       *)
(***************************************************************************)
EXTENDS OutboxRelay, TLC

CONSTANTS i1, i2

\* The processes are interchangeable: no action names one of them.
InstanceSymmetry == Permutations({i1, i2})

=============================================================================
