-------------------------- MODULE MCDeviceState --------------------------
(* DeviceState on a small instance: two enrolments, one of every command. *)
EXTENDS DeviceState, TLC
\* A bound: a daemon's device is followed up to the first overlap of two
\* commands, after which no property says more of it.  A bridge's is followed
\* through every overlap.
Followed == overlap => role = "bridge"
Symmetry == Permutations(Enrols) \cup Permutations(Tokens)
=============================================================================
