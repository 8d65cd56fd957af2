------------------------------ MODULE MCRelay ------------------------------
(* Relay for TLC: callers, like principals and devices, differ in their    *)
(* names only.                                                              *)
EXTENDS Relay, TLC

Symmetry == Permutations(Callers) \cup Permutations(Principals) \cup Permutations(Devices)

=============================================================================
