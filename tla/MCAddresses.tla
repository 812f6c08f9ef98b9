---------------------------- MODULE MCAddresses ----------------------------
(* Addresses for TLC. Server actions are interchangeable.                  *)
EXTENDS Addresses, TLC

Symmetry == Permutations(Actors)
=============================================================================
