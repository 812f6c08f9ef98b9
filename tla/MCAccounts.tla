----------------------------- MODULE MCAccounts -----------------------------
(* Accounts for TLC. People, invitations and actors are interchangeable.   *)
EXTENDS Accounts, TLC

Symmetry == Permutations(People) \union Permutations(Invitations) \union Permutations(Actors)
=============================================================================
