------------------------------ MODULE MCMedia ------------------------------
(* The image library for TLC. Ids, files and actors are interchangeable.   *)
EXTENDS Media, TLC

Symmetry == Permutations(Assets) \union Permutations(Files) \union Permutations(Actors)
=============================================================================
