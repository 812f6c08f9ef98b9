----------------------------- MODULE MCContent -----------------------------
(* A small instance of Content for TLC: two languages, two wordings, two   *)
(* server actions at a time.                                               *)
EXTENDS Content, TLC

SessionSymmetry == Permutations(Sessions)
=============================================================================
