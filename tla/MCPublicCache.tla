--------------------------- MODULE MCPublicCache ---------------------------
(* PublicCache for TLC: one replica, as .railway/railway.ts has it.         *)
EXTENDS PublicCache, TLC

CONSTANT r1

OneReplica == [x \in Actors |-> r1]
=============================================================================
