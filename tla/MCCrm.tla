------------------------------- MODULE MCCrm -------------------------------
(* A small instance of Crm for TLC: a form sent twice and a second form of *)
(* the same customer, another customer to merge with, three stages.        *)
EXTENDS Crm, TLC

CONSTANTS first, again, second, formA, formB, anna, boris

MCAttempts == {first, again, second}
MCKeyOf    == first :> formA @@ again :> formA @@ second :> formB
MCPhoneOf  == [a \in MCAttempts |-> anna]

AdminSymmetry == Permutations(Admins)
=============================================================================
