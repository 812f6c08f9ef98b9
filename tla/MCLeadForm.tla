----------------------------- MODULE MCLeadForm -----------------------------
(* The enquiry form for TLC. Visitors, wishes and keys are interchangeable. *)
EXTENDS LeadForm, TLC

Symmetry == Permutations(Visitors) \union Permutations(Wishes) \union Permutations(Keys)
=============================================================================
