----------------------------- MODULE MCConsent -----------------------------
(* One browser for TLC. Tabs and campaigns are interchangeable.            *)
EXTENDS Consent, TLC

Symmetry == Permutations(Tabs) \union Permutations(Campaigns)
=============================================================================
