--------------------------- MODULE MCAdminScreens ---------------------------
(* A small instance of AdminScreens for TLC: a good text besides the one   *)
(* the page was seeded with, and one the schema refuses; a list of three   *)
(* rows that may grow by one.                                              *)
EXTENDS AdminScreens, TLC

MCTexts == {"seeded", "edited", "broken"}
MCBroken == {"broken"}
ScreenSymmetry ==
  Permutations(Tabs) \union Permutations(Editors) \union Permutations(Seeded)
=============================================================================
