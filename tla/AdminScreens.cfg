SPECIFICATION ScreensSpec
CONSTANTS
  Tabs = {t1, t2}
  Locales = {"ru"}
  Texts <- MCTexts
  Broken <- MCBroken
  First = "seeded"
  MaxRuns = 3
  MaxEdits = 2
  MaxVersions = 2
  Rows = {r1, r2, r3, r4}
  Seeded = {r1, r2, r3}
  Editors = {e1, e2}
  MaxActions = 4
SYMMETRY ScreenSymmetry
INVARIANTS
  CleanMeansStored
  RestoreStands
  TiesComeFromOverlap
PROPERTIES
  LiveIsConfirmed
  MovesLand
CHECK_DEADLOCK FALSE
