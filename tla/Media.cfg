CONSTANTS
  Assets = {a1, a2, a3}
  Files = {f1, f2}
  NoFile = NoFile
  Actors = {d1, d2}
  MaxActions = 5
  MaxEdits = 3
SPECIFICATION Spec
SYMMETRY Symmetry
INVARIANTS ImagesRender OrphansExplained
CHECK_DEADLOCK FALSE
