SPECIFICATION ContentSpec
CONSTANTS
  Blank = blank
  Locales = {ru, es}
  Texts = {blank, edited}
  Sessions = {s1, s2}
  MaxRevisions = 3
  MaxEdits = 2
SYMMETRY SessionSymmetry
INVARIANTS
  OneDraft
  LiveIsFrozen
  PurgeSparesHistory
PROPERTIES
  FrozenWrittenOnlyByEarlyReaders
CHECK_DEADLOCK FALSE
