CONSTANTS
  Tabs = {t1, t2, t3}
  Campaigns = {c1, c2}
  Direct = Direct
  NoTouch = NoTouch
  MaxChoices = 5
SPECIFICATION ConsentSpec
SYMMETRY Symmetry
INVARIANTS OwnChoiceIsHeard NothingBeforeConsent
CHECK_DEADLOCK FALSE
