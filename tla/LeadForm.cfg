CONSTANTS
  Visitors = {v1, v2}
  Wishes = {w1, w2}
  Keys = {k1, k2}
  Limit = 2
  MaxCalls = 3
SPECIFICATION FormSpec
SYMMETRY Symmetry
INVARIANTS ThanksMeansLead ErrorMeansNoLead LimitHolds
PROPERTIES ImplementsIntake
CHECK_DEADLOCK FALSE
