CONSTANTS
  Pages = {index}
  Projects = {proj}
  Index = index
  Slugs = {raboty, s1}
  Fallback = raboty
  Nowhere = Nowhere
  Actors = {x1, x2}
  MaxHops = 1
  MaxActions = 3
SPECIFICATION Spec
SYMMETRY Symmetry
INVARIANTS NoShortCircle FormerAddressLands
CHECK_DEADLOCK FALSE
