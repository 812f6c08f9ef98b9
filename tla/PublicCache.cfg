CONSTANTS
  Pages = {index}
  Projects = {proj}
  Index = index
  Slugs = {s1, s2}
  Revisions = {v1, v2}
  Unpublished = Unpublished
  Replicas = {r1}
  Actors = {x1, x2}
  r1 = r1
  Home <- OneReplica
  MaxActions = 2
  MaxCrashes = 1
SPECIFICATION Spec
INVARIANTS StaleIsExplained
CHECK_DEADLOCK FALSE
