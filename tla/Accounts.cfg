CONSTANTS
  People = {u1, u2}
  Invitations = {i1, i2}
  Nobody = Nobody
  NoInvitation = NoInvitation
  Actors = {d1, d2}
  MaxActions = 4
SPECIFICATION Spec
SYMMETRY Symmetry
INVARIANTS OwnerRemains OldSessionsEnd OneToken AccountsAreWhole
CHECK_DEADLOCK FALSE
