SPECIFICATION Spec
CONSTANTS
  gm = gm
  s1 = s1
  s2 = s2
  Socket <- MCSockets
  GM = gm
  Admin = admin
  Nobody = Nobody
  Cap = 3
  Watched = {s1}
  Unsteady = {s1, s2}
  Overlapping = {}
  MaxInFlight = 1
INVARIANT
  Listening
CHECK_DEADLOCK FALSE
