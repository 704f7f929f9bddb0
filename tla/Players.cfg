SPECIFICATION FairSpec
CONSTANTS
  gm = gm
  s1 = s1
  s2 = s2
  Socket <- MCSockets
  GM = gm
  Admin = admin
  Nobody = Nobody
  Cap = 3
  Watched = {s1}
  Unsteady = {s1, s2}
  Overlapping = {"join", "heartbeat", "leave", "reconnect", "drop", "admin"}
  MaxInFlight = 2
INVARIANTS
  TypeOK
  RegistryTrue
  KickedStayOut
  PointsKept
PROPERTY
  PresenceHeals
CHECK_DEADLOCK FALSE
