SPECIFICATION Spec
CONSTANTS
  Pid = {p1, p2, p3, p4}
  Nobody = Nobody
  MinPlayers <- MCMinPlayers
  MinTeam = 1
  Words = {"word", "number"}
  Overlapping = {}
  MaxInFlight = 1
  MaxMoves = 0
  MaxGames = 1
SYMMETRY Players
PROPERTY
  WordIsEnough
CHECK_DEADLOCK FALSE
