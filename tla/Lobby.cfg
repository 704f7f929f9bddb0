SPECIFICATION Spec
CONSTANTS
  Pid = {p1, p2, p3, p4}
  Nobody = Nobody
  MinPlayers <- MCMinPlayers
  MinTeam = 1
  Words = {"word", "blank"}
  Overlapping = {"start", "over", "end"}
  MaxInFlight = 2
  MaxMoves = 1
  MaxGames = 1
SYMMETRY Players
INVARIANTS
  TypeOK
  RolesFit
  ConfigStartable
  GuesserDoesNotSeeWord
PROPERTY
  GameNotInterrupted
CHECK_DEADLOCK FALSE
