SPECIFICATION Spec
CONSTANTS
  Mode = "SINGLE"
  Player = {p1, p2, p3}
  GM = p1
  Nobody = Nobody
  Unset = Unset
  VoteSec = 1
  ResetSec = 1
  MaxDelay = 1
  MaxVotes = 1
  MaxEnds = 1
  MaxInFlight = 2
SYMMETRY Symmetry
INVARIANTS
  TypeOK
  ResetNeedsMajority
PROPERTY
  NoVoteLost
