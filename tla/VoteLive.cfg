SPECIFICATION FairSpec
CONSTANTS
  Mode = "VS"
  Player = {p1, p2}
  GM = p1
  Nobody = Nobody
  Unset = Unset
  VoteSec = 1
  ResetSec = 1
  MaxDelay = 1
  MaxVotes = 1
  MaxEnds = 1
  MaxInFlight = 2
PROPERTY
  VoteResolves
