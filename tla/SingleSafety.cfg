SPECIFICATION FairSpec
CONSTANTS
  GM = gm
  Drawer = d
  Guesser = {g1, g2}
  Beating = {g1, g2}
  Nobody = Nobody
  StrokeLimit = 1
  GameSec = 2
  TransitionSec = 1
  MaxDelay = 1
  MaxInFlight = 2
  MaxRestarts = 1
INVARIANTS
  TypeOK
  ScoredOnce
  EndAgreesWithScore
  StrokesPerGame
  FirstCorrectGuessWins
  EndOpensVote
PROPERTIES
  GameEnds
  ImplementsResult
