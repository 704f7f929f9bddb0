SPECIFICATION FairSpec
CONSTANTS
  gm = gm
  dA = dA
  dB = dB
  gA = gA
  gA2 = gA2
  gB = gB
  GM = gm
  Nobody = Nobody
  Drawers <- MCDrawers
  Guessers <- MCGuessers
  Online <- OnlineAll
  MaxRounds = 2
  StrokeLimit = 2
  DrawSec = 1
  GuessSec = 1
  TransitionSec = 1
  MaxDelay = 1
  MaxInFlight = 1
INVARIANTS
  CorrectGuessWins
  StrokesPerWindow
PROPERTIES
  OneGuessPerTeam
  DrawWindowNotCutShort
  EndReachesVoting
