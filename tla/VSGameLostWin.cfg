SPECIFICATION Spec
CONSTANTS
  gm = gm
  dA = dA
  dB = dB
  gA = gA
  gA2 = gA2
  gB = gB
  GM = gm
  Nobody = Nobody
  Drawers <- MCDrawers
  Guessers <- MCGuessers
  Online <- OnlineGuess
  MaxRounds = 1
  StrokeLimit = 1
  DrawSec = 1
  GuessSec = 1
  TransitionSec = 1
  MaxDelay = 1
  MaxInFlight = 2
INVARIANT
  CorrectGuessWins
