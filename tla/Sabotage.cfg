SPECIFICATION SabSpec
CONSTANTS
  gm = gm
  dA = dA
  dB = dB
  gA = gA
  gB = gB
  GM = gm
  Nobody = Nobody
  Drawers <- MCDrawers
  Guessers <- MCGuessers
  Online <- MCOnline
  MaxRounds = 1
  StrokeLimit = 2
  DrawSec = 2
  GuessSec = 0
  TransitionSec = 0
  MaxDelay = 1
  MaxInFlight = 2
  ArmSec = 1
INVARIANTS
  SabTypeOK
  OncePerGame
  ArmedOnlyInDraw
PROPERTY
  ArmedIsKept
