SPECIFICATION FairSpec
CONSTANTS
  Text = {x, y}
  Blank = Blank
  Steady = {x}
  MaxTurn = 2
  DeltaSize = 1
  FwdSize = 1
INVARIANTS LLMTypeOK OneGeneration OneGuess CloseLosesNothing
PROPERTIES TurnsInOrder TurnEnds RunReturns
CHECK_DEADLOCK FALSE
