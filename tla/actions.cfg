CONSTANTS
  Threads <- MCThreads
  Render = "render"
  Requests <- MCRequests
  MaxRequests = 2
  OptionTexts <- MCOptionTexts
  ActionContexts = {9, 11, 1003}
  None = None
SPECIFICATION FairSpec
INVARIANTS TypeOK StuckExplained KeyReleased AnswerTellsAction RightOption DeathBeforeAction
PROPERTIES HandleEnds PushReturns
CHECK_DEADLOCK FALSE
