SPECIFICATION Spec
CONSTANTS
  Null = Null
  Editions <- MCEditions
  Months <- MCMonths
  Leap = {2}
  MaxRows = 6
  MaxCandidates = 1
  Years = {1, 2}
  Spellings <- MCSpellings
  BuildPrice = 3
  Places = 10
  MoneyStep = 1
  PointStep = 1
  MaxCost = 500
  MaxRounds = 3
  Requests <- MCRequests
  Asked <- MCAsked
  Beside <- MCBeside
  MaxCalls = 3
  MaxBuilds = 1
  Questions <- MCQuestions
  Invented <- MCInvented
INVARIANTS ConversationIsWhole AnswerIsBacked OneWarehousePerCall FiguresAgree
PROPERTY LoopEnds
CHECK_DEADLOCK FALSE
