SPECIFICATION Spec
CONSTANTS
  Countries = {deu}
  Lookback = 2
  EndLag = 1
  EdgeDays = 1
  ColdYears = 1
  YearLength = 3
  SettleLag = 3
  Backfills <- SomeYears
  JumpAhead = FALSE
  Levels = {0, 1, 2, 3}
  LastDay = 4
INVARIANT SettledDaysAreCurrent
PROPERTIES EdgeNeverOverwrites NoDayIsLost
CHECK_DEADLOCK FALSE
