SPECIFICATION Spec
CONSTANTS
  Procs = {1, 2}
  Null = Null
  Loads <- MCLoads
  Books <- MCBooks
  KgPerMt = 2
  MaxStarts = 2
  Submitted <- MCSubmitted
  Typed <- MCTyped
  MaxDeploys = 1
INVARIANTS DerivedAreExact RunsKeepApart
PROPERTIES StatusIsTrue ServedWasJudged QueuedRunsEnd
CHECK_DEADLOCK FALSE
