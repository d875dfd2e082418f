SPECIFICATION Spec
CONSTANTS
  Limits <- MCLimits
  MaxWait = 5
  Costs <- MCCosts
  Latencies <- MCLatencies
  Pauses <- MCPauses
  MaxCharges = 4
INVARIANTS NoWindowIsOverspent OneSleepIsEnough RefusedOnlyWhenHopeless
PROPERTY NoLongerThanNeeded
CHECK_DEADLOCK FALSE
