SPECIFICATION Spec
CONSTANTS
  Order <- MCOrder
  FirstYear = 1
  LastYear = 3
  StartYear = 2
  Horizon <- MCHorizon
  Ahead = 1
  Lookback = 2
  PerPage = 3
  StalePerPage = 2
  Retries = 2
  MaxTroubles = 1
  MaxEditions = 2
  MaxLoads = 2
  Configs <- MCConfigs
INVARIANT WatermarksAreSafe
PROPERTIES LandsWhole LoadsEnd
CHECK_DEADLOCK FALSE
