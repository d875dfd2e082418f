SPECIFICATION ExportSpec
CONSTANTS
  Staging = {"stg_orders", "stg_co2"}
  Tables = {"orders", "co2", "audit"}
  Views <- MCViews
  Identified <- MCIdentified
  Shipped <- MCShipped
  Optional = {"audit"}
  Copiers <- MCCopiers
  MaxExports = 3
INVARIANTS TrustedIsPrepared ManifestDescribesWhatShips
CHECK_DEADLOCK FALSE
