SPECIFICATION Spec
CONSTANTS
  FirstDay = 2
  LastDay = 3
  MaxJobs = 3
  ColdStart = 2
  Builds <- SomeBuilds
  Weather = {"weather"}
  Fixed = {"emissions"}
  Exempt = {"pipeline_runs"}
  MaxDrop = 30
  Backfills = {0}
  TypedTags <- SomeTags
INVARIANT CarriedStateOnlyGrows
PROPERTIES DropsAreAccepted RunsAreInherited
CHECK_DEADLOCK FALSE
