SPECIFICATION RestoreSpec
CONSTANTS
  Carried <- TwoTables
  Releases <- SomeReleases
INVARIANTS ReadableIsWhole NextLoadFindsItsTables
PROPERTIES LandedDaysStay RevisionsStay DoneMeansCarried
