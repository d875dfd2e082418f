SPECIFICATION Spec
CONSTANTS
    Days = {1, 2}
    Values = {1, 2}
    Setups <- MCSetups
    InlineLimit = 1
    MaxLost = 1
INVARIANTS SnapshotsStayReadable LastLoadsAreDiffable ColdStartOnlyWhenEmpty
PROPERTIES ExpiryLeavesNothing CopiesKeepApart
CHECK_DEADLOCK FALSE
