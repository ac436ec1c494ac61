SPECIFICATION Spec
CONSTANTS
  Savers = {a, b}
  Records <- MCRecords
  Rows <- MCRows
  MaxSaves = 2
  MaxErrors = 1
INVARIANTS UniqueKeys IdentitiesNeverDeadlock
PROPERTIES RowsOnlyGain
CHECK_DEADLOCK FALSE
