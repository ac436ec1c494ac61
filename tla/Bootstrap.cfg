SPECIFICATION Spec
CONSTANTS
  Processes <- MCProcesses
  Images <- MCImages
  Writes <- MCWrites
  Attempts = 2
  Scenarios <- MCScenarios
PROPERTIES
  TablesFollowRevision
  MigrationsRefusedWithCause
  OutcomeHasCause
  AdminsWorkIsKept
  StartsEnd
CHECK_DEADLOCK FALSE
