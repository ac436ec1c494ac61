CONSTANTS
  channel = channel
  group = group
  person = person
  Chats <- MCChats
  People <- MCPeople
  Channels <- MCChannels
  Managed <- MCManaged
  MonitorLimit = 1
  MaxTurns = 2
  MaxMishaps = 1
  MaxAdmin = 2
SPECIFICATION Spec
INVARIANTS DecisionHolds SilenceHasCause
PROPERTY RowsConverge
CHECK_DEADLOCK FALSE
