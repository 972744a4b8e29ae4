SPECIFICATION FairSpec
CONSTANTS
  Commands = 3
  LimitSets = {{}, {"operation"}, {"startup", "command"}, {"command"}, {"idle"}}
INVARIANTS ConfirmedIsExecuted CancelStopsCommands ClosedIsGone
PROPERTIES NothingAfterItsResult CancelEnds 
CHECK_DEADLOCK FALSE
