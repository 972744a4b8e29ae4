SPECIFICATION FairSpec
CONSTANTS
  Commands = 3
  LimitSets = {{}, {"operation"}, {"startup", "command"}, {"command"}}
INVARIANTS CompletionIsMarked
CHECK_DEADLOCK FALSE
