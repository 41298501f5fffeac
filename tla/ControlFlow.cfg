SPECIFICATION Spec
CONSTANTS
  Statements <- MCStatements
  MaxStatements = 5
  End = End
CHECK_DEADLOCK FALSE
INVARIANTS TypeOK GraphFollowsExecution WarnedIsNeverExecuted
PROPERTY ExecutionFollowsGraph
