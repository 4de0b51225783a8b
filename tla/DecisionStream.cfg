SPECIFICATION Spec
CONSTANTS
  Absent = Absent
  Horizon = 4
  Rules <- MCRules
  Logs <- MCLogs
  InitialWorkers = 2
  Margin = 1
  HourLength = 2
CHECK_DEADLOCK FALSE
INVARIANTS
  TypeOK
  WindowIsComplete
  HeldIsBounded
  DecisionsChain
  DecisionKeysDiffer
PROPERTIES
  ImplementsClusterWalk
  WalkCompletes
