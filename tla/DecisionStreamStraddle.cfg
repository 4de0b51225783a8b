SPECIFICATION StraddleSpec
CONSTANTS
  Absent = Absent
  Horizon = 5
  Rules <- MCRules
  Logs <- MCLogs
  InitialWorkers = 2
  Margin = 1
  HourLength = 2
CHECK_DEADLOCK FALSE
INVARIANTS
  WindowIsComplete
