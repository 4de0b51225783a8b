SPECIFICATION Spec
CONSTANTS
  k1 = k1
  k2 = k2
  k3 = k3
  Key <- MCKey
  Walks <- MCWalks
  BatchSize = 3
  MaxAttempts = 2
  MaxFaults = 3
CHECK_DEADLOCK FALSE
INVARIANTS
  TypeOK
  BatchHasDistinctKeys
  TableIsSequential
PROPERTIES
  WritesComplete
