SPECIFICATION StartupSpec
CONSTANTS
  w1 = w1
  w2 = w2
  f1 = f1
  f2 = f2
  Worker <- MCWorker
  File <- OneFile
  Draft <- Drafts
  MaxTries = 2
  MaxRuns = 1
  Limit <- Dropped
PROPERTIES
  ServiceComesUp
