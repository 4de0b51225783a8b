SPECIFICATION StartupSpec
CONSTANTS
  w1 = w1
  w2 = w2
  f1 = f1
  f2 = f2
  Worker <- MCWorker
  File <- OneFile
  Draft <- Drafts
  MaxTries = 2
  MaxRuns = 2
  Limit <- EveryMishap
INVARIANTS
  TypeOK
  OrderlyShutdown
  AnnouncedIsInPlace
PROPERTIES
  DeathIsReported
  FailureIsFinal
  ComesUpUndropped
  ShutdownEnds
  StopHoldsBack
