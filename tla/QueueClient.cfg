SPECIFICATION Spec
CONSTANTS
  w1 = w1
  w2 = w2
  m1 = m1
  m2 = m2
  b1 = b1
  b2 = b2
  Worker = {w1, w2}
  Message = {m1, m2}
  BeatId = {b1, b2}
  Nothing = Nothing
  MaxMessages = 2
  Visibility = 4
  Extension = 4
  Interval = 1
  JoinTimeout = 0
  Retry = 1
  MaxCall = 1
  Plans <- MCPlans
INVARIANTS
  TypeOK
  ExposureTakesMisses
PROPERTIES
  WorkersReachTheQueue
  MessagesAreServed
