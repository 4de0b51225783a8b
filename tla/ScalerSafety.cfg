SPECIFICATION Spec
CONSTANTS
  w1 = w1
  w2 = w2
  m1 = m1
  m2 = m2
  m2again = m2again
  m3 = m3
  mBad = mBad
  mGone = mGone
  NoMessage = NoMessage
  Worker <- MCWorker
  Cluster <- MCCluster
  Key <- MCKey
  Message <- CoreMessage
  KeyOf <- MCKeyOf
  ClusterOf <- MCClusterOf
  Malformed <- MCMalformed
  Uploaded <- MCUploaded
  NumLogFiles <- MCNumLogFiles
  NumDecisions <- MCNumDecisions
  BatchSize = 2
  MaxMessages = 2
  Limits <- SafetyLimits
SYMMETRY WorkersAlike
INVARIANTS
  TypeOK
  SingleOwner
  AckedIsRecorded
  UnfinishedHasMessage
  OnlyGenuineItems
  EvaluatedIsDurable
  AnnouncedIsDurable
PROPERTIES
  ImplementsPublication
