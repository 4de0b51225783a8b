SPECIFICATION Spec
CONSTANTS
  Inputs <- MCInputs
  MaxMishaps = 1
CHECK_DEADLOCK FALSE
INVARIANTS
  TypeOK
  KeepsWhatIsWhole
  OrderMeetsWatermark
PROPERTIES
  ReadsToTheEnd
