CONSTANTS
  c1 = c1
  c2 = c2
  CallsOf <- MCCallsOf
  Nobody = Nobody
  MaxTold = 2
  MaxPipe = 2
SPECIFICATION Spec
INVARIANTS
  PassIsGranted
PROPERTIES
  JudgedAsAsked
  AbortedNeverPasses
  EverySettles
  SessionEnds
CHECK_DEADLOCK FALSE
