CONSTANTS
  Good = Good
  Edited = Edited
  Contents <- MCContents
  Missing = Missing
  NoGrant = NoGrant
  MaxRevision = 3
SPECIFICATION Spec
INVARIANTS
  TypeOK
  VerdictIsCurrent
  ReleasedIsTested
  ReservationIsCurrent
PROPERTIES
  ReleaseIsFinal
