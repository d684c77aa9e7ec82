CONSTANTS
  Starters = {s1, s2, s3}
  Ports = {p1, p2}
  Free = Free
  Other = Other
  Absent = Absent
  Damaged = Damaged
  MaxStarts = 3
SPECIFICATION Spec
SYMMETRY Symmetry
INVARIANTS
  LiveRuntimeIsPublished
  SingleOwner
PROPERTIES
  CleanupRemovesOwn
  DamagedIsKept
