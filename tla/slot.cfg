CONSTANTS
  Procs = {p1, p2, p3}
  v1 = v1
  v2 = v2
  old = old
  new = new
  Versions <- MCVersions
  Protocols <- MCProtocols
  Speaks <- MCSpeaks
  Nobody = Nobody
  Unpinned = Unpinned
  Truncated = Truncated
SPECIFICATION Spec
SYMMETRY Symmetry
INVARIANTS
  PublishedOnce
  LockIsAccounted
  PinIsReady
CHECK_DEADLOCK FALSE
