CONSTANTS
  Procs = {p1, p2}
  v1 = v1
  v2 = v2
  old = old
  new = new
  Versions <- MCVersions
  Protocols <- MCProtocols
  Speaks <- MCSpeaks
  Nobody = Nobody
  Unpinned = Unpinned
  Truncated = Truncated
SPECIFICATION Spec
INVARIANTS
  BusyIsRetried
CHECK_DEADLOCK FALSE
