CONSTANTS
  c1 = c1
  c2 = c2
  c3 = c3
  a1 = a1
  a2 = a2
  a3 = a3
  Callers = {c1, c2}
  ActionIds = {a1, a2}
  Workload <- MCSharedOrNot
  Registration <- MCRegistration
  ChildFrames <- MCFrames
  Malformed = Malformed
  Free = Free
  ResolvedWindow = 2
  RememberWindow = 2
  ResponseCap = 1
  PipeCap = 1
SPECIFICATION Spec
PROPERTIES
  ReplyBeforeExitCounts
