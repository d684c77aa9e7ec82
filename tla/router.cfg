CONSTANTS
  k1 = k1
  k2 = k2
  a1 = a1
  a2 = a2
  a3 = a3
  Kinds = {k1, k2}
  ActionIds = {a1, a2, a3}
  Registrations <- MCRegistrations
  Unregistered = Unregistered
  Replies <- MCReplies
  ResolvedWindow = 2
  MaxResolutions = 4
SPECIFICATION Spec
SYMMETRY KindSymmetry
INVARIANTS
  WindowIsLatest
  DuplicateOnlyAfterWindow
  ResolutionsAreDeclared
\* The history is bounded, and a bound reached with every kind registered
\* leaves no step: the router itself is only ever called.
CHECK_DEADLOCK FALSE
