CONSTANTS
  Procs = {p1, p2}
  f1 = f1
  f2 = f2
  a = a
  b = b
  Foreign <- MCForeign
  Names <- MCNames
  Templates <- MCTemplates
  Scaffold <- MCScaffold
  Top = 2
  Jobs <- MCWirings
  Starts <- MCStarts
  UserConfigs <- MCUserConfigs
  MaxEdits = 0
SPECIFICATION Spec
SYMMETRY Symmetry
INVARIANTS
  WiringRunsTheShim
CHECK_DEADLOCK FALSE
