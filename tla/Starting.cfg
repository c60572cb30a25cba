SPECIFICATION Spec
CONSTANTS
  Parts = {"start", "migrations", "bootstrap"}
  Processes = {p1, p2}
  Files = {f1, f2, f3, f4}
  MaxStops = 2
  MaxRebinds = 2
  MaxReplaced = 1
  Connections = {c1, c2}
  Messages = {m1, m2}
  MaxFaults = 3
  Keys <- MCKeys
  Extra = "unknown"
  Contents <- MCContents
  MaxBlocks = 2
  MaxCalls = 8
  MaxChanges = 2
SYMMETRY Symmetry
INVARIANTS StartSafety MigrationSafety BootstrapSafety
PROPERTIES ForeignUntouched
CHECK_DEADLOCK FALSE
