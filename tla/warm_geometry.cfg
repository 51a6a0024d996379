SPECIFICATION Spec
CONSTANTS
  NoLayout = NoLayout
  Unset = Unset
  NoFonts = NoFonts
  Unstamped = Unstamped
  MaxTreeDepth = 6
  MaxRequests = 4
  MaxDiagnostics = 6
  Plan <- NestedFill
  Virtual <- MCVirtual
  Modes = {"cold", "warm", "incremental"}
  Closure = "family"
  MaxEdits = 3
  MaxPasses = 3
INVARIANTS Transparent
CHECK_DEADLOCK FALSE
