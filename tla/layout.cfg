SPECIFICATION Spec
CONSTANTS
  NoLayout = NoLayout
  Unset = Unset
  NoFonts = NoFonts
  Unstamped = Unstamped
  MaxTreeDepth = 6
  MaxRequests = 4
  MaxDiagnostics = 6
  Plan <- Base
  Virtual <- MCVirtual
  Modes = {"cold", "warm", "incremental"}
  Closure = "family"
  MaxEdits = 3
  MaxPasses = 3
INVARIANTS Transparent ContentFresh NothingUnreported MaterializeSettles FlattenRendersTheSame
CHECK_DEADLOCK FALSE
