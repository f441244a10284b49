SPECIFICATION Spec
CONSTANTS
  Orders = {o1}
  Routes = {r1}
  Resources = {}
  Addresses = {a1}
  Planners = {p1}
  NoRoute = NoRoute
  Attempts = 2
  RowSets <- OneStop
  MayExpire = FALSE
  MaxVersion = 4
INVARIANTS RetryIsAccepted
SYMMETRY Symmetry
CHECK_DEADLOCK FALSE
