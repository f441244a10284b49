SPECIFICATION Spec
CONSTANTS
  Orders = {o1,o2}
  Routes = {r1}
  Resources = {van}
  Addresses = {a1}
  Planners = {p1}
  NoRoute = NoRoute
  Attempts = 2
  RowSets <- SingleStops
  MayExpire = FALSE
  MaxVersion = 4

PROPERTIES StartedRouteIsFrozen
SYMMETRY Symmetry
CHECK_DEADLOCK FALSE
