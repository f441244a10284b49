SPECIFICATION Spec
CONSTANTS
  Orders = {o1}
  Routes = {r1,r2}
  Resources = {}
  Addresses = {a1,a2}
  Planners = {p1,p2}
  NoRoute = NoRoute
  Attempts = 0
  RowSets <- OneStop
  MayExpire = TRUE
  MaxVersion = 4
INVARIANTS DriverSeesVerifiedAddress RunningRouteCanBeClosed
PROPERTIES ImplementsJourney EveryStartIsBilled
CONSTRAINT Bounded
SYMMETRY Symmetry
CHECK_DEADLOCK FALSE
