SPECIFICATION Spec
CONSTANTS
  Orders = {o1,o2}
  Routes = {r1}
  Resources = {van}
  Addresses = {a1}
  Planners = {p1}
  NoRoute = NoRoute
  Attempts = 2
  RowSets <- AllRowSets
  MayExpire = FALSE
  MaxVersion = 4
INVARIANTS TypeOK ReservationsMatchStops OutcomesAgree OrdersFollowRoutes
PROPERTIES ChangesAreVersioned ProgressIsKept
SYMMETRY Symmetry
CHECK_DEADLOCK FALSE
