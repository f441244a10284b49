SPECIFICATION PlanningSpec
CONSTANTS
  Parts = {"proposal"}
  Orders = {o1}
  Routes = {r1, r2}
  Resources = {v1}
  Addresses = {a1, a2}
  Planners = {}
  Attempts = 0
  RowSets = {}
  MayExpire = FALSE
  NoRoute = NoRoute
  MaxVersion = 6
  Operators = {f1}
  NoResource = NoResource
  MaxPlanVersion = 5
  Grid = 2
  DayEnd = 32
  Tasks <- SomeTasks
  Margins = {0, 2}
  ExactStops = 2
  Candidates = 3
  Rounds = 2
  Fleets <- SomeFleets
  Strategies = {"efficient", "balanced"}
  RefineStops = 2
  ExactJobs = 2
  ExactTrucks = 3
  PoolRoutes = 2
  Assignments <- SomeAssignments
  Islands = {{}, {1}}
  Rates = {0, 1, 2}
  Margin = 2
  WidestMargin = 6
INVARIANTS OffersEndBeforeBookings
CHECK_DEADLOCK FALSE
