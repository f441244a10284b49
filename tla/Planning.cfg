SPECIFICATION PlanningSpec
CONSTANTS
  Parts = {"fleet", "rewrite", "route", "search", "proposal"}
  Orders = {o1, o2}
  Routes = {r1, r2}
  Resources = {v1, v2}
  Addresses = {a1}
  Planners = {p1}
  Attempts = 0
  RowSets <- OneStop
  MayExpire = FALSE
  NoRoute = NoRoute
  MaxVersion = 3
  Operators = {f1}
  NoResource = NoResource
  MaxPlanVersion = 3
  Grid = 2
  DayEnd = 32
  Tasks <- SomeTasks
  Margins = {0, 2}
  ExactStops = 2
  Candidates = 3
  Rounds = 2
  Fleets <- SomeFleets
  Strategies = {"efficient", "balanced"}
  RefineStops = 2
  ExactJobs = 2
  ExactTrucks = 3
  PoolRoutes = 2
  Assignments <- SomeAssignments
  Islands = {{}, {1}}
  Rates = {0, 1, 2}
  Margin = 2
  WidestMargin = 6
SYMMETRY Symmetry
INVARIANTS FleetRuns RouteIsSearched HoursAreWorked SearchIsSound EveryStopIsAnsweredFor OfferCanBeWorked ReplanIsNoWorse
PROPERTIES GroupIsProgrammedTogether ReleaseSparesTheOffice
CHECK_DEADLOCK FALSE
