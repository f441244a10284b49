SPECIFICATION LiveSpec
CONSTANTS
  Orders = {o1, o2}
  Routes = {r1, r2}
  Resources = {v1, v2}
  Addresses = {a1}
  Planners = {}
  Attempts = 0
  RowSets = {}
  MayExpire = FALSE
  NoRoute = NoRoute
  MaxVersion = 2
  Operators = {f1, f2}
  NoResource = NoResource
  MaxPlanVersion = 4

  MaxMessage = 3
PROPERTIES
  ReleasedPlanCanBeRetried UnaskedDraftsDoNotStay MessagesAreShown
CHECK_DEADLOCK FALSE
