SPECIFICATION OfficeSpec
CONSTANTS
  x1 = x1
  x2 = x2
  y1 = y1
  y2 = y2

  Portals = {x1, x2}
  Keys = {y1, y2, key3}
  NoKey = NoKey

  SourceKinds = {"file", "api", "shop"}
  e1 = e1
  e2 = e2
  k1 = k1
  k2 = k2
  Externals = {e1, e2}
  Contents = {k1, k2, k3}
  Documents <- SomeDocuments
  NoContent = NoContent
  Runs = {x1, x2}
  Batches = {y1, y2}
  Quota = 2
  LastMonth = 1
  MaxTouched = 3
  MaxSettings = 3

  Orders = {x1, x2}
  Addresses = {y1, y2}
  NoAddress = NoAddress
  Drafts = {d1}
  Tabs = {t1}
  Checks = {v1}
  MaxOrderVersion = 2
  MaxChoice = 3

  Vehicles = {y1, y2, c3}
  Registers = {"customer", "driver"}
  MaxOthers = 2
  PlanLimits <- SomePlans
  Clerks = {x1, x2}

  Customers = {c1}
  Sites = {s1, s2}
  NoPlace = NoPlace
  Editors = {x1, x2}
SYMMETRY Symmetry
INVARIANTS
  OfficeTypeOK
  EvidenceIsStored PodShowsEvidence SelectionIsSound PlannedWhereItIs
PROPERTIES
  EvidenceIsKept OrdersComeInAsShown LimitsHold
CHECK_DEADLOCK FALSE
