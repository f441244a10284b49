SPECIFICATION RoadSpec
CONSTANTS
  x1 = x1
  x2 = x2
  y1 = y1
  y2 = y2

  BookedRoutes = {y1, y2}
  Crew = {van}
  Bookers = {x1, x2}
  NewRoute = NewRoute
  DaySlots = 3
  Drafts <- SomeDrafts
  Moments = {3}
  Lengths = {1, 2}

  Trips = {y1, y2}
  Pilots = {d1}
  NoPilot = NoPilot
  NoTrip = NoTrip
  Uploads = {x1, x2}
  FirstStops = {1}
  KeptMinutes = 1
  MaxMinutes = 2

  DeliveryIds = {x1, x2}
  Goods = {y1, y2}
  NoGoods = NoGoods
  Selectors = {s1, s2}
  NoLink = NoLink
  ShareDays = 1
  LastDay = 2
SYMMETRY Symmetry
INVARIANTS
  RoadTypeOK LinksFollowTheirRound
PROPERTIES
  BookingsAreKept PositionsAreTrue
CHECK_DEADLOCK FALSE
