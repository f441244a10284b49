SPECIFICATION CompanySpec
CONSTANTS
  x1 = x1
  x2 = x2
  y1 = y1
  y2 = y2

  BillingRequests = {b1, b2}
  Worker = b1
  CheckoutKeys = {x1, x2}
  Subscriptions = {y1, y2}
  Plans = {1, 2}
  NoKey = NoKey
  NoSubscription = NoSubscription
  MaxChanges = 3

  Roles = {"user", "collaborator", "driver"}
  Mailboxes = {m1, m2}
  NoMailbox = NoMailbox
  Letters = {x1, x2}
  NoLetter = NoLetter
  Cookies = {c1}
  Visitors = {y1, y2}
  MaxHash = 3
  MaxVersion = 2

  Owners = {x1, x2}
  Drivers = {w1}
  Agents = {y1, y2}
  Emails = {e1, e2}
  NoEmail = NoEmail
  Savers = {q1, q2}
  MaxNumber = 3

  Upgraders = {x1, x2}
  OldRoutes = {e1}
  Trucks = {y1, y2}
SYMMETRY Symmetry
INVARIANTS
  CompanyTypeOK PaidOnce CredentialsEndForGood IdentitiesAreDistinct
PROPERTIES
  AccessFollowsPayments UpgradesAreSafe
CHECK_DEADLOCK FALSE
