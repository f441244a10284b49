# A TLA+ model of GiroFacile

GiroFacile plans deliveries for small carriers: orders arrive at a desk, are
verified, grouped into stops, distributed over drivers and vehicles, programmed,
driven, and closed with evidence. It is one FastAPI process (several workers)
over PostgreSQL; every request runs in its own session, and correctness rests on
row locks, on version columns, and on checks that are repeated once the locks
are held. These modules say what that protocol is and what it guarantees, from
the search of a route to the bill for driving it.

Paths below are relative to `src/app/` unless they start with `docs/`, `tests/`
or `scripts/`.

## 1. Inventory

| Part | State | Operations | Hard because |
|---|---|---|---|
| Order reservations (`services/route_orders.py`) | `RouteOrderAssignment` (unique per order), order status, delivery status and version | `refresh_stale`, `validate_references`, `reserve_orders`, `sync_route_orders` | called by six services, in different transactions, with references read long before |
| Order desk (`services/orders.py`, `selected_order_addresses.py`) | order rows with a version | create, update, verify, transition | locks lost during the geocoding call, versions |
| Route planning (`routers/routes.py`, `services/traffic_correction.py`, `route_enrichment.py`) | `RoutePlan`, `Delivery`, `DeliveryStatus` | compute and save, recalculate, program, refresh traffic, close, cancel | reads before locks, locks lost to commits of the road cache, the identity map of the session, bookings over midnight |
| Start and execution (`services/route_start.py`, `route_execution.py`, `usage_limits.py`) | route status, outcomes, `RouteUsage` | start, note, signature, outcome, close | several portals act on one route; start, billing and conflict check belong together |
| Fleet plans (`services/fleet_planning.py`, `routers/fleet_planning.py`) | `FleetPlan` with configuration, result, `route_ids`, version | preview, redistribute, confirm, program, release | three transactions and a compensation; a proposal that is calculated, repaired and calculated again |
| Search (`optimizer.py`, `services/optimizer_search.py`, `fleet_search.py`, `fleet_seed_search.py`, `fleet_route_pool.py`) | none | search of one route and of a fleet | budgets, incumbents, floors, infeasible neighbours |
| Working clocks (`services/driver_schedule.py`, `fleet_working_clock.py`, `fleet_route_evaluator.py`) | none | evaluation of an order of stops | three clocks that must agree at boundaries |
| Quotas (`services/plans.py`, `routers/vehicles_drivers.py`) | monthly orders, vehicle slots, numbers of rows | reserve, check, report | limits shared by concurrent writers, plans that go down |
| Billing (`services/billing.py`, `routers/billing.py`) | subscription, pending checkout, events | checkout, change, cancel, reconcile, notifications | three parties, repeated, late and reordered events |
| Ingestion (`services/order_ingestion.py`, `routers/order_sources.py`, `order_connectors.py`) | sources, import runs, receipts | upload, preview, confirm, batches, events of shops | repeated and stale batches |
| Selection and drafts (`services/order_planning.py`, `planning_drafts.py`) | versioned selection per actor | change, snapshot, append, draft, resume | several tabs, copies of orders that go stale |
| Evidence (`services/delivery_pod.py`, `object_storage.py`) | object keys in rows, objects in a store | store, replace, remove, reconcile | two stores without a common transaction |
| Position and tracking (`services/live_position.py`, `delivery_tracking.py`) | last position per route, links | record, read, share, revoke | late answers, lock order, ids that are given again |
| Accounts (`routers/auth.py`, `collaborators.py`, `services/sessions.py`, `collaborator_invitations.py`) | password hashes, tokens, revoked sessions | log in, reset, invite, accept, change, archive | mail and commit are not atomic; a link is used twice |
| Identities (`services/identity.py`) | e-mail addresses in several tables, customer numbers | sign up, save, complete a setup, delete | no unique index spans the tables |
| Customers (`routers/customers.py`, `services/customer_planning.py`, `customer_import.py`) | address, coordinates, verification mark | edit, import, verify | no row lock around a geocoding call |
| Chat (`routers/driver.py`, `static/driver/index.html`) | messages, last id shown | send, poll, read | ids are given before the commit |
| Migrations and start-up (`migrations.py`, `legacy_schema.py`, `main.py`) | `schema_migrations`, the schema, what companies entered | upgrade, start a server | several processes and releases, a crash between two transactions |
| Providers and caches (`services/road_routing.py`, `distance_cache.py`, ...) | caches of immutable data, usage log | lookups | commit the caller's transaction |
| Administration, reports, notifications, assistant, agents | single rows | create, update, read | little protocol of their own |

How they interact. Every part that touches the orders of a route goes through
`services/route_orders.py` in the caller's transaction. `lock_company` (the row
of the user) serialises the transactions that change routes, evidence, billing and
limits; orders are locked one by one at the desk and in order of their id when a
route takes or moves them. A fleet plan saves and programs its routes through the
same functions as a single route, and calculates them with the same clock.
Providers are called between a read and a save, and the road cache or the usage
log may commit there: the locks taken before are gone, which is why
`save_route_result` checks everything again. Start, evidence, position and links
meet in `delivery_pod`, `live_position` and `delivery_tracking`, each
called from the portals inside the transaction that changes the route.

The hazards, each at its line and with the properties about it, are in
`PROJECT.json`.

## 2. Modules

| Module | Models | Relation to others |
|---|---|---|
| `RouteOrders` | orders, reservations, planning requests, routes and their execution | base of `FleetPlan` |
| `OrderJourney` | what the services promise about one order, without versions, stops and requests | abstract specification, implemented by `RouteOrders` |
| `FleetPlan` | one fleet plan and the requests on it, next to the office | extends `RouteOrders` |
| `DayBook` | which driver and vehicle is promised when | |
| `Tracking`, `TrackingLinks` | positions of running routes; links of customers | |
| `Evidence` | signature, photo and POD of one delivery, in the row and in the object store | |
| `Intake` | how orders get in: desk, files, batches, shops; the monthly quota | |
| `Selection` | the selection of an operator, its drafts, and the verification of addresses | |
| `Registry` | vehicles and numbered registries under the limits of a plan | |
| `Customers` | the address and the place of a customer | |
| `Billing` | subscription, checkout and notifications against the provider | |
| `Accounts` | one login: passwords, links, sessions | |
| `Identities` | uniqueness of e-mail addresses and customer numbers | |
| `Chat` | messages between a driver and the office | |
| `Migrations` | the upgrade of a database by processes of two releases | |
| `RouteClock` | the evaluation of an order of stops, on three clocks | base of the searches |
| `RouteSearch` | the search of one route | extends `RouteClock` |
| `FleetScores` | how plans of a fleet are evaluated and compared | extends `RouteClock` |
| `FleetSearch` | the search of a fleet under one strategy | extends `FleetScores` |
| `FleetProposal` | the calculation of a preview, with engines, traffic and new divisions | extends `FleetScores`; a search in it is what `FleetSearch` is checked for |
| `RouteOrdersProofs` | theorems about orders and routes, and the refinement of `OrderJourney` | extends `RouteOrders` |
| `PlanningProofs` | theorems about `FleetPlan` | extends `FleetPlan` and `RouteOrdersProofs` |
| `RoadProofs` | theorems about `DayBook`, `Tracking`, `TrackingLinks` and their composite | extends `MCRoad` |
| `OfficeProofs` | theorems about `Evidence`, `Customers`, `Selection`, `Registry`, `Intake` and their composite | extends `MCOffice` |
| `CompanyProofs` | theorems about `Identities`, `Accounts`, `Billing`, `Migrations` and their composite | extends `MCCompany` |
| `ClockProofs` | what the operators of `RouteClock` return, what an earlier departure and wider windows do to them, and how folds, minima and recursive functions exist | extends `RouteClock` |
| `RouteSearchProofs` | the theorem about `RouteSearch` | extends `RouteSearch` and `ClockProofs` |
| `FleetProofs` | the theorems about `FleetProposal` and `FleetSearch` | extends both and `ClockProofs` |
| `MCRouteOrders`, `MCEvidence` | one module for TLC, with its symmetry | |
| `MCCompetition` | the bound of the run with two routes and two requests | extends `MCRouteOrders` |
| `MCPlanning`, `MCRoad`, `MCOffice`, `MCCompany`, `MCLive` | several modules for TLC, in one run each | |

A composite (`MCRoad` and the following) is a set of parts that share no variable:
`part` says which one takes all the steps of a behaviour, and the others stay as
they begin, in one small initial state. Its states are the sum of those of its
parts, not their product, and every property holds of the states of its own
part. Parts do share model values (`x1`, `x2`, `y1`, `y2` are two portals in one part
and two requests in another), so that one symmetry serves them all.
`FleetPlan` and the orders and routes it works on are, on the other hand, a real
composition: the desk, single routes and the plan act on the same variables.

### RouteOrders

`orders`, `assignments`, `routes` and `usage` are the tables; `active` is
`require_active_plan`; `requests` is what a planning request holds in memory
between its transactions. A stop is the set of its orders (`order_stop_key` is a
hash of that set); the stop of a registered customer is the empty set. Sequence,
times, loads, shifts and dates decide only whether a computation is refused; a
refusal changes nothing, and `AbandonPlan` covers it.

| Action | Code |
|---|---|
| `UpdateOrder`, `VerifyAddress`, `Transition` | `services/orders.py`, one order under its row lock and its version |
| `ValidatePlan` | `refresh_stale` and `validate_references` without a lock, then the computation starts |
| `SaveRoute` | `save_route_result`: status of the route, references, reservations, deliveries, `sync`, in one transaction |
| `AfterSave` | whether `_traffic_two_pass` ends, tries again, or saves the best result back |
| `RereadRoute` | the attribute read that loads the row after the pass has committed |
| `ProgramRoute`, `CompleteRoute`, `CancelRoute` | `routers/routes.py` |
| `StartRoute`, `AnnotateDelivery`, `CloseDelivery` | the portals and `services/route_execution.py` |
| `PlanChange` | the subscription expires or is renewed |

SQLAlchemy does not refresh an object that a session holds, unless `populate_existing`
asks for it or a commit expired it. A recalculation by a collaborator reads the route for its
permission check (`routers/routes.py:736`) and then locks the same row (494); when every leg
is in the road cache nothing commits in between, and the locked read answers with the row
read first. `held` is that choice, `seen` the row that stays in the session, and `View` the row
a save decides with: the one it holds, or the present one. All runs and all theorems have it.
The history variable `overtaken` holds the routes that were saved by a session whose row had
another status than the table; `Late` is an order that such a save put on a route after the
event that would have moved it, `Drawn` a request that holds a row from before the start, and
`RewritesAsRead` all that its save may do. `Attempts` is how often the traffic pass computes
again, 2 in the code.

### FleetPlan

`plan` is the `FleetPlan` row (and the page of the client before there is one),
`programs` what each request holds between transactions, `revised` the routes
whose snapshot is not the first revision, `excused` a history variable for the
liveness property. The steps of `program` are separate actions, one per
transaction: `BeginProgram` (reads the plan), `ConfirmDrafts` (saves the drafts),
`EnrichDrafts` (updates times with the traffic), `ScheduleGroup`, and, after an
exception anywhere (`FailProgram`), `ReleaseDrafts` or `LeaveDrafts`. `Crash`
stops a request between two of them. Everything else that can happen to the same orders and
routes is that of `RouteOrders`: `DeskAlone` is the desk, `RoutesAlone` a route that is
planned or recalculated, programmed, started or cancelled next to the group. A
recalculation reads and validates in one step, computes, and saves in another (`SaveAlone`).
The references of its orders are compared again by then; the route row is not, so that it
may give a route that was started meanwhile other stops, another driver or another vehicle
(finding 1), and `FleetRuns` names such a route (`overtaken`). A save over an existing route
replaces its routing snapshot (`revised`). The search may propose any distribution. The plan is
one: two plans meet only over orders and vehicles, as the office and the plan do here.
`release_failed_drafts` also writes the operator's selection (`fleet_planning.py:879-885`),
which is a row of `Selection` and not modelled here.

### DayBook

`book` has the planned times and the crew of each route in slots since the first
day; `booker` is a computation or a traffic refresh between its transactions.
`CompareBookings` is the overlap check of a recalculation, which runs before
`SaveRoute` takes the lock; `ProgramRoute` compares under the lock;
`AskTraffic` and `RefreshTraffic` are `route_enrichment`, with the coalescing of refreshes
that waited for each other, and compare nothing. The history variable `loose`
holds routes that were recalculated or timed again while they were booked: the
code lets them overlap until they are programmed again, and the property leaves
them out by name.

### Tracking and TrackingLinks

An upload of a position reads the route (`ReadTrip`), locks the driver
(`LockPilot`), then the route (`LockTrip`), and writes (`RecordPosition`); a start
locks in the other order (`LockForStart`, `StartTrip`), so the two may wait for each
other, and `AbandonUpload` or `FailStart` is the one PostgreSQL ends. Uploads carry any earlier
minute: the network delays and reorders them. `CleanupPositions` forgets after
24 hours.
A link names a delivery by its row, and a recalculation (`SaveRound`) replaces the
rows, perhaps under the same ids; `given` remembers what each link was given out
for.

### Evidence

The objects are in a store that takes no part in the transaction, so the code
compensates: `fresh` and `replaced` are the `pod_new_objects` and
`pod_old_objects` of the session, `doomed` is what `_cleanup` still has to
remove once the transaction, and with it the locks, is gone. `row` is the
committed `DeliveryStatus`, the `row` of a request is the session's copy. A key is
never drawn twice (`uuid4`), so `used` only grows; `orphans` and `unanswered` are history
variables: the keys whose loss of an owner is expected, and whether the answer of a
commit was lost. `shows` says what the POD was printed from.

| Action | Code |
|---|---|
| `BeginUpdate` | `_apply_delivery_update` up to the first upload: locks, guards, the new status |
| `StoreEvidence` | one `store_evidence`, in the order of `save_delivery_evidence`; the POD reads the rest back (`read_evidence`) |
| `FailUpload` | a `storage.upload` that raises, with or without effect, and the rollback |
| `FailUpdate` | any other exception, or a refused commit |
| `CommitUpdate`, `LoseCommitAnswer` | `commit_delivery_update`, and a commit that takes effect while its answer is lost |
| `RemoveObject` | one turn of `_cleanup`, after the commit or the rollback |
| `StopProcess` | the process stops before, between or after these |
| `MissDelivery`, `CloseRoute` | an outcome without evidence; the route is completed or cancelled |
| `TwoDaysPass`, `Reconcile` | `scripts/reconcile_pod_storage.py` with `--delete` |

### Intake

`source` is the `OrderSource` row, `run` the import runs of the page, `receipt` those
of the sender, `order` the external orders with what the source last said, what
the operator corrected and the version. A request of a source locks the company,
the source and the orders until it commits, so `ConfirmRun`, `Acquire` (a batch of a
management system), `Receive` (an event of a shop) are one action each; what
lies between them is the preview a page shows, a batch that comes again, and the
desk. `breaks` is an exception after rows were applied, with the savepoint of the
run rolled back. `counted` is `OrderMonthlyUsage`, shared with the orders typed at the
desk.

### Selection

`choice` is the versioned selection of an operator, `tab` what a page shows of it,
`drafts` what was put away, `desk` the orders, `check` a verification between the
two transactions of a geocoding call (`Ask`, then `MarkVerified` or `MarkFailed`, which
compare the version and the address, `Unchanged`). `Snapshot` and `Append` are the bundle a
planning page is made from, and `Regenerate` is a snapshot without stops, which are then made
anew from the selected orders (`ShownOf`). A snapshot has to name selected orders only
(`order_planning.py:92-93`); `append_stops` compares what it is sent with nothing but the orders'
rows (166-212), so `Append` accepts stops of orders that were never selected. `ResumeDraft`
leaves out what can no longer be planned.

### Registry and Customers

In `Registry` a plan has standard slots for any vehicle and bonus slots for electric
ones; `clerk` is a vehicle that a request read before it took the lock of the
company (`ReadVehicle`, `ChangeVehicle`); drivers, customers, deposits and collaborators
are numbers under the same limits. In `Customers` no request locks the row:
`Load` reads it and `Commit` writes the columns that changed, over whatever was
committed since. The property leaves out customers two requests wrote over each
other (`overlapped`), because there the code can mark an old position as verified.

### Billing

`account` has the billing columns of the company; `sessions`, `subs`, `sent` are the
provider's; `billing` is what a request holds between two locks of the company row.
A checkout is `PrepareCheckout` (the pending key is committed), `CreateSession` at the
provider, `CommitSession`; `RestartCheckout` is the recursive call of
`services/billing.py:239`. A cancellation of a checkout whose session is not known
creates that session first, under its lock (`CancelCheckout`), commits it, and then
closes whichever checkout the account has when the lock is there again
(`ClearCheckout`). A notification selects the account, retrieves the
subscription as it is then, and commits `Synced`; a reconciliation does the same
without a notification. `ProviderNext` pays, renews, fails and ends on its own;
notifications of a change arrive in any order, late, more than once, and are
repeated until one is answered. `CommitSync` and `ScheduleDowngrade` may be stopped before
their commit.

### Accounts and Identities

`Accounts` is one login of any of three roles. A session is bound to what
`credential` derives from the row (`Credential`), so a change of password ends it without
a write; `letters` are reset tokens, setup tokens and invitations, `visitor` is a
request between reading and committing: a login (`VerifyPassword`, `CommitLogin`), a
reset or an invitation (`OpenLetter`, then `ConfirmReset`, `CompleteSetup`,
`AcceptInvitation`), a change of password. `AcknowledgeLetter` is the second
transaction of an invitation, after the mail. In `Identities` a request takes the
advisory lock of the address (`EmailLocked`), looks through the tables and holds
the lock until it commits; a setup link is checked once before and once under the
lock; sign-ups number their companies under a lock of the table (`LockUsers`).

### Chat

`message` are the rows, committed or not: an id is given at the insert and seen at
the commit. `AskMessages` reads what is after `chatLastId` and marks it as read before the
answer is on its way; `ReceiveMessages`, `LoseAnswer` and `ReopenChat` are the portal.
A message committed after a later one was shown is in `outrun`: a poll for ids
above the highest one shown does not find it, and the property names it.

### Migrations

A stage is one transaction of `migrations.py` or of `legacy_schema.py`; those that only add
tables, columns or indexes are one kind, those that write what companies entered
are modelled by what they write (preferences, the agents' switch, usage of old
routes, owners of old rows, plates, monthly counts, the tutor). Processes of an
earlier and of a later release upgrade under an advisory lock
(`LockUpgrades`, `ReadMarkers`), may die between any two transactions
(`DieUpgrading`), and servers start, write and stop meanwhile
(`require_current_schema`). The switch of the agents is added in one transaction and
filled in another (`legacy_schema.py:238`): a process that dies in between leaves it
off, and `cut` names that case.

### RouteClock, RouteSearch, FleetScores, FleetSearch, FleetProposal

`RouteClock` translates the evaluation of an order of stops (`EvaluateFixedSequence`: drive,
wait for a window, unload outside breaks, return), the departure that may move, the
compiled replay (`FixedRouteEvaluator`), the plain score (`RouteEvaluator`) and the working
clock of the engines from which breaks are removed (`WorkingClock`, `ServiceDomain`,
`WorkingSchedule`). They are pure operators, checked against each other and against
what their purpose defines, over every task of the run.

`RouteSearch` is the search of one route as a state machine: exhaustive up to
`ExactStops`, otherwise a floor, seeds, a descent under a budget (`Candidates`,
`Rounds`), an order from an engine, and the departure. `FleetSearch` is the search of
a fleet: constructions, the older search, insertion, ejection, neighbourhoods,
ruin and recreate, and the pool of routes, around one incumbent that only
`Consider` replaces. `FleetProposal` is `distribute` and `_distribute` around it: ferries, assignments of
the operator, strategies and recovery, engines, refinement and times, traffic
with a second pass, and a second division with slower roads and margins.

Abstractions: times are whole numbers on a grid of half steps of the data, where the
odd ones stand for the margin of 1e-7 of a minute; traffic is a whole factor;
a phase may end after any trial, which is what a budget of evaluations or of
seconds does; an engine returns any plan that works on its clock; in
`FleetProposal` a search returns any plan with the properties `FleetSearch` is checked
for; the evaluations of all orders of a problem are computed once.

## 3. Runs

All runs switch the deadlock check off: routes close, versions and clocks reach
their bound, and the system may stop there.

| Run | Question | Answer |
|---|---|---|
| `route_orders_stops` | every grouping of two orders into stops of one route, with recalculations, retries, outcomes in any order and cancellation | reservations match stops, outcomes agree, orders follow their routes, every change is versioned, and nothing but a recalculation that read its route before takes progress back |
| `route_orders_competition` | two planning requests, two routes and the desk want one order; two addresses, expiry | its driver sees the verified address; its route can be closed and is billed; the steps are steps of `OrderJourney` |
| `kept_row_rewrites_started_route` | may a recalculation rewrite a started route? | yes: finding 1 |
| `traffic_retry_is_refused` | is a retry of the traffic pass accepted when nobody else did anything? | no: finding 2 |
| `planning` | the searches, their clocks, the calculation of a preview, and a group programmed while the office works, with recalculations that hold an older row | routes are searched and timed as promised, every delivery is answered for, offers can be worked, the group is programmed all together or not at all, and what the office took over stays |
| `released_preview_keeps_old_address` | does a released preview plan the present address? | no: finding 3 |
| `live` | what must happen at last | drafts nobody asked for go, a released plan can be saved again, messages are shown |
| `road` | bookings over days and nights, positions, links | crews are promised once, positions are of the running route, links show their delivery while they last |
| `office` | evidence, intake, selection, limits, customers | rows name stored objects and the POD its evidence; orders come in as shown, once and within the quota; what is ready was verified; nobody goes beyond the plan |
| `lost_answer_removes_evidence` | does completed evidence survive a lost answer? | no: finding 4 |
| `company` | subscription, accounts, identities, upgrade | one open session, a state that agrees with the provider's, credentials that end for good, addresses of one identity each, upgrades that keep what was entered |
| `checkout_is_not_reused` | is a checkout that is asked for twice one checkout? | no: finding 5 |

Several properties are conjunctions of named ones, because they answer one question:
`EvidenceIsKept` (`OnlyKnownOrphans`, `CompletedEvidenceStays`),
`OrdersComeInAsShown` (`CorrectionsSurvive`, `QuotaCountsOrders`, `BatchesApplyOnce`,
`PreviewIsImported`), `LimitsHold` (`SlotsSuffice`, `ReportAgreesWithCheck`,
`ExcessNeverGrows`), `SelectionIsSound` (`ReadyMeansVerified`, `NothingGatheredIsLost`),
`BookingsAreKept` (`BookingsAreApart`, `NightIsSeen`),
`PositionsAreTrue` (`PositionsEndWithTheRoute`, `DriverIsInOnePlace`,
`EtaIsOfLastAttempt`, `PositionMovesForward`), `LinksFollowTheirRound`
(`LinkShowsItsDelivery`, `GivenLinkOpens`, `LinkEndsWithItsRound`), `PaidOnce`
(`OneOpenSession`, `AccountIsCurrent`, `ActivePlanWasPaid`, `ScheduleIsAnnounced`,
`FirstPaymentIsMailedOnce`), `AccessFollowsPayments` (`PaidAccessIsKept`,
`GraceIsGivenOnce`), `CredentialsEndForGood` (`SessionsEndForGood`, `LinksWorkOnce`,
`ResetEndsOtherLinks`, `AddressEndsLinks`), `IdentitiesAreDistinct`
(`LoginEmailsAreUnique`, `CustomerNumbersAreDistinct`), `UpgradesAreSafe`
(`SchemaIsWhole`, `UpgradeKeepsContent`, `RepeatsChangeNothing`), `RouteIsSearched`
(`EveryStopOnce`, `FloorIsKept`, `BudgetIsKept`, `ShortIsBest`, `FeasibleIsFound`),
`HoursAreWorked` (`WorkIsWorked`, `DomainIsExact`, `ClocksAgree`, `ScoresAgree`).

Exceptions are named. Where the code permits what a property forbids, a history
variable says when, and the property leaves that case out and nothing else:
`loose` (a programmed route recalculated or timed again, until it is programmed
again), `overlapped` (two requests on one customer), `orphans` and `unanswered`
(objects whose request failed or stopped; an answer of a commit that was lost), `past.doubled` and
`past.cut` (the row lets go of a session that can still be paid: `LetsGo`, below; a stop
between the schedule at the provider and the commit), `overtaken` (a route saved with a row
read before it left that status), `outrun` (a message committed after a later one was shown), `cut`
(an upgrade that died between adding the agents' column and filling it), `excused`
(a process that stopped while it programmed a group). The findings about
`unanswered`, `past.doubled` and the rewritten route show the first step of such a case as a
counterexample. The row lets go of an open session in three ways: a checkout that runs at the
same time starts over (finding 5), a cancellation finds another checkout in the place of
the one it had finished, or the completion of an older checkout arrives after a newer one
was begun and ends the newer one's time. `PaidAccessIsKept` leaves out a renewal that was
not paid, the end of the subscription, and a first payment that was missing when a request
asked for the subscription and was there before the request committed what it had read.

Bounds.

- *Orders and routes.* Two orders are enough for every relation between two stops of one
  route (same stop, two stops, one left out, one moved), and for a group with two
  routes. Two routes are the smallest number that share a driver or compete for an
  order. Two requests are enough because a request only meets the others through the
  tables, and every check compares one request with the tables. `MaxVersion` stops
  edits and plannings, not routes: an order at the bound still travels, so every
  journey after the last edit is explored; the values leave room for a correction between a read and
  a save. `MaxPlanVersion` leaves room for one complete cycle of save, failure,
  release and second save (4, in `live`), or for one programming (3, in `planning`).
  `RowSets` is every grouping in `route_orders_stops`, and a single stop, or none,
  elsewhere. `Attempts` is 2 in `route_orders_stops` and 0 where the traffic pass is not the
  question.
- *One order, two routes.* The constraint `Bounded` of `MCCompetition` lets both requests be under
  way while the address and the subscription are as they began, and one at a time whatever they
  are; with both at will the run would be too large. What two requests do to each other goes
  through the reservation, which the address does not touch; what the desk does meets each
  request alone. The theorems of section 4 about the same properties have no such bound.
- *The group and single routes.* `MCPlanning` has two parts of `FleetPlan`: in `fleet` a single
  route carries orders, in `rewrite` a recalculation of a route of the group takes its orders
  out. `Planners` is empty in `live`, which has no single routes; `ReleasedCanBeRetried` covers
  them for what that run checks of a release.
- *Evidence.* Three keys are a signature, a photo and a POD, or a signature and its
  replacement. Two portals are enough because only one holds the route, and the other
  removes what it has left.
- *Days.* Three slots a day and two routes: one may end before, meet, overlap or run
  into the other's day. Three minutes of the clock of `Tracking` cross the
  thresholds of 90 s, 120 s and (`KeptMinutes`) of the clean-up, and two uploads come in
  either order. Two ids for two deliveries may be exchanged by a recalculation.
- *Intake.* Two external orders, valid, invalid and corrected; two batches, each of
  which may come again after the other; a quota of 2 that the desk shares. The month passes only
  for files and shops: a batch does not look back at a month.
- *Registry.* Three vehicles against 1+1, 2+1 and 2+2 slots: below, at and above
  each limit, with the plan going down.
- *Company.* Two keys and two subscriptions are what a doubled checkout needs. Buying
  and managing are two parts: two requests buy while the provider changes at most
  twice; one request follows a subscription, already paid, that the provider changes up to three times
  (a failed renewal, its payment, an upgrade or a downgrade). Two letters and two
  visitors cross each other; three hashes are a password, a second one, and the
  first one written again. Two processes and one old route, two trucks with one plate.
- *Search.* Two and three stops, with `ExactStops` and `ExactJobs` at 2, so that three of
  them take the long search; 136 tasks and 8 fleets of one or two vehicles in which
  windows, breaks, capacity, gear, bookings and traffic each decide at least once.
  Two rounds, three candidates; every neighbour of every plan may be tried.

Symmetry is used only where no temporal property with fairness is checked.

Fairness. Only `live` assumes any. `FleetFairness` is weak fairness of `Step(f)`: the
code of one request runs to its end, statement after statement, without waiting for
an operator. Nothing is fair about operators, the office, or the process, which may
stop (`Crash`); a stop and an operator who saved the drafts himself excuse drafts that
stay. `ChatFairness` is weak fairness of `AskMessages`, the interval of the portal that
polls again whatever became of the answer, and strong fairness of
`ReceiveMessages`: a network over which answers are sent again and again delivers
one at last. Each part has its own fairness only where it takes the steps. `Evidence`
has none: an object that is never removed is an orphan for the reconciliation,
which an operator runs or does not run.

## 4. What is proved

Each theorem holds for every value of the constants that its module's assumption allows:
any number of orders, routes, requests, portals, customers, uploads, cookies, letters,
subscriptions and so on. The assumptions are the types of the constants, that a
value that stands for "none" is none of the real ones, that the bounds of versions, clocks and
counters are numbers, and, where the argument counts, that what is counted is finite (the
members of a source in `IntakeAssumption`), that the problems of a search are well formed
(`TasksAssumption`, and `FleetsAssumption` with the rules of `DriverSchedule` for shifts and
breaks), that rates and margins are numbers (`PreviewAssumption`), and that the request
which follows a subscription is one of those that buy (`CompanyAssumption`). Nothing else is
assumed; a session may keep its route row in all of them. The proofs have one step per
action of the next-state relation, over lemmas
about the operators that rebuild rows. Each inductive invariant was checked by TLC on
the instances of the runs before it was proved.

Orders and routes (`RouteOrdersProofs`):

| Theorem | Inductive invariant | Why it is not inductive alone |
|---|---|---|
| `TypeCorrect`: `[]TypeOK` | `TypeInv`: types, and a pending retry has an attempt left | without the last part `attempts` would leave `0 .. 2` |
| `OrdersFollow`: `[]OrdersFollowRoutes` | `FollowInv`: types; a route in `usage` runs or is closed (`UsageRuns`); the route of a request exists, and is no draft if the request read it as programmed (`RowsRead`) | an order is synchronised with the start only when there is no usage row yet, so the two must agree; and a save that comes too late writes a status that only a route beyond a draft excuses |
| `ReservationsMatch`: `[]ReservationsMatchStops` | `StopInv`: `FollowInv`; the stops of a route, and of a pending request, share no order; a free order is in no stop of a live route | two stops with one order in common make the key ambiguous |
| `DriverAddress`: `[]DriverSeesVerifiedAddress` | `AddressInv`: a reference is not newer than its order; one with the present version has the present address; "pronto" and reserved orders are verified | the comparison of versions protects addresses only if a version determines them |
| `VersionsChange`: `ChangesAreVersioned` | `TypeInv` | a property of steps |
| `StartsAreBilled`: `EveryStartIsBilled` | `BilledInv`: a route was started exactly if its usage is billed, and one that runs or is completed was started | a route that closes with its last outcome must not be started by a request that comes later |
| `ProgressKept`: `ProgressIsKept` | `FollowInv` and `BilledInv` | a save decides with the row it holds; what that row may be while the route runs follows from both (`CancelledKept`, `RoutesKept`) |
| `Outcomes`: `[]OutcomesAgree` | `OutcomeInv`: `FollowInv` and the property | an outcome is written to the orders of a stop, and these are known from the reservations |
| `JourneyImplemented`: `ImplementsJourney` | `OutcomeInv` and `BilledInv` | every step of the services is a step of `OrderJourney` under the mapping, or is not seen; where an order is in its journey follows from its reservation, its status and its delivery only if the three agree |

`OrderJourney` has a variable for what the code's sessions keep: `drawn`, the trips of which
somebody holds a plan made before they departed. Such a plan may still be carried out after
the departure; it keeps no order that travels or arrived and takes others from the desk only.
Every other step is as the service promises, and the theorem says that a kept row can do no more.

A fleet plan next to the office (`PlanningProofs`), without any condition on what the desk
and single routes do:

| Theorem | Inductive invariant | Argument |
|---|---|---|
| `FleetRunsAlone`: `[]FleetRuns` | types and the property, which leaves out routes that were `overtaken` | every step that makes a route run has looked at the running ones, and a save that gives a running route another crew has overtaken it (`RunsKept`) |
| `GroupTogether`: `GroupIsProgrammedTogether` | types | a saved plan is left with all of its routes programmed or all of its drafts released |
| `ReleaseSpares`: `ReleaseSparesTheOffice` | types | the release takes the drafts as they were saved, and no order stays on one |
| `ReleasedCanBeRetried`: `ReleasedPlanCanBeRetried` | `RetryInv`: the route of a request exists (`RequestsHold`), an order on a draft is reserved (`OrderHolds`), and while the plan is saved its orders are on its untouched drafts (`SavedHolds`) | the release makes ready what the next save asks for only if the untouched drafts hold all the orders the plan distributes |

Evidence (`OfficeProofs`):

| Theorem | Inductive invariant | Why it is not inductive alone |
|---|---|---|
| `EvidenceTypeCorrect`: `[]EvidenceTypeOK` | itself | |
| `EvidenceStored`: `[]EvidenceIsStored` | `AnsweredInv`: while every commit was answered, `StoredInv`: one request uploads at a time, its row names stored keys, a key stands in one place only, and no key to be removed is named by a row | a removal happens after the locks are gone, so it must be known that nobody took the key up meanwhile |
| `PodShows`: `[]PodShowsEvidence`, with lost answers too | `PodInv`: a row with a POD is completed, also the one of a running request; a POD that is still to be printed comes last | a committed row is what a session had in hand |
| `EvidenceKept`: `EvidenceIsKept` | `KeptInv`: one request uploads, the delivery is open while it does, its row and what it replaced cover what the committed row names (`HandedOver`) | a commit drops a key from the row, and the object must then be one that the request removes |

`EvidenceIsStored` speaks of the states before an answer of a commit is lost: finding 4
is a counterexample without that condition.

The road (`RoadProofs`):

| Theorem | Inductive invariant | Why it is not inductive alone |
|---|---|---|
| `BookingsKept`: `BookingsAreKept` | `BookingInv`: types, a refresh is about a route, and `BookingsAreApart` | bookings of two days meet at midnight only, which follows from the bound on the length of a route |
| `PositionsTrue`: `PositionsAreTrue` | `PositionInv`: an upload that holds a route holds one that runs (`UploadsHoldRoutes`), a driver is held once (`PilotsAreHeldOnce`), and the positions it will delete are all the others of its driver (`ClearsAreComplete`) | the deletion was decided two statements before it is done |
| `LinksFollow`: `[]LinksFollowTheirRound` | `LinkInv`: a link is of a present delivery, with the expiry of the present day, and `given` knows what it was given for (`RowsHold`); the last one asked for works (`LastHolds`) | the ids of deliveries are given again, so that a link must be known to be of the row that has its id now |

The office (`OfficeProofs`):

| Theorem | Inductive invariant | Why it is not inductive alone |
|---|---|---|
| `CustomersPlanned`: `[]PlannedWhereItIs` | `CustomerInv`: types and the property | a commit over a row that is as it was read writes the new row (`WrittenRow`); over any other it marks the customer as `overlapped` |
| `SelectionKept`: `[]SelectionIsSound` | `SelectionInv`: a page with the current version shows the current stops (`PagesAgree`), what was gathered is selected and shown (`GatheredIsKept`), a check is about an address (`ChecksHold`) | a request replaces the stops a page showed, and loses nothing only if the page showed everything |
| `LimitsKept`: `LimitsHold` | `RegistryInv`: types, and finitely many vehicles are registered | that a fleet fits exactly when each vehicle can have a slot of its own is a pigeonhole argument over numbered vehicles (`Numbered`, `SlotsCounted`) |
| `IntakeKept`: `OrdersComeInAsShown` | `IntakeInv`: the count is what was typed and the orders of the month (`CountsHold`), a preview says what would happen to every order that has the version it saw (`RunsHold`), a batch without a receipt was never applied (`ReceiptsHold`) | a preview is confirmed long after it was made, against versions only |

The company (`CompanyProofs`):

| Theorem | Inductive invariant | Why it is not inductive alone |
|---|---|---|
| `IdentitiesDistinct`: `[]IdentitiesAreDistinct` | `IdentityInv`: the lock of an address has one holder (`LocksAreExclusive`), who knows that nobody else has it (`CheckedAreFree`); the number of a sign-up is above all numbers (`NumberParts`) | the tables were searched some statements before the row is written |
| `CredentialsEnd`: `[]CredentialsEndForGood` | `AccountInv`: a session that ended has an older hash or version than the account, or is of a driver who is not let in (`SessionParts`), links work once (`LetterParts`), hashes are numbered (`RoleParts`) | a password that comes again must not open an old session |
| `PaymentsAgree`: `[]PaidOnce` | `BillingInv`, below | |
| `AccessIsFair`: `AccessFollowsPayments` | `BillingInv` | a request commits what it read of the provider before, which is about a payment that was made |
| `UpgradesKeep`: `UpgradesAreSafe` | `MigrationInv`: versions are recorded in their order and are built when they are (`MarkersHold`), a process is at a stage nobody has recorded and has built all before it (`UpgraderHolds`), what a stage filled stays filled (`FilledHolds`), the settings are those from before or of a stage (`OriginHolds`) | a process decides by markers it read when it took the lock, and a server by the last marker alone |

`BillingInv` has one part for each thing a request may rely on when it has an answer of the
provider in hand. `RequestsHold`: one request has the lock, and the subscription and the
notification it is about exist. `MoneyHolds`: what a subscription, or a reading of one, says
is paid was paid, what it says is unpaid had lapsed or never was. `SessionsHold`: while the
row let go of no open session, the only open one is the row's, with its time, and a live
subscription leaves none. `SchedulesHold`: a schedule is of the account's subscription and is
announced or has become the plan, and a request that is about to write has read that plan.
`NewsHolds`: whenever the account, or what a request has read, is not what the provider says
now, there is a notification that is not answered yet and will make a request look. The last
one is why `AccountIsCurrent` holds although notifications are late, repeated and out of
order: none of them carries the state, each only causes a look, and the last one answered
looks last.

The search of one route (`RouteSearchProofs`, over `ClockProofs`):

| Theorem | Inductive invariant | Why it is not inductive alone |
|---|---|---|
| `RouteIsSearchedHolds`: `[]RouteIsSearched` | `RouteInv`: the keys are those of the problem (`RouteTables`), the floor is no better than the order at hand, no worse than the order of the user, and feasible if an order is (`FloorOK`), every seed is an order and its share of the budget ends within the budget (`SeedsOK`) | the property speaks of the end of a search; before it, a descent may hold an order that is worse than the floor and must not lose what the floor has |

It holds for every problem whose stops, roads and windows are well formed
(`TasksAssumption`, `IsProblem`), every margin, and every budget. Its parts: an order of the
search is a permutation whatever the greedy order, the neighbourhoods and the engine do
(`GreedyIsOrder`, `ReverseIsOrder`); the keys of a finite set of orders have a minimum
(`BeforeTotal`, `MinimumExists`), so what is kept is never worse than what it replaced; and,
when there are no breaks, the table of the fallback is sound and complete. Sound: an entry
for a set of stops and a last one is a real run that ends when it says (`ReachWitnesses`).
Complete: no order without a missed window reaches the same stops with the same last one
sooner (`ReachIsSoonest`), because to arrive sooner never means to be served later
(`SoonerServes`). So if some order misses no window, one of the table does
(`FallbackIsFeasible`).

The folds and recursive functions of `RouteClock` are induction over data. It is done without
the library's induction theorems: `MeasuredRecursion` shows that a recursive function exists
when each value rests on values of a smaller measure, from the well-foundedness of the
natural numbers (`NatLessThanWellFounded`), with sets and functions in the place of
operators; `FoldLeftRun` and `FoldRightRun` then give each fold as a run of its steps.

The calculation of a preview (`FleetProofs`, over `ClockProofs`):

| Theorem | Inductive invariant | Why it is not inductive alone |
|---|---|---|
| `ReplanNeverWorsens`: `[]ReplanIsNoWorse` | `ReplanInv`: the tables are those of the fleet of this attempt (`BookIsOfAttempt`), the division is a plan of the vehicles of the request (`DivisionIsPlan`), what is shown are routes with their delays and buffers (`OfferIsShown`), and the attempt that is kept is no worse than the first at every moment (`KeptIsNoWorse`) | the property speaks of the answer; before it, a second attempt may be worse, and the comparison of its delays is one of numbers only if every route it shows has them |
| `EveryStopIsAnswered`: `[]EveryStopIsAnsweredFor` | `ReplanInv`, and `AnswerInv`: what a search holds is a division, in which no delivery is on two vehicles and every order has a score (`SearchIsDivision`); what the operator has assigned is gathered on its vehicles (`AssignedIsGathered`); from the moment the division is settled, every delivery is in one route or out, on the chosen vehicle (`DivisionIsDealt`, `OfferIsDealt`), and so it stays in the attempt that is kept (`KeptIsDealt`) | the property speaks of the answer, which may be the first attempt while the second is calculated with other tables; and a route is shown only if its vehicle can work it with the true windows, which follows from how the search found it |

It holds for every fleet, assignment, island, rate of traffic and margin, and for whatever
plan the search and the engines return. Most of the proof is about what the operators of a
preview return: a fleet with narrower windows, slower roads and shorter shifts is still a
fleet (`SlowerTyped`, `ClosedEarlierTyped`, `ShortenedShiftTyped`, `TightenedTyped`), the
order that is kept for a route is one of its own orders (`RefinedTyped`), the time of departure is
never before the first one (`LaterTyped`), the second pass of traffic changes the times of a
route and never its deliveries (`SecondPassTyped`), and the sums and greatest values in the
comparison exist (`TotalRun`, `GreatestOfOffer`).

That no delivery is lost has two arguments. The first is a count: the property, and what
makes a plan valid, compare the number of deliveries aboard with the sum of the lengths of
the orders, and `CountIsApart` shows that they agree exactly when no delivery is on two
vehicles. The second is about the clock. A search works with narrower windows and a shorter
shift than the deliveries have, and leaves at the first minute of the vehicle; the route it
finds is then timed with the true ones, from a later departure if that loses nothing, and a
route that could not be worked would not be shown: its deliveries would be neither in a
route nor unassigned. It is always shown, because who leaves sooner arrives sooner, with
every break on the way (`SoonerArrives`), is served no later at a stop that is open
whenever the narrower one is, and keeps each appointment the other keeps
(`SoonerReady`, `SoonerServed`), and so works every order the other works, within its shift
and in no more time (`LooserWorks`).

The search of a plan (`FleetProofs`, over `ClockProofs`):

| Theorem | Inductive invariant | Why it is not inductive alone |
|---|---|---|
| `SearchIsSoundHolds`: `[]SearchIsSound` | `SearchInv`: the book is the one of the fleet that was asked for and has the floor among its plans (`Asking`); the plan, and the plan under repair, are plans of the book; the plan is no worse than the floor; a fleet that is searched exhaustively is in no other phase, and then no plan of the book is better than the answer (`BestOfAll`) | the property says of the plan under repair only that it names nothing twice; what is put back into it must be a plan that can be worked, and its routes those of the vehicles |

It holds for every set of fleets and under every objective, wherever the budget ends a phase.
`SearchInv` was checked by TLC over the fleets of `planning` before it was proved. Its proof
is one lemma for each group of steps (`SeedKeeps`, `InsertingKeeps`, `RepairKeeps`,
`TakingKeeps`, `RecombineKeeps`, `ExactKeeps`), and it rests on three arguments.

- What a search begins with, and what it makes of a plan, are plans. The constructions and
  the seeds insert one delivery after the other, each in a place of the book
  (`ConstructIs`, `SeedPlanIs`); an order without some deliveries, a reordered route, two
  exchanged tails and two exchanged deliveries are orders of the fleet again
  (`WithoutTyped`, `ReorderedIs`, `SplicedIs`, `ExchangedAre`). Whether they can be worked is
  asked where the plan changes (`ConsiderKeeps`).
- A comparison of plans is one of numbers, of the same width for all plans under one objective
  (`PlanKeyTyped`), so that the best of some plans exists (`BestPlanIs`) and "no better than"
  is transitive (`NotBetterTransitive`).
- The exhaustive search looks at one order of each group of deliveries on each vehicle, and
  yet no plan of the fleet is better than what it finds. Every plan has a partition that is
  no worse (`PartitionIs`): its groups on the same vehicles, each in a winning order
  (`WinnerIs`). The deliveries, the gear that is missing and the vehicles in use stay the same
  (`SameMembers`), because a sum over an order depends on its members alone
  (`TotalOfElements`). What remains of the key are sums, squares and the longest day: a
  figure that is nowhere greater has no greater sum, and the same sum only if it is
  everywhere the same (`TotalBelow`), which lets the next figure decide
  (`ImprovedIsNoWorse`). For balanced work the squares need one fact about the clock: the
  work of a route is never less than nothing, although the wait that a later departure saves
  is taken from it (`WorkIsCounted`, from `SlackTyped`: it saves no more than the wait).

That the evaluation is the one of that very vehicle is `ScoreIsOwn`: vehicles that share it
have the same problem and the same capacity (`AliasIsAlike`). One assumption was added for
this theorem, that a fleet has a vehicle (`FleetsAssumption`): a request names two at least
(`app/schemas/fleet_planning.py:45`), and the longest day of no vehicle would be nothing.

The composites (`RoadProofs`, `OfficeProofs`, `CompanyProofs`):

| Theorem | Argument |
|---|---|
| `RoadIsTyped`: `[]RoadTypeOK` | a step of the composite is a step of each part or leaves it alone (`RoadSteps`), so a behaviour of the composite is one of every part, and what is proved of a part holds there |
| `OfficeIsTyped`: `[]OfficeTypeOK` | the same (`OfficeSteps`); a vehicle the registry never met is as it was (`VehiclesWere`), and so is an order that never came in (`OrdersUntouched`): the types alone do not say so |
| `CompanyIsTyped`: `[](CompanyTypeOK /\ PaidOnce)` | the same (`CompanySteps`), and `BillingInv` holds in the state from which the managing part starts too, a company that already pays (`SubscribedHolds`): `PaymentsAgree` starts from an account without a subscription |

The composites are what TLC runs, so these theorems also say that the runs explore
behaviours the other theorems are about.

Only model-checked, and why:

- `RunningRouteCanBeClosed` is about `ENABLED`; `UnaskedDraftsDoNotStay` and
  `MessagesAreShown` are liveness under fairness. Both are out of the prover's reach.
- `HoursAreWorked`, `OfferCanBeWorked`: how three clocks relate at every boundary of a
  break, and that the working clock of the engines accepts exactly what the calendar
  accepts. They are checked over the tasks and fleets of `planning`.

## 5. Findings

1. **A recalculation by a collaborator can rewrite a started route**
   (`routers/routes.py:494`, run `kept_row_rewrites_started_route`). The permission
   check reads the route (line 736) and keeps it; the locked read answers with the
   status read first, if the computation committed nothing.
2. **A second attempt of the traffic pass is refused**
   (`routers/routes.py:710`, run `traffic_retry_is_refused`). It carries the versions
   from before the first save, which has touched the same orders.
3. **A released preview may send a driver to an old address**
   (`services/fleet_planning.py:877`, run `released_preview_keeps_old_address`). The
   release renews the version of each reference and not the stop around it, and the
   version is all that `refresh_stale` looks at.
4. **A lost answer of a commit removes completed evidence**
   (`services/delivery_pod.py:85`, run `lost_answer_removes_evidence`). `db.commit()`
   raises although the commit took effect, the rollback removes the objects the
   committed row names, and the retry is answered as already done.
   `docs/pod-object-storage.md:81-88` promises an immutable POD and orphans at most.
5. **Two checkouts at once open two sessions**
   (`services/billing.py:237`, run `checkout_is_not_reused`). A checkout commits its
   pending key and locks again; the second request finds the key, creates the session
   and commits it; the first one then finds the key no longer pending, clears its
   expiry and starts over with a new key. Both sessions can be paid, and
   `select_current_subscription` refuses to choose between two subscriptions.
6. **A proposal may end after the next booking begins**
   (`services/fleet_planning.py:436`; `tlc -config FleetOverrun.cfg MCPlanning`, not one of
   the runs above, violates `OffersEndBeforeBookings`). `evaluate` compares the minutes of a
   route with a limit that `work_limits` (lines 211-225) measured from the first
   possible departure; the departure is then moved later (685-699), and the second
   pass after the traffic may order the stops again (735), with a return after the
   booking. `docs/fleet-adaptive-upgrade.md:30-32` says that every accepted itinerary has
   been checked for "rientro e disponibilità prima di altri giri". Nothing is saved: the overlap
   check of the save (844) refuses the proposal, so that the operator is shown a plan
   that cannot be confirmed. In the run a vehicle is booked from 18 to 22, leaves at 4, is
   ordered again from `<<1, 2>>` to `<<2, 1>>`, and is back after 18.
   `OfferCanBeWorked` leaves out a route that was ordered again (`OrderedAgain`), and
   nothing else.

One more difference needs no run, because it is what `ReleaseDrafts` does: a
conflict while a group is programmed cancels its drafts
(`services/fleet_planning.py:869`), also those the operator had saved before;
`docs/fleet-planning.md:109` says that they stay.

What the exceptions of section 3 name is not counted as a finding where no document of
the repository promises the opposite: a booking that overlaps after new traffic, two
edits of one customer, a login that writes a hash of an old form over a password that
was changed meanwhile (`routers/auth.py:288`), a message that is overtaken, the agents'
switch after a crash of the first upgrade.

## 6. Not modelled, and the plan

Not modelled, and why:

- *Providers and their caches, `api_usage`*: HTTP clients, immutable data, and a log of
  costs. Their effects on the rest (a commit of the caller, a failure, a late answer)
  are in the models of their callers.
- *Engines*: the formulation for OR-Tools, HiGHS and PyVRP and their warm start; an
  engine is any plan on its working clock.
- *Parsing and matching*: the parsing of files and the mapping of columns are a valid
  or an invalid row; the matching of an order with a customer is left out.
- *Reports, notifications, mail, error log, assistant*: views, mails and log rows
  without state others depend on; where a mail carries a link, its order with the commit
  is in `Accounts`.
- *Permissions*: static tables. *The superadmin's session, company profile, daily
  limit of routes, formatting of schedules, guessed unloading times*: one row in one
  transaction, or a function that only formats.
- *Prices, documents of invoices, the provider's portal*: no state of the application
  depends on them beyond the events in `Billing`.
- *The web client* is, but for the chat, a caller whose requests are free.

What a next development would take up, in this order:

1. `OrdersFollowRoutes`, `ReservationsMatchStops`, `OutcomesAgree` and `OrderJourney` with a
   fleet plan next to the office: `FleetPlan` writes the same rows in steps of its own, and so
   far only `FleetRuns` and the properties of the plan are proved of it.
2. `OfferCanBeWorked`: `ScoredStands` proves that a route of a division can be worked with the
   true windows from the departure it is given. What is left is that the working clock of the
   engines accepts exactly the plans of the calendar, and that a route ends before the next
   booking, for which the tasks have to exclude routes that take no time at all.
3. `LockOrder`: which rows every request locks in which order, and where a cycle of
   waiting requests exists; `Tracking` has the one between a start and a position.
4. A property about a login with an old hash that overlaps a change of the password,
   and one about the agents' switch after a crash, if the documents come to promise it.
