---------------------------- MODULE RouteOrders ----------------------------
(***************************************************************************)
(* The orders of one company and the routes that deliver them.             *)
(*                                                                         *)
(* Desk requests edit, verify and cancel orders under the order's row      *)
(* lock.  A planning request reads the orders it wants, computes a route   *)
(* without holding a lock that survives (the road cache and the usage log  *)
(* may commit), and then saves it under the company lock, where everything *)
(* it read is checked again.  Programming, starting, delivering, closing   *)
(* and cancelling a route each run in one transaction that holds the       *)
(* company lock, so each is one action here.                               *)
(*                                                                         *)
(* A stop is the set of the orders delivered there (its order_stop_key is  *)
(* a hash of that set); the stop of a registered customer, with no order,  *)
(* is the empty set.  Visiting sequence, times and loads are left out:     *)
(* they decide whether a computation is refused, and a refused request     *)
(* changes nothing.                                                        *)
(***************************************************************************)
EXTENDS Naturals

CONSTANTS
  Orders,         (* Order rows of the company.                            *)
  Routes,         (* RoutePlan rows that may ever be created.              *)
  Resources,      (* Its drivers and vehicles.                             *)
  Addresses,      (* Delivery addresses an operator may type.              *)
  Planners,       (* Concurrent planning requests.                         *)
  Attempts,       (* How often the traffic pass computes a route again: 2  *)
                  (* in the code, fewer where a run needs a bound.         *)
  RowSets,        (* Bound of the model: the stop lists a client submits.  *)
  MayExpire,      (* Bound of the model: whether the plan may expire.      *)
  NoRoute,        (* The route_id of a request for a new route.            *)
  MaxVersion      (* Bound of the model: an order with this version is     *)
                  (* neither edited nor replanned any more.                *)

ASSUME ConstantsAssumption ==
  /\ NoRoute \notin Routes
  /\ Addresses # {}
  /\ Attempts \in 0 .. 2
  /\ RowSets \subseteq SUBSET (SUBSET Orders)
  /\ MayExpire \in BOOLEAN
  /\ MaxVersion \in Nat

VARIABLES
  orders,         (* The orders table.                                     *)
  assignments,    (* RouteOrderAssignment, unique per order; "address" is  *)
                  (* the destination its stop shows to the driver.         *)
  routes,         (* RoutePlan with its deliveries and their outcomes.     *)
  usage,          (* Routes with a RouteUsage row (billed as started).     *)
  active,         (* Whether the company's subscription is active.         *)
  requests,       (* What each planning request holds between its steps.   *)
  overtaken       (* History: routes that were saved by a request after    *)
                  (* they had left the status which its session had read.  *)

vars == <<orders, assignments, routes, usage, active, requests, overtaken>>

-----------------------------------------------------------------------------

Editable == {"nuovo", "da_verificare", "pronto"}
Delivered == {"consegnato", "non_consegnato"}
OrderStatuses == Editable \cup Delivered \cup {"assegnato", "in_consegna", "annullato"}
DeliveryStatuses ==
  {"not_assigned", "draft", "scheduled", "in_progress", "delivered", "not_delivered"}

(* "assente" is a route that has not been created yet. *)
RouteStatuses == {"assente", "bozza", "programmato", "in_corso", "completato", "annullato"}
ClosedRoute == {"completato", "annullato"}

Order == [status : OrderStatuses, delivery : DeliveryStatuses, version : Nat,
          address : Addresses, verified : BOOLEAN]

Assignment == [route : Routes \cup {NoRoute}, key : SUBSET Orders, address : Addresses]

Stops == SUBSET (SUBSET Orders)

Route == [status : RouteStatuses, stops : Stops, completed : Stops, missed : Stops,
          uses : SUBSET Resources, started : BOOLEAN]

(* The order_refs of a request: what it knows of each order it plans, and *)
(* version 0 for the others.                                              *)
References == [Orders -> [version : Nat, address : Addresses]]

(* "seen" is the route row that stays in the session's identity map;       *)
(* status "assente" when there is none.                                    *)
Request == [phase : {"idle", "validated", "retry", "restore"},
            route : Routes \cup {NoRoute}, stops : Stops,
            rows : References, kept : References, uses : SUBSET Resources,
            seen : [status : RouteStatuses, uses : SUBSET Resources],
            attempts : 0 .. 2]

TypeOK ==
  /\ orders \in [Orders -> Order]
  /\ assignments \in [Orders -> Assignment]
  /\ routes \in [Routes -> Route]
  /\ usage \subseteq Routes
  /\ active \in BOOLEAN
  /\ requests \in [Planners -> Request]
  /\ overtaken \subseteq Routes

-----------------------------------------------------------------------------

SomeAddress == CHOOSE a \in Addresses : TRUE

Unassigned == [route |-> NoRoute, key |-> {}, address |-> SomeAddress]

NotHeld == [status |-> "assente", uses |-> {}]

NoReferences == [o \in Orders |-> [version |-> 0, address |-> SomeAddress]]

Idle == [phase |-> "idle", route |-> NoRoute, stops |-> {}, rows |-> NoReferences,
         kept |-> NoReferences, uses |-> {}, seen |-> NotHeld, attempts |-> 0]

Assigned(r) == {o \in Orders : assignments[o].route = r}

Free(o) == assignments[o].route = NoRoute

Touched(order) == [order EXCEPT !.version = @ + 1]

(* A route moves an order: new status, new delivery status, new version. *)
Moved(order, status, delivery) ==
  [order EXCEPT !.status = status, !.delivery = delivery, !.version = @ + 1]

(* The desk corrects an order. *)
Corrected(order, status, address, verified) ==
  [order EXCEPT !.status = status, !.address = address, !.verified = verified,
                !.version = @ + 1]

(* orders.editable: the row may still be changed by the desk. *)
MayEdit(o) == orders[o].status \in Editable /\ Free(o)

(* Mutant: a start writes the status of the route on its orders. *)
TargetOfRoute(phase) ==
  IF phase = "started" THEN [status |-> "in_corso", delivery |-> "in_progress"]
                       ELSE [status |-> "pronto", delivery |-> "not_assigned"]

(* What a route event makes of the orders of its stops. *)
Target(phase) ==
  CASE phase = "scheduled" -> [status |-> "assegnato", delivery |-> "scheduled"]
    [] phase = "started"   -> [status |-> "in_consegna", delivery |-> "in_progress"]
    [] phase = "delivered" -> [status |-> "consegnato", delivery |-> "delivered"]
    [] phase = "missed"    -> [status |-> "non_consegnato", delivery |-> "not_delivered"]
    [] phase = "completed" -> [status |-> "non_consegnato", delivery |-> "not_delivered"]
    [] phase = "cancelled" -> [status |-> "pronto", delivery |-> "not_assigned"]

(* Mutant: an event overwrites an outcome. *)
SyncedOverOutcome(order, phase) ==
  Moved(order, Target(phase).status, Target(phase).delivery)

(* Mutant: an event leaves the version of the order alone. *)
SyncedUnversioned(order, phase) ==
  IF order.status \in Delivered THEN order
  ELSE [order EXCEPT !.status = Target(phase).status, !.delivery = Target(phase).delivery]

Synced(order, phase) ==
  IF \/ order.status \in Delivered
     \/ order.status = Target(phase).status /\ order.delivery = Target(phase).delivery
  THEN order
  ELSE Moved(order, Target(phase).status, Target(phase).delivery)

SyncOrders(table, members, phase) ==
  [o \in Orders |-> IF o \in members THEN Synced(table[o], phase) ELSE table[o]]

-----------------------------------------------------------------------------
(* The desk: one order at a time, under its row lock and its version.      *)

UpdateOrder(o, address) ==
  /\ active /\ MayEdit(o) /\ orders[o].version < MaxVersion
  /\ LET proved == orders[o].verified /\ address = orders[o].address
         status == IF proved THEN "pronto" ELSE "da_verificare"
     IN orders' = [orders EXCEPT ![o] = Corrected(@, status, address, proved)]
  /\ UNCHANGED <<assignments, routes, usage, active, requests, overtaken>>

VerifyAddress(o) ==
  /\ active /\ MayEdit(o) /\ orders[o].version < MaxVersion
  /\ ~(orders[o].verified /\ orders[o].status = "pronto")
  /\ orders' = [orders EXCEPT ![o] = Corrected(@, "pronto", @.address, TRUE)]
  /\ UNCHANGED <<assignments, routes, usage, active, requests, overtaken>>

Transition(o, status) ==
  /\ active /\ MayEdit(o) /\ orders[o].version < MaxVersion
  /\ status = "pronto" => orders[o].verified
  /\ orders' = [orders EXCEPT ![o] = Corrected(@, status, @.address, @.verified)]
  /\ UNCHANGED <<assignments, routes, usage, active, requests, overtaken>>

-----------------------------------------------------------------------------
(* Planning.  validate_references, first without a lock and then with one. *)

Wanted(stops) == UNION stops

(* Mutant: the key of a stop names one order only. *)
StopOfAlone(stops, o) == {o}

StopOf(stops, o) == CHOOSE K \in stops : o \in K

(* Mutant: an order reserved to another route may be planned. *)
PlannableTaken(o, route) == orders[o].status \in {"pronto", "assegnato"}

Plannable(o, route) ==
  /\ assignments[o].route \in {NoRoute, route}
  /\ IF Free(o) THEN orders[o].status = "pronto"
                ELSE orders[o].status \in {"pronto", "assegnato"}

(* An order appears in one stop; the orders of a stop share a destination. *)
Compatible(stops) ==
  /\ \A K, L \in stops : K # L => K \cap L = {}
  /\ \A K \in stops : \A o, q \in K : orders[o].address = orders[q].address

CurrentReferences(stops) ==
  [o \in Orders |-> IF o \in Wanted(stops)
                    THEN [version |-> orders[o].version, address |-> orders[o].address]
                    ELSE NoReferences[o]]

(* What a session keeps of a route row. *)
RowOf(route) == [status |-> route.status, uses |-> route.uses]

(* refresh_stale reloads the plannable orders the client knew in an older  *)
(* version, so the rows that pass the first validation are current.  When  *)
(* a collaborator recalculates, the permission check reads the route row;  *)
(* it stays in the session ("held") unless the computation commits, which  *)
(* it does only to add legs to the road cache.                             *)
ValidatePlan(p, route, stops, uses, held) ==
  /\ active
  /\ requests[p].phase = "idle"
  /\ route # NoRoute => routes[route].status # "assente"
  /\ held => route # NoRoute
  /\ Compatible(stops)
  /\ \A o \in Wanted(stops) : Plannable(o, route) /\ orders[o].version < MaxVersion
  /\ requests' = [requests EXCEPT ![p] =
       [phase |-> "validated", route |-> route, stops |-> stops, uses |-> uses,
        rows |-> CurrentReferences(stops), kept |-> NoReferences,
        seen |-> IF held THEN RowOf(routes[route]) ELSE NotHeld, attempts |-> 0]]
  /\ UNCHANGED <<orders, assignments, routes, usage, active, overtaken>>

(* The computation fails, the resources turn out to be busy, or the save   *)
(* is not acceptable any more: an error answer that changes nothing.       *)
AbandonPlan(p) ==
  /\ requests[p].phase # "idle"
  /\ requests' = [requests EXCEPT ![p] = Idle]
  /\ UNCHANGED <<orders, assignments, routes, usage, active, overtaken>>

(* The rows the pending save of a request carries. *)
Carried(p) == IF requests[p].phase = "restore" THEN requests[p].kept ELSE requests[p].rows

(* The route as the saving session reads it: the row lock does not refresh *)
(* an object that the session already holds.                               *)
View(p, r) ==
  IF requests[p].seen = NotHeld
  THEN RowOf(routes[r])
  ELSE requests[p].seen

(* Mutant: the save does not look at the status of the route. *)
AcceptableStarted(p, r) ==
  /\ active
  /\ \A o \in Wanted(requests[p].stops) :
       /\ Plannable(o, requests[p].route)
       /\ orders[o].version = Carried(p)[o].version

(* Mutant: the save does not compare the versions again. *)
AcceptableOutdated(p, r) ==
  /\ active
  /\ requests[p].route = NoRoute \/ View(p, r).status \in {"bozza", "programmato"}
  /\ \A o \in Wanted(requests[p].stops) : Plannable(o, requests[p].route)

Acceptable(p, r) ==
  /\ active
  /\ requests[p].route = NoRoute \/ View(p, r).status \in {"bozza", "programmato"}
  /\ \A o \in Wanted(requests[p].stops) :
       /\ Plannable(o, requests[p].route)
       /\ orders[o].version = Carried(p)[o].version

(* reserve_orders: orders taken out of the route are released, the others  *)
(* reserved; every order of the route gets a new version.                  *)
Reserved(p, r) ==
  LET delivery == IF requests[p].route = NoRoute \/ View(p, r).status = "bozza"
                  THEN "draft" ELSE "scheduled"
  IN [o \in Orders |->
        IF o \in Wanted(requests[p].stops)
        THEN IF o \in Assigned(r) THEN Touched(orders[o])
                                  ELSE Moved(orders[o], "assegnato", delivery)
        ELSE IF o \in Assigned(r) THEN Moved(orders[o], "pronto", "not_assigned")
                                  ELSE orders[o]]

Reservations(p, r) ==
  [o \in Orders |->
     IF o \in Wanted(requests[p].stops)
     THEN [route |-> r, key |-> StopOf(requests[p].stops, o), address |-> Carried(p)[o].address]
     ELSE IF o \in Assigned(r) THEN Unassigned ELSE assignments[o]]

(* The deliveries of the route are replaced, and with them their outcomes; *)
(* a column that equals the row the session holds is not written.          *)
Rewritten(p, r) ==
  [status |-> IF requests[p].route = NoRoute THEN "bozza" ELSE routes[r].status,
   stops |-> requests[p].stops, completed |-> {}, missed |-> {},
   uses |-> IF requests[p].route # NoRoute /\ requests[p].uses = View(p, r).uses
            THEN routes[r].uses ELSE requests[p].uses,
   started |-> routes[r].started]

(* The references a save leaves in the result it saved. *)
Renewed(p) ==
  [o \in Orders |-> IF o \in Wanted(requests[p].stops)
                    THEN [Carried(p)[o] EXCEPT !.version = @ + 1]
                    ELSE NoReferences[o]]

(* The request goes on with the route it has just saved, whose row stays   *)
(* in its session during the next computation.                             *)
FollowUp(p, r, phase, kept, attempts) ==
  [phase |-> phase, route |-> r, stops |-> requests[p].stops, uses |-> requests[p].uses,
   rows |-> requests[p].rows, kept |-> kept,
   seen |-> RowOf(Rewritten(p, r)), attempts |-> attempts]

(* The traffic pass commits the times it computed; that expires the row,   *)
(* and the next attribute read loads it again, without a lock.             *)
RereadRoute(p) ==
  /\ requests[p].phase \in {"retry", "restore"} /\ requests[p].route # NoRoute
  /\ requests' = [requests EXCEPT ![p].seen = RowOf(routes[requests[p].route])]
  /\ UNCHANGED <<orders, assignments, routes, usage, active, overtaken>>

(* With a traffic provider and late stops a new route is computed up to    *)
(* two more times.  Each attempt starts from the rows of the original      *)
(* request; a worse attempt is undone by saving the best result again,     *)
(* whose references were renewed only when that result was saved.          *)
AfterSave(p, r) ==
  LET left == requests[p].attempts
      Retry(attempts) == {FollowUp(p, r, "retry", Renewed(p), n) : n \in {attempts} \ {0}}
  IN {Idle} \cup
     CASE requests[p].phase = "validated" ->
            IF requests[p].route = NoRoute THEN Retry(Attempts) ELSE {}
       [] requests[p].phase = "retry" ->
            Retry(left - 1) \cup {FollowUp(p, r, "restore", requests[p].kept, left - 1)}
       [] requests[p].phase = "restore" -> Retry(left)

(* The route has left the status that the saving session knows. *)
Overtaken(p, r) == requests[p].route # NoRoute /\ View(p, r).status # routes[r].status

SaveRoute(p, r) ==
  /\ requests[p].phase # "idle"
  /\ IF requests[p].route = NoRoute THEN routes[r].status = "assente"
                                    ELSE r = requests[p].route
  /\ Acceptable(p, r)
  /\ orders' = Reserved(p, r)
  /\ assignments' = Reservations(p, r)
  /\ routes' = [routes EXCEPT ![r] = Rewritten(p, r)]
  /\ \E next \in AfterSave(p, r) : requests' = [requests EXCEPT ![p] = next]
  /\ overtaken' = IF Overtaken(p, r) THEN overtaken \cup {r} ELSE overtaken
  /\ UNCHANGED <<usage, active>>

-----------------------------------------------------------------------------
(* The life of a route.                                                    *)

ProgramRoute(r) ==
  /\ active
  /\ routes[r].status \in {"bozza", "programmato"}
  /\ orders' = SyncOrders(orders, Assigned(r), "scheduled")
  /\ routes' = [routes EXCEPT ![r].status = "programmato"]
  /\ UNCHANGED <<assignments, usage, active, requests, overtaken>>

(* Mutant: a start does not look at the routes that run. *)
ResourcesAssumedIdle(r) == TRUE

(* ensure_no_running_resource_conflict. *)
ResourcesIdle(r) ==
  \A q \in Routes \ {r} :
    routes[q].status = "in_corso" => routes[q].uses \cap routes[r].uses = {}

(* Mutant: the subscription is checked also for a route that runs. *)
EntitledNow(r) == active

(* Mutant: the subscription is not checked. *)
EntitledAlways(r) == TRUE

(* A start is billed once; only the first one needs the subscription. *)
Entitled(r) == r \in usage \/ routes[r].started \/ active

(* ensure_new_route_can_start: a route that runs or ran is not checked     *)
(* again.                                                                  *)
MayStart(r) ==
  /\ routes[r].status \notin {"assente", "annullato"}
  /\ routes[r].status \in {"in_corso", "completato"} \/ ResourcesIdle(r)
  /\ Entitled(r)

(* Mutant: a start does not reach the orders. *)
StartedOrdersAlone(r) == orders

StartedOrders(r) ==
  IF r \in usage THEN orders ELSE SyncOrders(orders, Assigned(r), "started")

StartedRoute(r) ==
  IF r \in usage THEN routes[r]
  ELSE LET status == IF routes[r].status = "completato" THEN "completato" ELSE "in_corso"
       IN [routes[r] EXCEPT !.started = TRUE, !.status = status]

StartRoute(r) ==
  /\ routes[r].status \notin ClosedRoute
  /\ MayStart(r)
  /\ orders' = StartedOrders(r)
  /\ routes' = [routes EXCEPT ![r] = StartedRoute(r)]
  /\ usage' = usage \cup {r}
  /\ UNCHANGED <<assignments, active, requests, overtaken>>

(* A stop without outcome, on a route that is not closed. *)
OpenStop(r, s) ==
  /\ s \in routes[r].stops
  /\ routes[r].status \notin ClosedRoute
  /\ s \notin routes[r].completed \cup routes[r].missed

(* A note or a signature also starts the route. *)
AnnotateDelivery(r, s) ==
  /\ OpenStop(r, s)
  /\ MayStart(r)
  /\ orders' = StartedOrders(r)
  /\ routes' = [routes EXCEPT ![r] = StartedRoute(r)]
  /\ usage' = usage \cup {r}
  /\ UNCHANGED <<assignments, active, requests, overtaken>>

(* The outcome reaches the orders of the stop; the last outcome closes the *)
(* route, and with it any order that is still open.                        *)
CloseDelivery(r, s, phase) ==
  /\ OpenStop(r, s)
  /\ MayStart(r)
  /\ LET members == {o \in Assigned(r) : assignments[o].key = s}
         synced == SyncOrders(StartedOrders(r), members, phase)
         recorded == IF phase = "delivered"
                     THEN [StartedRoute(r) EXCEPT !.completed = @ \cup {s}]
                     ELSE [StartedRoute(r) EXCEPT !.missed = @ \cup {s}]
         last == recorded.stops = recorded.completed \cup recorded.missed
     IN /\ orders' = IF last THEN SyncOrders(synced, Assigned(r), "completed") ELSE synced
        /\ routes' = [routes EXCEPT ![r] = IF last THEN [recorded EXCEPT !.status = "completato"]
                                                   ELSE recorded]
  /\ usage' = usage \cup {r}
  /\ UNCHANGED <<assignments, active, requests, overtaken>>

CompleteRoute(r) ==
  /\ MayStart(r)
  /\ IF routes[r].status = "completato"
     THEN UNCHANGED <<orders, routes>>
     ELSE /\ orders' = SyncOrders(StartedOrders(r), Assigned(r), "completed")
          /\ routes' = [routes EXCEPT ![r] = [StartedRoute(r) EXCEPT !.status = "completato"]]
  /\ usage' = usage \cup {r}
  /\ UNCHANGED <<assignments, active, requests, overtaken>>

(* Orders with an outcome keep it and their assignment. *)
CancelRoute(r) ==
  /\ routes[r].status \notin ClosedRoute \cup {"assente"}
  /\ orders' = SyncOrders(orders, Assigned(r), "cancelled")
  /\ assignments' = [o \in Orders |->
       IF o \in Assigned(r) /\ orders[o] # Synced(orders[o], "cancelled")
       THEN Unassigned ELSE assignments[o]]
  /\ routes' = [routes EXCEPT ![r].status = "annullato"]
  /\ UNCHANGED <<usage, active, requests, overtaken>>

(* The subscription expires or is renewed. *)
PlanChange ==
  /\ MayExpire
  /\ active' = ~active
  /\ UNCHANGED <<orders, assignments, routes, usage, requests, overtaken>>

-----------------------------------------------------------------------------

Init ==
  /\ orders \in [Orders -> {[status |-> "nuovo", delivery |-> "not_assigned", version |-> 1,
                             address |-> a, verified |-> FALSE] : a \in Addresses}]
  /\ assignments = [o \in Orders |-> Unassigned]
  /\ routes = [r \in Routes |-> [status |-> "assente", stops |-> {}, completed |-> {},
                                 missed |-> {}, uses |-> {}, started |-> FALSE]]
  /\ usage = {}
  /\ active = TRUE
  /\ requests = [p \in Planners |-> Idle]
  /\ overtaken = {}

Desk ==
  \E o \in Orders :
    \/ \E a \in Addresses : UpdateOrder(o, a)
    \/ VerifyAddress(o)
    \/ \E status \in Editable \cup {"annullato"} : Transition(o, status)

Planning ==
  \E p \in Planners :
    \/ \E route \in Routes \cup {NoRoute}, stops \in RowSets, uses \in SUBSET Resources,
          held \in BOOLEAN : ValidatePlan(p, route, stops, uses, held)
    \/ AbandonPlan(p)
    \/ RereadRoute(p)
    \/ \E r \in Routes : SaveRoute(p, r)

Execution ==
  \E r \in Routes :
    \/ ProgramRoute(r)
    \/ StartRoute(r)
    \/ \E s \in routes[r].stops :
         \/ AnnotateDelivery(r, s)
         \/ \E phase \in {"delivered", "missed"} : CloseDelivery(r, s, phase)
    \/ CompleteRoute(r)
    \/ CancelRoute(r)

Next == Desk \/ Planning \/ Execution \/ PlanChange

Spec == Init /\ [][Next]_vars

-----------------------------------------------------------------------------
(* Safety of the tables.                                                   *)

(* What a route of that status makes of its orders. *)
FitsStatus(order, status) ==
  LET closed == \/ order.status = "consegnato" /\ order.delivery = "delivered"
                \/ order.status = "non_consegnato" /\ order.delivery = "not_delivered"
  IN CASE status = "assente"     -> FALSE
       [] status = "bozza"       -> order.status = "assegnato" /\ order.delivery = "draft"
       [] status = "programmato" -> order.status = "assegnato" /\ order.delivery = "scheduled"
       [] status = "in_corso"    -> \/ order.status = "in_consegna"
                                       /\ order.delivery = "in_progress"
                                    \/ closed
       [] status \in ClosedRoute -> closed

AtDesk(order) ==
  order.status \in Editable \cup {"annullato"} /\ order.delivery = "not_assigned"

(* An order that was put on its route by a save which came too late for    *)
(* the event that would have moved it.                                     *)
Late(o) ==
  /\ assignments[o].route \in overtaken
  /\ routes[assignments[o].route].status \notin {"assente", "bozza"}
  /\ orders[o].status = "assegnato" /\ orders[o].delivery \in {"draft", "scheduled"}

FitsRoute(o) ==
  IF Free(o) THEN AtDesk(orders[o])
             ELSE FitsStatus(orders[o], routes[assignments[o].route].status) \/ Late(o)

(* The state of an order is the one its route gives it: an order without a *)
(* route is at the desk, one on a draft or programmed route waits, one on  *)
(* a running route travels or has its outcome, and a closed route leaves   *)
(* no order open.  Six services write the two columns.  The one exception  *)
(* is a route saved with a row that was read before its last event: there  *)
(* an order may still wait, and nowhere else.                              *)
OrdersFollowRoutes == \A o \in Orders : FitsRoute(o)

(* The reservations and the deliveries of the routes tell the same story:  *)
(* a reserved order is in the stop its key names, and a stop of a route    *)
(* that was not cancelled has all its orders reserved to that route.       *)
ReservationsMatchStops ==
  /\ \A o \in Orders : ~Free(o) =>
       /\ o \in assignments[o].key
       /\ assignments[o].key \in routes[assignments[o].route].stops
  /\ \A r \in Routes : routes[r].status # "annullato" =>
       \A s \in routes[r].stops : \A o \in s :
         assignments[o].route = r /\ assignments[o].key = s

(* The outcome of a stop is the outcome of each of its orders, also when   *)
(* stops of one route close in any order, are retried, or the route is     *)
(* closed or cancelled with open stops.                                    *)
OutcomesAgree ==
  \A o \in Orders : ~Free(o) =>
    LET route == routes[assignments[o].route]
        key == assignments[o].key
    IN /\ orders[o].status = "consegnato" <=> key \in route.completed
       /\ key \in route.missed => orders[o].status = "non_consegnato"
       /\ orders[o].status = "non_consegnato" =>
            key \in route.missed \/ route.status = "completato"

(* The driver is sent to the address the order has now, and to an address  *)
(* that was verified, although the order was read, computed with and saved *)
(* in different transactions.                                              *)
DriverSeesVerifiedAddress ==
  \A o \in Orders : ~Free(o) =>
    orders[o].verified /\ assignments[o].address = orders[o].address

(* A driver or a vehicle is on two running routes only when one of them    *)
(* was saved with a row that was read before it started.                   *)
OneRunningRoutePerResource ==
  \A r, q \in Routes :
    /\ r # q /\ routes[r].status = "in_corso" /\ routes[q].status = "in_corso"
    /\ routes[r].uses \cap routes[q].uses # {}
    => r \in overtaken \/ q \in overtaken

(* "A running route can always be completed, even after expiry" (comment   *)
(* of start_route_usage), and cancelled.                                   *)
RunningRouteCanBeClosed ==
  \A r \in Routes : routes[r].status = "in_corso" =>
    ENABLED CompleteRoute(r) /\ ENABLED CancelRoute(r)

(* "Vale anche per il giro singolo: il calcolo restituisce già orari e     *)
(* pedaggi con il traffico" (docs/fleet-planning.md): when the traffic pass *)
(* computes the route once more and finds the orders exactly as its own    *)
(* first save left them, the second computation can be saved.              *)
RetryIsAccepted ==
  \A p \in Planners :
    LET req == requests[p]
    IN /\ req.phase = "retry"
       /\ active
       /\ \A o \in Wanted(req.stops) : /\ Plannable(o, req.route)
                                       /\ orders[o].version = req.kept[o].version
       /\ routes[req.route].status = "bozza"
       => Acceptable(p, req.route)

-----------------------------------------------------------------------------
(* What a step may never do.                                               *)

(* Whatever changes an order or its reservation gives it a new version, so *)
(* that a client holding the old one is always refused.                    *)
ChangesAreVersioned ==
  [][\A o \in Orders :
       orders'[o] # orders[o] \/ assignments'[o] # assignments[o]
         => orders'[o].version > orders[o].version]_vars

(* Once a route is started its stops and its resources stay, outcomes are  *)
(* only added, and no order leaves it except when it is cancelled.         *)
StartedRouteIsFrozen ==
  [][\A r \in Routes : routes[r].started =>
       /\ routes'[r].stops = routes[r].stops
       /\ routes'[r].uses = routes[r].uses
       /\ routes[r].completed \subseteq routes'[r].completed
       /\ routes[r].missed \subseteq routes'[r].missed
       /\ routes'[r].status # "annullato" =>
            \A o \in Assigned(r) : assignments'[o] = assignments[o]]_vars

(* The progress of a route that was started or closed stays in a step: its *)
(* outcomes and those of its orders, its stops, resources and, unless it   *)
(* is cancelled, its orders; and a closed route does not change at all.    *)
KeepsProgress(r) ==
  /\ routes[r].started =>
       /\ routes'[r].stops = routes[r].stops
       /\ routes'[r].uses = routes[r].uses
       /\ routes[r].completed \subseteq routes'[r].completed
       /\ routes[r].missed \subseteq routes'[r].missed
       /\ routes'[r].status # "annullato" =>
            \A o \in Assigned(r) : assignments'[o] = assignments[o]
  /\ routes[r].status \in ClosedRoute => routes'[r] = routes[r]
  /\ \A o \in Assigned(r) : orders[o].status \in Delivered =>
       orders'[o] = orders[o] /\ assignments'[o] = assignments[o]

(* A request holds the row of a route as it was before any start. *)
Drawn(p, r) == requests[p].route = r /\ requests[p].seen.status \in {"bozza", "programmato"}

(* A request that read the row of r when r could still be planned rewrites *)
(* it: even then r stays started or closed as it is, and nothing but r,    *)
(* its orders and orders that were ready at the desk is touched.           *)
RewritesAsRead(p, r) ==
  /\ Drawn(p, r) /\ requests'[p] # requests[p]
  /\ routes'[r].status = routes[r].status /\ routes'[r].started = routes[r].started
  /\ usage' = usage
  /\ \A q \in Routes \ {r} : routes'[q] = routes[q]
  /\ \A o \in Orders \ Assigned(r) :
       \/ orders'[o] = orders[o] /\ assignments'[o] = assignments[o]
       \/ Free(o) /\ orders[o].status = "pronto" /\ assignments'[o].route = r

(* What the portals were told stays, and a cancelled order is final: no    *)
(* request takes back an outcome, reopens a route or changes one that was  *)
(* started or closed, but a recalculation of this very route which read    *)
(* its row before.                                                         *)
ProgressIsKept ==
  [][/\ \A o \in Orders : orders[o].status = "annullato" =>
          orders'[o] = orders[o] /\ assignments'[o] = assignments[o]
     /\ \A r \in Routes : routes[r].status # "assente" =>
          KeepsProgress(r) \/ \E p \in Planners : RewritesAsRead(p, r)]_vars

(* Every way to start a route (the portals, a note, a signature, an        *)
(* outcome, closing it from the office) bills it, and only an active       *)
(* subscription may start one.                                             *)
EveryStartIsBilled ==
  [][\A r \in Routes :
       /\ routes'[r].started <=> r \in usage'
       /\ routes'[r].started /\ ~routes[r].started => active]_vars

-----------------------------------------------------------------------------
(* The tables implement the journey of the orders.                         *)

StageOf(o) ==
  CASE orders[o].status \in Editable  -> "desk"
    [] orders[o].status = "assegnato"   -> "loaded"
    [] orders[o].status = "in_consegna" -> "travelling"
    [] orders[o].status \in Delivered   -> "closed"
    [] orders[o].status = "annullato"   -> "discarded"

TripOf(r) ==
  CASE routes[r].status = "in_corso" -> "running"
    [] routes[r].status \in ClosedRoute -> "closed"
    [] OTHER -> "open"

Journey == INSTANCE OrderJourney WITH
  Trips <- Routes, NoTrip <- NoRoute,
  where <- [o \in Orders |-> assignments[o].route],
  stage <- [o \in Orders |-> StageOf(o)],
  trips <- [r \in Routes |-> TripOf(r)],
  drawn <- {r \in Routes : \E p \in Planners : Drawn(p, r)}

(* Every behaviour of orders and routes is a journey: see OrderJourney. *)
ImplementsJourney == Journey!Spec

=============================================================================
