------------------------- MODULE RouteOrdersProofs -------------------------
(***************************************************************************)
(* Proofs about RouteOrders, for every set of orders, routes, resources,   *)
(* addresses and planners and every bound: types, the lifecycle of orders  *)
(* and routes, bookings; reservations and stops tell the same story, and   *)
(* the driver sees the verified address of every order.  Then what a step  *)
(* may never do: change an order in secret, start a route without billing  *)
(* it, take progress back.  And what orders and routes are for: every      *)
(* behaviour of the tables is an OrderJourney.                             *)
(***************************************************************************)
EXTENDS RouteOrders, TLAPS

Phases == {"scheduled", "started", "delivered", "missed", "completed", "cancelled"}

-----------------------------------------------------------------------------
(* Type correctness.                                                       *)

(* TypeOK is not inductive: a pending retry must have an attempt left, or  *)
(* the counter would leave its range at the next save.                     *)
TypeInv ==
  /\ TypeOK
  /\ \A p \in Planners : requests[p].phase = "retry" => requests[p].attempts \in 1 .. 2

(* The statuses a route event writes are statuses of an order.             *)
LEMMA TargetType ==
  ASSUME NEW phase \in Phases
  PROVE  /\ Target(phase).status \in OrderStatuses
         /\ Target(phase).delivery \in DeliveryStatuses
  BY DEF Target, Phases, OrderStatuses, DeliveryStatuses, Editable, Delivered

(* A new version of an order row is an order row.                          *)
LEMMA TouchedType ==
  ASSUME NEW order \in Order
  PROVE  Touched(order) \in Order
  BY DEF Touched, Order

(* A moved order row is an order row, with the fields it was given.        *)
LEMMA MovedType ==
  ASSUME NEW order \in Order, NEW status \in OrderStatuses, NEW delivery \in DeliveryStatuses
  PROVE  Moved(order, status, delivery) \in Order
  <1> DEFINE first == [order EXCEPT !.status = status]
             second == [first EXCEPT !.delivery = delivery]
  <1>1. first \in Order
    BY DEF Order
  <1>2. \A row \in Order : [row EXCEPT !.delivery = delivery] \in Order
    BY DEF Order
  <1>3. \A row \in Order : Touched(row) \in Order
    BY TouchedType
  <1> HIDE DEF first
  <1>4. second \in Order
    BY <1>1, <1>2
  <1>5. Touched(second) \in Order
    BY <1>3, <1>4
  <1> QED
    BY <1>5 DEF first, second, Moved, Touched

(* A corrected order row is an order row.                                  *)
LEMMA CorrectedType ==
  ASSUME NEW order \in Order, NEW status \in OrderStatuses, NEW address \in Addresses,
         NEW verified \in BOOLEAN
  PROVE  Corrected(order, status, address, verified) \in Order
  <1> DEFINE first == [order EXCEPT !.status = status]
             second == [first EXCEPT !.address = address]
             third == [second EXCEPT !.verified = verified]
  <1>1. first \in Order
    BY DEF Order
  <1>2. \A row \in Order : [row EXCEPT !.address = address] \in Order
    BY DEF Order
  <1>3. \A row \in Order : [row EXCEPT !.verified = verified] \in Order
    BY DEF Order
  <1>4. \A row \in Order : Touched(row) \in Order
    BY TouchedType
  <1> HIDE DEF first
  <1>5. second \in Order
    BY <1>1, <1>2
  <1> HIDE DEF second
  <1>6. third \in Order
    BY <1>5, <1>3
  <1> HIDE DEF third
  <1>7. Touched(third) \in Order
    BY <1>6, <1>4
  <1> QED
    BY <1>7 DEF first, second, third, Corrected, Touched

(* A route event makes an order row out of an order row,                   *)
LEMMA SyncedType ==
  ASSUME NEW order \in Order, NEW phase \in Phases
  PROVE  Synced(order, phase) \in Order
  BY TargetType, MovedType DEF Synced

(* and an orders table out of an orders table.                             *)
LEMMA SyncOrdersType ==
  ASSUME NEW table \in [Orders -> Order], NEW members, NEW phase \in Phases
  PROVE  SyncOrders(table, members, phase) \in [Orders -> Order]
  BY SyncedType DEF SyncOrders

(* The values a row starts from have their types.                          *)
LEMMA ConstantRows ==
  /\ SomeAddress \in Addresses
  /\ Unassigned \in Assignment
  /\ NoReferences \in References
  /\ Idle \in Request
  /\ NotHeld \in [status : RouteStatuses, uses : SUBSET Resources]
  BY ConstantsAssumption
  DEF SomeAddress, Unassigned, Assignment, NoReferences, References, Idle, Request, NotHeld,
      Stops, RouteStatuses

(* A route row that is started.                                            *)
LEMMA StartedRow ==
  ASSUME NEW row \in Route, NEW status \in RouteStatuses
  PROVE  LET started == [row EXCEPT !.started = TRUE, !.status = status]
         IN started \in Route /\ started.status = status /\ started.stops = row.stops
  <1> DEFINE first == [row EXCEPT !.started = TRUE]
             second == [first EXCEPT !.status = status]
  <1>1. first \in Route /\ first.stops = row.stops
    BY DEF Route
  <1>2. \A next \in Route : LET changed == [next EXCEPT !.status = status]
                            IN /\ changed \in Route
                               /\ changed.status = status
                               /\ changed.stops = next.stops
    BY DEF Route
  <1> HIDE DEF first
  <1>3. second \in Route /\ second.status = status /\ second.stops = row.stops
    BY <1>1, <1>2
  <1> QED
    BY <1>3 DEF first, second

(* Starting a route keeps the types of its row and of the orders.          *)
LEMMA StartedType ==
  ASSUME TypeOK, NEW r \in Routes
  PROVE  /\ StartedOrders(r) \in [Orders -> Order]
         /\ StartedRoute(r) \in Route
         /\ usage \cup {r} \subseteq Routes
  <1>1. StartedOrders(r) \in [Orders -> Order]
    BY SyncOrdersType DEF TypeOK, StartedOrders, Phases
  <1>2. routes[r] \in Route
    BY DEF TypeOK
  <1>3. \A status \in RouteStatuses :
          [routes[r] EXCEPT !.started = TRUE, !.status = status] \in Route
    BY <1>2, StartedRow
  <1>4. StartedRoute(r) \in Route
    BY <1>2, <1>3 DEF StartedRoute, RouteStatuses
  <1> QED
    BY <1>1, <1>4 DEF TypeOK

(* The types at first.                                                     *)
LEMMA InitType == Init => TypeInv
  <1> SUFFICES ASSUME Init PROVE TypeInv
    OBVIOUS
  <1>1. orders \in [Orders -> Order]
    <2>1. \A a \in Addresses : [status |-> "nuovo", delivery |-> "not_assigned", version |-> 1,
                                address |-> a, verified |-> FALSE] \in Order
      BY DEF Order, OrderStatuses, DeliveryStatuses, Editable
    <2> QED
      BY <2>1 DEF Init
  <1>2. routes \in [Routes -> Route]
    BY DEF Init, Route, RouteStatuses, Stops
  <1>3. assignments \in [Orders -> Assignment] /\ requests \in [Planners -> Request]
    BY ConstantRows DEF Init
  <1>4. \A p \in Planners : requests[p].phase = "retry" => requests[p].attempts \in 1 .. 2
    BY DEF Init, Idle
  <1> QED
    BY <1>1, <1>2, <1>3, <1>4 DEF Init, TypeInv, TypeOK

(* The stop of a wanted order is one of the stops and holds the order.     *)
LEMMA StopOfWanted ==
  ASSUME NEW stops, NEW o \in Wanted(stops)
  PROVE  StopOf(stops, o) \in stops /\ o \in StopOf(stops, o)
  BY DEF Wanted, StopOf

(* The references a request carries, and those it keeps, have their type.  *)
LEMMA ReferencesType ==
  ASSUME TypeOK, NEW p \in Planners
  PROVE  /\ Carried(p) \in References
         /\ Renewed(p) \in References
         /\ \A stops : CurrentReferences(stops) \in References
  <1>1. Carried(p) \in References
    BY DEF TypeOK, Request, Carried
  <1>2. Renewed(p) \in References
    <2>1. \A ref \in [version : Nat, address : Addresses] :
            [ref EXCEPT !.version = @ + 1] \in [version : Nat, address : Addresses]
      OBVIOUS
    <2> QED
      BY <1>1, <2>1, ConstantRows DEF Renewed, References
  <1>3. ASSUME NEW stops PROVE CurrentReferences(stops) \in References
    <2>1. \A o \in Orders : orders[o].version \in Nat /\ orders[o].address \in Addresses
      BY DEF TypeOK, Order
    <2> QED
      BY <2>1, ConstantRows DEF CurrentReferences, References
  <1> QED
    BY <1>1, <1>2, <1>3

(* What a planner sees of a route has its type.                            *)
LEMMA ViewType ==
  ASSUME TypeOK, NEW p \in Planners, NEW r \in Routes
  PROVE  View(p, r) \in [status : RouteStatuses, uses : SUBSET Resources]
  <1>1. requests[p].seen \in [status : RouteStatuses, uses : SUBSET Resources]
    BY DEF TypeOK, Request
  <1>2. routes[r].status \in RouteStatuses /\ routes[r].uses \subseteq Resources
    BY DEF TypeOK, Route
  <1> QED
    BY <1>1, <1>2 DEF View, RowOf

(* What a save writes has its type.                                        *)
LEMMA SaveType ==
  ASSUME TypeOK, NEW p \in Planners, NEW r \in Routes
  PROVE  /\ Reserved(p, r) \in [Orders -> Order]
         /\ Reservations(p, r) \in [Orders -> Assignment]
         /\ Rewritten(p, r) \in Route
  <1>1. Reserved(p, r) \in [Orders -> Order]
    <2>1. {"assegnato", "pronto"} \subseteq OrderStatuses
      BY DEF OrderStatuses, Editable
    <2>2. {"draft", "scheduled", "not_assigned"} \subseteq DeliveryStatuses
      BY DEF DeliveryStatuses
    <2> QED
      BY <2>1, <2>2, MovedType, TouchedType DEF TypeOK, Reserved
  <1>2. Reservations(p, r) \in [Orders -> Assignment]
    <2>1. requests[p].stops \in Stops
      BY DEF TypeOK, Request
    <2>2. \A o \in Wanted(requests[p].stops) : StopOf(requests[p].stops, o) \in SUBSET Orders
      BY <2>1, StopOfWanted DEF Stops
    <2>3. \A o \in Orders : Carried(p)[o].address \in Addresses
      BY ReferencesType DEF References
    <2>4. \A o \in Orders : assignments[o] \in Assignment
      BY DEF TypeOK
    <2> QED
      BY <2>2, <2>3, <2>4, ConstantRows DEF Reservations, Assignment
  <1>3. Rewritten(p, r) \in Route
    <2>1. requests[p].stops \in Stops /\ requests[p].uses \subseteq Resources
      BY DEF TypeOK, Request
    <2>2. routes[r] \in Route
      BY DEF TypeOK
    <2>3. {} \in Stops
      BY DEF Stops
    <2> QED
      BY <2>1, <2>2, <2>3 DEF Rewritten, Route, RouteStatuses
  <1> QED
    BY <1>1, <1>2, <1>3

(* A request goes on with an attempt less, or is over.                     *)
LEMMA AfterSaveType ==
  ASSUME TypeInv, NEW p \in Planners, NEW r \in Routes, NEW next \in AfterSave(p, r),
         requests[p].phase # "idle"
  PROVE  /\ next \in Request
         /\ next.phase = "retry" => next.attempts \in 1 .. 2
  <1>1. requests[p] \in Request
    BY DEF TypeInv, TypeOK
  <1>2. Rewritten(p, r) \in Route
    BY SaveType DEF TypeInv
  <1>3. RowOf(Rewritten(p, r)) \in [status : RouteStatuses, uses : SUBSET Resources]
    BY <1>2 DEF RowOf, Route
  <1>4. ASSUME NEW phase \in {"retry", "restore"}, NEW kept \in References, NEW n \in 0 .. 2
        PROVE  /\ FollowUp(p, r, phase, kept, n) \in Request
               /\ FollowUp(p, r, phase, kept, n).phase = phase
               /\ FollowUp(p, r, phase, kept, n).attempts = n
    BY <1>1, <1>3, ConstantRows DEF FollowUp, Request
  <1>5. Renewed(p) \in References /\ requests[p].kept \in References
    BY <1>1, ReferencesType DEF TypeInv, Request
  <1>6. requests[p].attempts \in 0 .. 2
    BY <1>1 DEF Request
  <1>7. requests[p].phase \in {"validated", "retry", "restore"}
    BY <1>1 DEF Request
  <1>8. CASE next = Idle
    BY <1>8, ConstantRows DEF Idle
  <1>9. CASE \E n \in 1 .. 2 : next = FollowUp(p, r, "retry", Renewed(p), n)
    BY <1>4, <1>5, <1>9
  <1>10. CASE \E n \in 0 .. 1 : next = FollowUp(p, r, "restore", requests[p].kept, n)
    <2> PICK n \in 0 .. 1 : next = FollowUp(p, r, "restore", requests[p].kept, n)
      BY <1>10
    <2> QED
      BY <1>4, <1>5
  <1>11. requests[p].phase = "retry" => requests[p].attempts \in 1 .. 2
    BY DEF TypeInv
  <1> QED
    BY <1>6, <1>7, <1>8, <1>9, <1>10, <1>11, ConstantsAssumption DEF AfterSave

(* The types after every step.                                             *)
LEMMA TypeStep == TypeInv /\ [Next]_vars => TypeInv'
  <1> SUFFICES ASSUME TypeInv, [Next]_vars PROVE TypeInv'
    OBVIOUS
  <1> USE DEF TypeInv
  <1>rows. /\ \A o \in Orders : orders[o] \in Order
           /\ \A r \in Routes : routes[r] \in Route
    BY DEF TypeOK
  <1>1. ASSUME NEW o \in Orders, NEW a \in Addresses, UpdateOrder(o, a) PROVE TypeInv'
    <2>1. orders' \in [Orders -> Order]
      BY <1>1, <1>rows, CorrectedType DEF UpdateOrder, TypeOK, OrderStatuses, Editable
    <2> QED
      BY <1>1, <2>1 DEF UpdateOrder, TypeOK
  <1>2. ASSUME NEW o \in Orders, VerifyAddress(o) PROVE TypeInv'
    <2>1. orders[o].address \in Addresses /\ "pronto" \in OrderStatuses
      BY <1>rows DEF Order, OrderStatuses, Editable
    <2>2. orders' \in [Orders -> Order]
      BY <1>2, <1>rows, <2>1, CorrectedType DEF VerifyAddress, TypeOK
    <2> QED
      BY <1>2, <2>2 DEF VerifyAddress, TypeOK
  <1>3. ASSUME NEW o \in Orders, NEW status \in Editable \cup {"annullato"}, Transition(o, status)
        PROVE TypeInv'
    <2>1. /\ orders[o].address \in Addresses
          /\ orders[o].verified \in BOOLEAN
          /\ status \in OrderStatuses
      BY <1>rows DEF Order, OrderStatuses, Editable
    <2>2. orders' \in [Orders -> Order]
      BY <1>3, <1>rows, <2>1, CorrectedType DEF Transition, TypeOK
    <2> QED
      BY <1>3, <2>2 DEF Transition, TypeOK
  <1>4. ASSUME NEW p \in Planners, NEW route \in Routes \cup {NoRoute}, NEW stops \in RowSets,
               NEW uses \in SUBSET Resources, NEW held \in BOOLEAN,
               ValidatePlan(p, route, stops, uses, held)
        PROVE TypeInv'
    <2>1. stops \in Stops
      BY ConstantsAssumption DEF Stops
    <2>2. held => RowOf(routes[route]) \in [status : RouteStatuses, uses : SUBSET Resources]
      BY <1>4, <1>rows DEF ValidatePlan, RowOf, Route
    <2>3. requests'[p] \in Request /\ requests'[p].phase = "validated"
      BY <1>4, <2>1, <2>2, ConstantRows, ReferencesType DEF ValidatePlan, TypeOK, Request
    <2> QED
      BY <1>4, <2>3 DEF ValidatePlan, TypeOK
  <1>5. ASSUME NEW p \in Planners, AbandonPlan(p) PROVE TypeInv'
    BY <1>5, ConstantRows DEF AbandonPlan, TypeOK, Idle
  <1>6. ASSUME NEW p \in Planners, NEW r \in Routes, SaveRoute(p, r) PROVE TypeInv'
    <2>1. PICK next \in AfterSave(p, r) : requests' = [requests EXCEPT ![p] = next]
      BY <1>6 DEF SaveRoute
    <2>2. next \in Request /\ (next.phase = "retry" => next.attempts \in 1 .. 2)
      BY <1>6, AfterSaveType DEF SaveRoute
    <2>3. /\ orders' \in [Orders -> Order]
          /\ assignments' \in [Orders -> Assignment]
          /\ routes' \in [Routes -> Route]
      BY <1>6, SaveType DEF SaveRoute, TypeOK
    <2> QED
      BY <1>6, <2>1, <2>2, <2>3 DEF SaveRoute, TypeOK
  <1>7. ASSUME NEW r \in Routes, ProgramRoute(r) PROVE TypeInv'
    <2>1. orders' \in [Orders -> Order]
      BY <1>7, SyncOrdersType DEF ProgramRoute, TypeOK, Phases
    <2>2. routes' \in [Routes -> Route]
      BY <1>7 DEF ProgramRoute, TypeOK, Route, RouteStatuses
    <2> QED
      BY <1>7, <2>1, <2>2 DEF ProgramRoute, TypeOK
  <1>8. ASSUME NEW r \in Routes, StartRoute(r) PROVE TypeInv'
    BY <1>8, StartedType DEF StartRoute, TypeOK
  <1>9. ASSUME NEW r \in Routes, NEW s \in routes[r].stops, AnnotateDelivery(r, s) PROVE TypeInv'
    BY <1>9, StartedType DEF AnnotateDelivery, TypeOK
  <1>10. ASSUME NEW r \in Routes, NEW s \in routes[r].stops, NEW phase \in {"delivered", "missed"},
                CloseDelivery(r, s, phase)
         PROVE TypeInv'
    <2> DEFINE members == {o \in Assigned(r) : assignments[o].key = s}
               synced == SyncOrders(StartedOrders(r), members, phase)
               recorded == IF phase = "delivered"
                           THEN [StartedRoute(r) EXCEPT !.completed = @ \cup {s}]
                           ELSE [StartedRoute(r) EXCEPT !.missed = @ \cup {s}]
    <2>1. synced \in [Orders -> Order] /\ SyncOrders(synced, Assigned(r), "completed")
                                            \in [Orders -> Order]
      BY StartedType, SyncOrdersType DEF Phases
    <2>2. {s} \in Stops
      BY <1>rows DEF Route, Stops
    <2>3. recorded \in Route
      BY <2>2, StartedType DEF Route, Stops
    <2>4. [recorded EXCEPT !.status = "completato"] \in Route
      BY <2>3 DEF Route, RouteStatuses
    <2>5. orders' \in {synced, SyncOrders(synced, Assigned(r), "completed")}
      BY <1>10 DEF CloseDelivery
    <2>6. routes' \in {[routes EXCEPT ![r] = recorded],
                       [routes EXCEPT ![r] = [recorded EXCEPT !.status = "completato"]]}
      BY <1>10 DEF CloseDelivery
    <2>7. UNCHANGED <<assignments, active, requests, overtaken>> /\ usage' = usage \cup {r}
      BY <1>10 DEF CloseDelivery
    <2> HIDE DEF synced, recorded
    <2>8. routes' \in [Routes -> Route]
      BY <2>3, <2>4, <2>6 DEF TypeOK
    <2> QED
      BY <2>1, <2>5, <2>7, <2>8 DEF TypeOK
  <1>11. ASSUME NEW r \in Routes, CompleteRoute(r) PROVE TypeInv'
    <2>1. [StartedRoute(r) EXCEPT !.status = "completato"] \in Route
      BY StartedType DEF Route, RouteStatuses
    <2>2. SyncOrders(StartedOrders(r), Assigned(r), "completed") \in [Orders -> Order]
      BY StartedType, SyncOrdersType DEF Phases
    <2> QED
      BY <1>11, <2>1, <2>2 DEF CompleteRoute, TypeOK
  <1>12. ASSUME NEW r \in Routes, CancelRoute(r) PROVE TypeInv'
    <2>1. SyncOrders(orders, Assigned(r), "cancelled") \in [Orders -> Order]
      BY SyncOrdersType DEF Phases, TypeOK
    <2>2. assignments' \in [Orders -> Assignment]
      BY <1>12, ConstantRows DEF CancelRoute, TypeOK
    <2>3. routes' \in [Routes -> Route]
      BY <1>12 DEF CancelRoute, TypeOK, Route, RouteStatuses
    <2> QED
      BY <1>12, <2>1, <2>2, <2>3 DEF CancelRoute, TypeOK
  <1>13. CASE PlanChange
    BY <1>13 DEF PlanChange, TypeOK
  <1>14. CASE UNCHANGED vars
    BY <1>14 DEF vars, TypeOK
  <1>15. ASSUME NEW p \in Planners, RereadRoute(p) PROVE TypeInv'
    <2>1. RowOf(routes[requests[p].route]) \in [status : RouteStatuses, uses : SUBSET Resources]
      BY <1>15, <1>rows DEF RereadRoute, RowOf, Route, TypeOK, Request
    <2>2. requests[p] \in Request
      BY DEF TypeOK
    <2> DEFINE next == [requests[p] EXCEPT !.seen = RowOf(routes[requests[p].route])]
    <2>3. next \in Request /\ next.phase = requests[p].phase /\ next.attempts = requests[p].attempts
      BY <2>1, <2>2 DEF Request
    <2>4. requests' = [requests EXCEPT ![p] = next]
      BY <1>15 DEF RereadRoute
    <2> HIDE DEF next
    <2> QED
      BY <1>15, <2>3, <2>4 DEF RereadRoute, TypeOK
  <1> QED
    BY <1>1, <1>2, <1>3, <1>4, <1>5, <1>6, <1>7, <1>8, <1>9, <1>10, <1>11, <1>12, <1>13, <1>14,
       <1>15
    DEF Next, Desk, Planning, Execution

(* Every reachable state of the tables and of the requests is well formed. *)
THEOREM TypeCorrect == Spec => []TypeOK
  <1>1. Init => TypeInv
    BY InitType
  <1>2. TypeInv /\ [Next]_vars => TypeInv'
    BY TypeStep
  <1>3. TypeInv => TypeOK
    BY DEF TypeInv
  <1> QED
    BY <1>1, <1>2, <1>3, PTL DEF Spec

-----------------------------------------------------------------------------
(* Orders follow their routes.                                             *)

UsageRuns == \A r \in usage : routes[r].status \in {"in_corso"} \cup ClosedRoute

(* The row a request holds was a row of its route once, and a programmed   *)
(* route never becomes a draft again.                                      *)
RowsRead ==
  \A p \in Planners : requests[p].route # NoRoute =>
    /\ routes[requests[p].route].status # "assente"
    /\ requests[p].seen.status = "programmato" =>
         routes[requests[p].route].status # "bozza"

(* A route that was billed cannot be a draft any more: without that fact   *)
(* an outcome could reach the orders of a draft.  And a save that comes    *)
(* too late finds a route that is more than a draft: without that fact a   *)
(* draft could carry an order that is scheduled.                           *)
FollowInv ==
  /\ TypeInv
  /\ UsageRuns
  /\ RowsRead
  /\ OrdersFollowRoutes

(* The columns of an order that waits on its route.                        *)
LateRow(order) == order.status = "assegnato" /\ order.delivery \in {"draft", "scheduled"}

(* OrdersFollowRoutes for one row: late says that a save of the route came *)
(* too late.                                                               *)
Fits(order, status, late) ==
  \/ FitsStatus(order, status)
  \/ late /\ status \notin {"assente", "bozza"} /\ LateRow(order)

(* The columns that a move writes.                                         *)
LEMMA MovedFields ==
  ASSUME NEW order \in Order, NEW status, NEW delivery
  PROVE  /\ Moved(order, status, delivery).status = status
         /\ Moved(order, status, delivery).delivery = delivery
  <1> DEFINE first == [order EXCEPT !.status = status]
             second == [first EXCEPT !.delivery = delivery]
  <1>1. first.status = status /\ DOMAIN first = DOMAIN order
    BY DEF Order
  <1>2. second.status = status /\ second.delivery = delivery
    BY <1>1 DEF Order
  <1> QED
    BY <1>2 DEF Moved, Order

(* What each route event makes of an order that fits its route or waits on *)
(* it.                                                                     *)
LEMMA SyncedFits ==
  ASSUME NEW order \in Order, NEW status \in RouteStatuses,
         FitsStatus(order, status) \/ LateRow(order)
  PROVE  /\ status \in {"bozza", "programmato"} =>
              /\ FitsStatus(Synced(order, "scheduled"), "programmato")
              /\ FitsStatus(Synced(order, "started"), "in_corso")
         /\ status = "in_corso" =>
              /\ \A phase \in {"started", "delivered", "missed"} :
                   FitsStatus(Synced(order, phase), "in_corso")
              /\ FitsStatus(Synced(order, "completed"), "completato")
         /\ status \in {"bozza", "programmato", "in_corso"} =>
              IF order.status \in Delivered
              THEN Synced(order, "cancelled") = order /\ FitsStatus(order, "annullato")
              ELSE /\ Synced(order, "cancelled") # order
                   /\ AtDesk(Synced(order, "cancelled"))
  <1>1. \A phase \in Phases :
          \/ Synced(order, phase) = order
          \/ /\ Synced(order, phase).status = Target(phase).status
             /\ Synced(order, phase).delivery = Target(phase).delivery
    BY MovedFields DEF Synced
  <1>2. \A phase \in Phases : order.status \in Delivered => Synced(order, phase) = order
    BY DEF Synced
  <1>3. \A phase \in Phases : order.status \notin Delivered =>
             /\ Synced(order, phase).status = Target(phase).status
             /\ Synced(order, phase).delivery = Target(phase).delivery
    BY MovedFields DEF Synced
  <1>4. CASE order.status \in Delivered
    BY <1>2, <1>4 DEF FitsStatus, LateRow, Phases, ClosedRoute, Delivered
  <1>5. CASE order.status \notin Delivered
    <2>1. status \in {"bozza", "programmato"} =>
              order.status = "assegnato"
      BY <1>5 DEF FitsStatus, LateRow, ClosedRoute
    <2>2. status = "in_corso" => order.status \in {"assegnato", "in_consegna"}
      BY <1>5 DEF FitsStatus, LateRow, Delivered
    <2>3. FitsStatus(Synced(order, "scheduled"), "programmato")
      BY <1>3, <1>5 DEF FitsStatus, Phases, Target, ClosedRoute
    <2>4. FitsStatus(Synced(order, "started"), "in_corso")
      BY <1>3, <1>5 DEF FitsStatus, Phases, Target, ClosedRoute
    <2>5. /\ FitsStatus(Synced(order, "delivered"), "in_corso")
          /\ FitsStatus(Synced(order, "missed"), "in_corso")
          /\ FitsStatus(Synced(order, "completed"), "completato")
      BY <1>3, <1>5 DEF FitsStatus, Phases, Target, ClosedRoute
    <2>6. AtDesk(Synced(order, "cancelled"))
      BY <1>3, <1>5 DEF AtDesk, Phases, Target, Editable
    <2>7. status \in {"bozza", "programmato", "in_corso"} => Synced(order, "cancelled") # order
      BY <2>1, <2>2, <2>6 DEF AtDesk, Editable
    <2> QED
      BY <1>5, <2>3, <2>4, <2>5, <2>6, <2>7
  <1> QED
    BY <1>4, <1>5

(* What FollowInv says of the rows.                                        *)
LEMMA FollowFacts ==
  ASSUME FollowInv
  PROVE  /\ \A o \in Orders : orders[o] \in Order /\ assignments[o] \in Assignment
         /\ \A r \in Routes : routes[r] \in Route /\ routes[r].status \in RouteStatuses
         /\ \A o \in Orders : IF Free(o) THEN AtDesk(orders[o])
                              ELSE /\ assignments[o].route \in Routes
                                   /\ Fits(orders[o], routes[assignments[o].route].status,
                                           assignments[o].route \in overtaken)
         /\ \A r \in Routes : \A o \in Assigned(r) :
              o \in Orders /\ ~Free(o) /\ Fits(orders[o], routes[r].status, r \in overtaken)
  BY ConstantsAssumption
  DEF FollowInv, TypeInv, TypeOK, Route, Assignment, OrdersFollowRoutes, FitsRoute, Late, Fits, LateRow, Free,
      Assigned

(* Starting a route that is not closed: its orders fit a running route.    *)
LEMMA StartedFits ==
  ASSUME FollowInv, NEW r \in Routes, routes[r].status \notin ClosedRoute \cup {"assente"}
  PROVE  /\ StartedRoute(r).status = "in_corso"
         /\ \A o \in Assigned(r) : Fits(StartedOrders(r)[o], "in_corso", r \in overtaken)
         /\ \A o \in Orders \ Assigned(r) : StartedOrders(r)[o] = orders[o]
  <1>1. routes[r] \in Route /\ routes[r].status \in {"bozza", "programmato", "in_corso"}
    BY DEF FollowInv, TypeInv, TypeOK, Route, RouteStatuses, ClosedRoute
  <1>2. StartedRoute(r).status = "in_corso"
    <2>1. CASE r \in usage
      BY <1>1, <2>1 DEF StartedRoute, FollowInv, UsageRuns, ClosedRoute
    <2>2. CASE r \notin usage
      <3>1. [routes[r] EXCEPT !.started = TRUE, !.status = "in_corso"].status = "in_corso"
        BY <1>1, StartedRow DEF RouteStatuses
      <3> QED
        BY <1>1, <2>2, <3>1 DEF StartedRoute
    <2> QED
      BY <2>1, <2>2
  <1>3. ASSUME NEW o \in Assigned(r)
        PROVE  Fits(StartedOrders(r)[o], "in_corso", r \in overtaken)
    <2>1. o \in Orders /\ orders[o] \in Order /\ Fits(orders[o], routes[r].status, r \in overtaken)
      BY FollowFacts DEF Assigned
    <2>2. CASE r \in usage
      <3>1. routes[r].status = "in_corso" /\ StartedOrders(r) = orders
        BY <1>1, <2>2 DEF FollowInv, UsageRuns, ClosedRoute, StartedOrders
      <3> QED
        BY <2>1, <3>1
    <2>3. CASE r \notin usage
      <3>1. StartedOrders(r)[o] = Synced(orders[o], "started")
        BY <2>1, <2>3 DEF StartedOrders, SyncOrders
      <3>2. FitsStatus(Synced(orders[o], "started"), "in_corso")
        BY <1>1, <2>1, SyncedFits DEF Fits, RouteStatuses
      <3> QED
        BY <3>1, <3>2 DEF Fits
    <2> QED
      BY <2>2, <2>3
  <1>4. \A o \in Orders \ Assigned(r) : StartedOrders(r)[o] = orders[o]
    BY DEF StartedOrders, SyncOrders
  <1> QED
    BY <1>2, <1>3, <1>4

(* A desk correction of an order without a route.                          *)
LEMMA DeskFollows ==
  ASSUME FollowInv, NEW o \in Orders, Free(o), UNCHANGED <<assignments, routes, overtaken>>,
         NEW status \in Editable \cup {"annullato"}, NEW address, NEW verified,
         orders' = [orders EXCEPT ![o] = Corrected(@, status, address, verified)]
  PROVE  OrdersFollowRoutes'
  <1>1. orders[o] \in Order /\ AtDesk(orders[o])
    BY FollowFacts
  <1>2. AtDesk(Corrected(orders[o], status, address, verified))
    <2> DEFINE first == [orders[o] EXCEPT !.status = status]
               second == [first EXCEPT !.address = address]
               third == [second EXCEPT !.verified = verified]
    <2>1. /\ first.status = status /\ first.delivery = "not_assigned"
          /\ DOMAIN first = DOMAIN orders[o]
      BY <1>1 DEF Order, AtDesk
    <2>2. third.status = status /\ third.delivery = "not_assigned"
      BY <2>1, <1>1 DEF Order
    <2>3. Corrected(orders[o], status, address, verified).status = status
      BY <2>2, <1>1 DEF Order, Corrected
    <2>4. Corrected(orders[o], status, address, verified).delivery = "not_assigned"
      BY <2>2, <1>1 DEF Order, Corrected
    <2> QED
      BY <2>3, <2>4 DEF AtDesk
  <1>3. orders'[o] = Corrected(orders[o], status, address, verified)
    BY DEF FollowInv, TypeInv, TypeOK
  <1>4. \A q \in Orders \ {o} : orders'[q] = orders[q]
    BY DEF FollowInv, TypeInv, TypeOK
  <1>5. \A q \in Orders : FitsRoute(q)'
    BY <1>2, <1>3, <1>4, FollowFacts DEF FitsRoute, Late, Fits, LateRow, Free
  <1> QED
    BY <1>5 DEF OrdersFollowRoutes

(* A save: the orders it takes fit the saved route or wait on a route that *)
(* left the status the session knew, those it gives back fit the desk, and *)
(* no other order had anything to do with the route.                       *)
LEMMA SaveFollows ==
  ASSUME FollowInv, NEW p \in Planners, NEW r \in Routes, SaveRoute(p, r)
  PROVE  OrdersFollowRoutes'
  <1> DEFINE wanted == Wanted(requests[p].stops)
             status == Rewritten(p, r).status
             known == IF requests[p].route = NoRoute THEN "bozza" ELSE View(p, r).status
  <1>1. /\ routes'[r].status = status
        /\ \A q \in Routes \ {r} : routes'[q] = routes[q]
        /\ orders' = Reserved(p, r)
        /\ assignments' = Reservations(p, r)
    BY DEF SaveRoute, FollowInv, TypeInv, TypeOK
  <1>2. requests[p].route = NoRoute => Assigned(r) = {} /\ status = "bozza"
    BY FollowFacts DEF SaveRoute, Fits, FitsStatus, Rewritten, ClosedRoute
  <1>3. requests[p].route # NoRoute =>
          requests[p].route = r /\ status = routes[r].status /\ status # "assente"
    BY DEF SaveRoute, Rewritten, FollowInv, RowsRead
  <1>4. known \in {"bozza", "programmato"}
    BY DEF SaveRoute, Acceptable
  <1>5. known # status => r \in overtaken' /\ status \notin {"assente", "bozza"}
    <2>1. CASE requests[p].route = NoRoute
      BY <1>2, <2>1
    <2>2. CASE requests[p].route # NoRoute /\ requests[p].seen = NotHeld
      BY <1>3, <2>2 DEF View, RowOf
    <2>3. CASE requests[p].route # NoRoute /\ requests[p].seen # NotHeld
      <3>1. known = requests[p].seen.status
        BY <2>3 DEF View
      <3>2. known = "programmato" => status # "bozza"
        BY <1>3, <2>3, <3>1 DEF FollowInv, RowsRead
      <3>3. known # status => r \in overtaken'
        BY <1>3, <2>3 DEF SaveRoute, Overtaken
      <3> QED
        BY <1>3, <1>4, <2>3, <3>2, <3>3
    <2> QED
      BY <2>1, <2>2, <2>3
  <1>6. overtaken \subseteq overtaken' /\ \A q \in overtaken' : q = r \/ q \in overtaken
    BY DEF SaveRoute
  <1>7. ASSUME NEW o \in Orders, o \in wanted, o \notin Assigned(r) PROVE FitsRoute(o)'
    <2>1. orders'[o] = Moved(orders[o], "assegnato",
                             IF requests[p].route = NoRoute \/ View(p, r).status = "bozza"
                             THEN "draft" ELSE "scheduled")
      BY <1>1, <1>7 DEF Reserved
    <2>2. orders'[o].status = "assegnato"
      BY <2>1, MovedFields, FollowFacts
    <2>3. orders'[o].delivery = IF known = "bozza" THEN "draft" ELSE "scheduled"
      BY <2>1, MovedFields, FollowFacts
    <2>4. assignments'[o].route = r
      BY <1>1, <1>7 DEF Reservations
    <2> HIDE DEF known, status
    <2>5. CASE known = status
      BY <1>1, <1>4, <2>2, <2>3, <2>4, <2>5, ConstantsAssumption
      DEF FitsRoute, FitsStatus, Free, ClosedRoute
    <2>6. CASE known # status
      BY <1>1, <1>5, <2>2, <2>3, <2>4, <2>6, ConstantsAssumption DEF FitsRoute, Late, Free
    <2> QED
      BY <2>5, <2>6
  <1>8. ASSUME NEW o \in Orders, o \in wanted, o \in Assigned(r) PROVE FitsRoute(o)'
    <2>1. orders'[o] = Touched(orders[o]) /\ assignments'[o].route = r
      BY <1>1, <1>8 DEF Reserved, Reservations
    <2>2. status = routes[r].status
      BY <1>2, <1>3, <1>8
    <2>3. Fits(orders[o], status, r \in overtaken')
      BY <1>6, <1>8, <2>2, FollowFacts DEF Fits
    <2>4. orders'[o].status = orders[o].status /\ orders'[o].delivery = orders[o].delivery
      BY <2>1, FollowFacts DEF Touched, Order
    <2> HIDE DEF status
    <2> QED
      BY <1>1, <2>1, <2>3, <2>4, ConstantsAssumption
      DEF FitsRoute, Late, Fits, LateRow, FitsStatus, Free
  <1>9. ASSUME NEW o \in Orders, o \notin wanted, o \in Assigned(r) PROVE FitsRoute(o)'
    <2>1. orders'[o] = Moved(orders[o], "pronto", "not_assigned")
      BY <1>1, <1>9 DEF Reserved
    <2>2. assignments'[o].route = NoRoute
      BY <1>1, <1>9 DEF Reservations, Unassigned
    <2> QED
      BY <2>1, <2>2, MovedFields, FollowFacts DEF FitsRoute, AtDesk, Free, Editable
  <1>10. ASSUME NEW o \in Orders, o \notin wanted, o \notin Assigned(r) PROVE FitsRoute(o)'
    <2>1. orders'[o] = orders[o] /\ assignments'[o] = assignments[o]
      BY <1>1, <1>10 DEF Reserved, Reservations
    <2>2. assignments[o].route # r
      BY <1>10 DEF Assigned
    <2>3. FitsRoute(o)
      BY DEF FollowInv, OrdersFollowRoutes
    <2>4. CASE Free(o)
      BY <2>1, <2>3, <2>4 DEF FitsRoute, Free
    <2>5. CASE ~Free(o)
      <3>1. assignments[o].route \in Routes \ {r}
        BY <2>2, <2>5, FollowFacts
      <3> QED
        BY <1>1, <1>6, <2>1, <2>3, <2>5, <3>1 DEF FitsRoute, Late, Free
    <2> QED
      BY <2>4, <2>5
  <1> QED
    BY <1>7, <1>8, <1>9, <1>10 DEF OrdersFollowRoutes

(* An event of one route that leaves the reservations alone.               *)
LEMMA EventFollows ==
  ASSUME FollowInv, NEW r \in Routes, UNCHANGED <<assignments, overtaken>>,
         \A q \in Routes \ {r} : routes'[q].status = routes[q].status,
         \A o \in Orders \ Assigned(r) : orders'[o] = orders[o],
         \A o \in Assigned(r) : Fits(orders'[o], routes'[r].status, r \in overtaken)
  PROVE  OrdersFollowRoutes'
  <1>1. ASSUME NEW o \in Orders PROVE FitsRoute(o)'
    BY <1>1, FollowFacts, ConstantsAssumption DEF FitsRoute, Late, Fits, LateRow, Free, Assigned
  <1> QED
    BY <1>1 DEF OrdersFollowRoutes

(* Every step keeps the orders with their routes.                          *)
LEMMA FollowStep == FollowInv /\ [Next]_vars => FollowInv'
  <1> SUFFICES ASSUME FollowInv, [Next]_vars PROVE FollowInv'
    OBVIOUS
  <1>type. TypeInv'
    BY TypeStep DEF FollowInv
  <1>tables. /\ orders \in [Orders -> Order]
             /\ routes \in [Routes -> Route]
             /\ requests \in [Planners -> Request]
             /\ usage \subseteq Routes
    BY DEF FollowInv, TypeInv, TypeOK
  <1>running. \A r \in usage : routes[r].status \in {"in_corso"} \cup ClosedRoute
    BY DEF FollowInv, UsageRuns
  (* Most actions leave the requests alone, and none takes a route back. *)
  <1>read. ASSUME UNCHANGED requests,
                  \A q \in Routes : \/ routes'[q].status = routes[q].status
                                    \/ routes'[q].status \notin {"assente", "bozza"}
           PROVE  RowsRead'
    BY <1>read, <1>tables DEF FollowInv, RowsRead, Request
  <1>uses. UNCHANGED <<routes, usage>> => UsageRuns'
    BY DEF FollowInv, UsageRuns
  <1>1. ASSUME NEW o \in Orders, NEW a \in Addresses, UpdateOrder(o, a) PROVE FollowInv'
    <2>1. OrdersFollowRoutes'
      BY <1>1, DeskFollows DEF UpdateOrder, MayEdit, Editable
    <2> QED
      BY <1>1, <1>type, <1>read, <1>uses, <2>1 DEF UpdateOrder, FollowInv
  <1>2. ASSUME NEW o \in Orders, VerifyAddress(o) PROVE FollowInv'
    <2>1. orders' = [orders EXCEPT ![o] = Corrected(@, "pronto", orders[o].address, TRUE)]
      BY <1>2 DEF VerifyAddress
    <2>2. OrdersFollowRoutes'
      BY <1>2, <2>1, DeskFollows DEF VerifyAddress, MayEdit, Editable
    <2> QED
      BY <1>2, <1>type, <1>read, <1>uses, <2>2 DEF VerifyAddress, FollowInv
  <1>3. ASSUME NEW o \in Orders, NEW status \in Editable \cup {"annullato"}, Transition(o, status)
        PROVE FollowInv'
    <2>1. orders' = [orders EXCEPT ![o] =
                       Corrected(@, status, orders[o].address, orders[o].verified)]
      BY <1>3 DEF Transition
    <2>2. OrdersFollowRoutes'
      BY <1>3, <2>1, DeskFollows DEF Transition, MayEdit
    <2> QED
      BY <1>3, <1>type, <1>read, <1>uses, <2>2 DEF Transition, FollowInv
  (* The rows of the tables, when only the requests change. *)
  <1>tablesame. UNCHANGED <<orders, assignments, routes, overtaken>> => OrdersFollowRoutes'
    BY DEF FollowInv, OrdersFollowRoutes, FitsRoute, Late, Free
  <1>4. ASSUME NEW p \in Planners, NEW route \in Routes \cup {NoRoute}, NEW stops \in RowSets,
               NEW uses \in SUBSET Resources, NEW held \in BOOLEAN,
               ValidatePlan(p, route, stops, uses, held)
        PROVE FollowInv'
    <2>1. RowsRead'
      <3>1. requests'[p].seen \in {RowOf(routes[route]), NotHeld} /\ requests'[p].route = route
        BY <1>4, <1>tables DEF ValidatePlan
      <3>2. \A q \in Planners \ {p} : requests'[q] = requests[q]
        BY <1>4, <1>tables DEF ValidatePlan
      <3>3. route # NoRoute => routes[route].status # "assente"
        BY <1>4 DEF ValidatePlan
      <3>4. UNCHANGED routes
        BY <1>4 DEF ValidatePlan
      <3> QED
        BY <3>1, <3>2, <3>3, <3>4 DEF FollowInv, RowsRead, RowOf, NotHeld
    <2> QED
      BY <1>4, <1>type, <1>uses, <1>tablesame, <2>1 DEF ValidatePlan, FollowInv
  <1>5. ASSUME NEW p \in Planners, AbandonPlan(p) PROVE FollowInv'
    <2>1. RowsRead'
      BY <1>5, <1>tables DEF AbandonPlan, RowsRead, FollowInv, Idle
    <2> QED
      BY <1>5, <1>type, <1>uses, <1>tablesame, <2>1 DEF AbandonPlan, FollowInv
  <1>reread. ASSUME NEW p \in Planners, RereadRoute(p) PROVE FollowInv'
    <2>1. requests[p] \in Request
      BY <1>tables
    <2>2. /\ requests'[p].seen = RowOf(routes[requests[p].route])
          /\ requests'[p].route = requests[p].route
          /\ \A q \in Planners \ {p} : requests'[q] = requests[q]
      BY <1>reread, <1>tables, <2>1 DEF RereadRoute, Request
    <2>3. UNCHANGED routes
      BY <1>reread DEF RereadRoute
    <2>4. RowsRead'
      BY <2>2, <2>3 DEF FollowInv, RowsRead, RowOf
    <2> QED
      BY <1>reread, <1>type, <1>uses, <1>tablesame, <2>4 DEF RereadRoute, FollowInv
  <1>6. ASSUME NEW p \in Planners, NEW r \in Routes, SaveRoute(p, r) PROVE FollowInv'
    <2>1. PICK next \in AfterSave(p, r) : requests' = [requests EXCEPT ![p] = next]
      BY <1>6 DEF SaveRoute
    <2>2. \/ next.route = NoRoute
          \/ next.route = r /\ next.seen.status = Rewritten(p, r).status
      <3>1. requests[p].phase \in {"validated", "retry", "restore"}
        BY <1>6, <1>tables DEF SaveRoute, Request
      <3>2. next = Idle \/ \E phase, kept, n : next = FollowUp(p, r, phase, kept, n)
        BY <3>1 DEF AfterSave
      <3> QED
        BY <3>2 DEF Idle, FollowUp, RowOf
    <2>3. /\ routes'[r].status = Rewritten(p, r).status
          /\ \A q \in Routes \ {r} : routes'[q] = routes[q]
      BY <1>6, <1>tables DEF SaveRoute
    <2>4. \/ requests[p].route = r /\ Rewritten(p, r).status = routes[r].status
          \/ routes[r].status = "assente" /\ Rewritten(p, r).status = "bozza"
      BY <1>6, ConstantsAssumption DEF SaveRoute, Rewritten
    <2>5. Rewritten(p, r).status # "assente"
      BY <2>4, ConstantsAssumption DEF FollowInv, RowsRead
    <2>6. RowsRead'
      <3>1. ASSUME NEW q \in Planners, requests'[q].route # NoRoute
            PROVE  /\ routes'[requests'[q].route].status # "assente"
                   /\ requests'[q].seen.status = "programmato" =>
                        routes'[requests'[q].route].status # "bozza"
        <4>1. CASE q = p
          BY <1>tables, <2>1, <2>2, <2>3, <2>5, <3>1, <4>1
        <4>2. CASE q # p
          <5>1. requests'[q] = requests[q] /\ requests[q].route \in Routes
            BY <1>tables, <2>1, <3>1, <4>2 DEF Request
          <5>2. /\ routes[requests[q].route].status # "assente"
                /\ requests[q].seen.status = "programmato" =>
                     routes[requests[q].route].status # "bozza"
            BY <3>1, <5>1 DEF FollowInv, RowsRead
          <5> QED
            BY <2>3, <2>4, <5>1, <5>2
        <4> QED
          BY <4>1, <4>2
      <3> QED
        BY <3>1 DEF RowsRead
    <2>7. UsageRuns'
      <3>1. UNCHANGED usage
        BY <1>6 DEF SaveRoute
      <3> QED
        BY <2>3, <2>4, <3>1, <1>running, <1>tables DEF UsageRuns, ClosedRoute
    <2> QED
      BY <1>type, <2>6, <2>7, <1>6, SaveFollows DEF FollowInv
  <1>7. ASSUME NEW r \in Routes, ProgramRoute(r) PROVE FollowInv'
    <2>1. \A o \in Assigned(r) : Fits(orders'[o], "programmato", r \in overtaken)
      BY <1>7, FollowFacts, SyncedFits DEF ProgramRoute, SyncOrders, Fits
    <2>2. \A o \in Orders \ Assigned(r) : orders'[o] = orders[o]
      BY <1>7 DEF ProgramRoute, SyncOrders
    <2>3. routes'[r].status = "programmato"
      BY <1>7, <1>tables DEF ProgramRoute, Route
    <2>4. \A q \in Routes \ {r} : routes'[q] = routes[q]
      BY <1>7, <1>tables DEF ProgramRoute
    <2>5. OrdersFollowRoutes'
      BY <1>7, <2>1, <2>2, <2>3, <2>4, EventFollows DEF ProgramRoute
    <2>6. UsageRuns'
      BY <1>7, <2>4, <1>running, <1>tables DEF ProgramRoute, UsageRuns, ClosedRoute
    <2>7. RowsRead'
      BY <1>7, <1>read, <2>3, <2>4 DEF ProgramRoute
    <2> QED
      BY <1>type, <2>5, <2>6, <2>7 DEF FollowInv
  <1>8. ASSUME NEW r \in Routes, routes[r].status \notin ClosedRoute \cup {"assente"},
               orders' = StartedOrders(r), routes' = [routes EXCEPT ![r] = StartedRoute(r)],
               usage' = usage \cup {r}, UNCHANGED <<assignments, requests, overtaken>>
        PROVE FollowInv'
    <2>1. /\ routes'[r].status = "in_corso"
          /\ \A q \in Routes \ {r} : routes'[q] = routes[q]
      BY <1>8, <1>tables, StartedFits
    <2>2. OrdersFollowRoutes'
      BY <1>8, <2>1, StartedFits, EventFollows
    <2>3. UsageRuns'
      BY <1>8, <2>1, <1>running, <1>tables DEF UsageRuns
    <2>4. RowsRead'
      BY <1>8, <1>read, <2>1
    <2> QED
      BY <1>type, <2>2, <2>3, <2>4 DEF FollowInv
  <1>9. ASSUME NEW r \in Routes, StartRoute(r) PROVE FollowInv'
    BY <1>9, <1>8 DEF StartRoute, MayStart
  <1>10. ASSUME NEW r \in Routes, NEW s \in routes[r].stops, AnnotateDelivery(r, s)
         PROVE FollowInv'
    BY <1>10, <1>8 DEF AnnotateDelivery, MayStart, OpenStop
  <1>11. ASSUME NEW r \in Routes, NEW s \in routes[r].stops, NEW phase \in {"delivered", "missed"},
                CloseDelivery(r, s, phase)
         PROVE FollowInv'
    <2> DEFINE members == {o \in Assigned(r) : assignments[o].key = s}
               synced == SyncOrders(StartedOrders(r), members, phase)
               recorded == IF phase = "delivered"
                           THEN [StartedRoute(r) EXCEPT !.completed = @ \cup {s}]
                           ELSE [StartedRoute(r) EXCEPT !.missed = @ \cup {s}]
               last == SyncOrders(synced, Assigned(r), "completed")
    <2>1. routes[r].status \notin ClosedRoute \cup {"assente"}
      BY <1>11 DEF CloseDelivery, OpenStop, MayStart
    <2>2. /\ synced \in [Orders -> Order]
          /\ \A o \in Assigned(r) : Fits(synced[o], "in_corso", r \in overtaken)
          /\ \A o \in Assigned(r) : Fits(last[o], "completato", r \in overtaken)
          /\ \A o \in Orders \ Assigned(r) : synced[o] = orders[o] /\ last[o] = orders[o]
      <3>1. StartedOrders(r) \in [Orders -> Order]
        BY StartedType DEF FollowInv, TypeInv
      <3>2. \A o \in Assigned(r) : o \in Orders /\ Fits(StartedOrders(r)[o], "in_corso", r \in overtaken)
        BY <2>1, StartedFits DEF Assigned
      <3>3. \A o \in Orders \ Assigned(r) : StartedOrders(r)[o] = orders[o] /\ o \notin members
        BY <2>1, StartedFits
      <3>4. synced \in [Orders -> Order]
        BY <3>1, SyncOrdersType DEF Phases
      <3>5. \A o \in Orders : synced[o] = IF o \in members THEN Synced(StartedOrders(r)[o], phase)
                                                           ELSE StartedOrders(r)[o]
        BY DEF SyncOrders
      <3>6. \A o \in Orders : last[o] = IF o \in Assigned(r) THEN Synced(synced[o], "completed")
                                                            ELSE synced[o]
        BY DEF SyncOrders
      <3> HIDE DEF synced, last, members
      <3>7. \A o \in Assigned(r) : Fits(synced[o], "in_corso", r \in overtaken)
        BY <3>1, <3>2, <3>5, SyncedFits DEF RouteStatuses, Fits
      <3>8. \A o \in Assigned(r) : Fits(last[o], "completato", r \in overtaken)
        BY <3>2, <3>4, <3>6, <3>7, SyncedFits DEF RouteStatuses, Fits
      <3> QED
        BY <3>3, <3>4, <3>5, <3>6, <3>7, <3>8
    <2>3. StartedRoute(r) \in Route /\ StartedRoute(r).status = "in_corso"
      BY <2>1, StartedFits, StartedType DEF FollowInv, TypeInv
    <2>4. /\ recorded.status = "in_corso"
          /\ [recorded EXCEPT !.status = "completato"].status = "completato"
      BY <2>3 DEF Route
    <2>5. \/ orders' = synced /\ routes' = [routes EXCEPT ![r] = recorded]
          \/ orders' = last /\ routes' = [routes EXCEPT ![r] = [recorded EXCEPT !.status = "completato"]]
      BY <1>11 DEF CloseDelivery
    <2>6. UNCHANGED <<assignments, requests, overtaken>> /\ usage' = usage \cup {r}
      BY <1>11 DEF CloseDelivery
    <2> HIDE DEF synced, last, recorded
    <2>7. /\ routes'[r].status \in {"in_corso", "completato"}
          /\ \A o \in Assigned(r) : Fits(orders'[o], routes'[r].status, r \in overtaken)
          /\ \A o \in Orders \ Assigned(r) : orders'[o] = orders[o]
          /\ \A q \in Routes \ {r} : routes'[q] = routes[q]
      BY <2>2, <2>4, <2>5, <1>tables
    <2>8. OrdersFollowRoutes'
      BY <2>6, <2>7, EventFollows
    <2>9. UsageRuns'
      BY <2>6, <2>7, <1>running, <1>tables DEF UsageRuns, ClosedRoute
    <2>10. RowsRead'
      BY <1>read, <2>6, <2>7
    <2> QED
      BY <1>type, <2>8, <2>9, <2>10 DEF FollowInv
  <1>12. ASSUME NEW r \in Routes, CompleteRoute(r) PROVE FollowInv'
    <2> DEFINE last == SyncOrders(StartedOrders(r), Assigned(r), "completed")
    <2>0. UNCHANGED <<assignments, requests, overtaken>> /\ usage' = usage \cup {r}
      BY <1>12 DEF CompleteRoute
    <2>1. CASE routes[r].status = "completato"
      <3>1. UNCHANGED <<orders, routes>>
        BY <1>12, <2>1 DEF CompleteRoute
      <3>2. OrdersFollowRoutes'
        BY <2>0, <3>1, <1>tablesame
      <3>3. UsageRuns'
        BY <2>0, <2>1, <3>1, <1>running DEF UsageRuns, ClosedRoute
      <3> QED
        BY <2>0, <3>1, <1>type, <1>read, <3>2, <3>3 DEF FollowInv
    <2>2. CASE routes[r].status # "completato"
      <3>1. routes[r].status \notin ClosedRoute \cup {"assente"}
        BY <1>12, <2>2 DEF CompleteRoute, MayStart, ClosedRoute
      <3>2. /\ \A o \in Assigned(r) : Fits(last[o], "completato", r \in overtaken)
            /\ \A o \in Orders \ Assigned(r) : last[o] = orders[o]
        <4>1. StartedOrders(r) \in [Orders -> Order] /\ Assigned(r) \subseteq Orders
          BY StartedType DEF FollowInv, TypeInv, Assigned
        <4> QED
          BY <3>1, <4>1, StartedFits, SyncedFits DEF SyncOrders, RouteStatuses, Fits
      <3>3. orders' = last /\ routes' = [routes EXCEPT ![r] =
                                           [StartedRoute(r) EXCEPT !.status = "completato"]]
        BY <1>12, <2>2 DEF CompleteRoute
      <3>4. [StartedRoute(r) EXCEPT !.status = "completato"].status = "completato"
        BY StartedType DEF FollowInv, TypeInv, Route
      <3> HIDE DEF last
      <3>5. routes'[r].status = "completato" /\ \A q \in Routes \ {r} : routes'[q] = routes[q]
        BY <3>3, <3>4, <1>tables
      <3>6. OrdersFollowRoutes'
        BY <2>0, <3>2, <3>3, <3>5, EventFollows
      <3>7. UsageRuns'
        BY <2>0, <3>5, <1>running, <1>tables DEF UsageRuns, ClosedRoute
      <3>8. RowsRead'
        BY <2>0, <1>read, <3>5
      <3> QED
        BY <1>type, <3>6, <3>7, <3>8 DEF FollowInv
    <2> QED
      BY <2>1, <2>2
  <1>13. ASSUME NEW r \in Routes, CancelRoute(r) PROVE FollowInv'
    <2>1. routes[r].status \in {"bozza", "programmato", "in_corso"}
      BY <1>13, FollowFacts DEF CancelRoute, RouteStatuses, ClosedRoute
    <2>2. routes'[r].status = "annullato" /\ \A q \in Routes \ {r} : routes'[q] = routes[q]
      BY <1>13, <1>tables DEF CancelRoute, Route
    <2>3. ASSUME NEW o \in Orders, o \in Assigned(r) PROVE FitsRoute(o)'
      <3>1. orders'[o] = Synced(orders[o], "cancelled")
        BY <1>13, <2>3 DEF CancelRoute, SyncOrders
      <3>2. orders[o] \in Order /\ (FitsStatus(orders[o], routes[r].status) \/ LateRow(orders[o]))
        BY <2>3, FollowFacts DEF Fits
      <3>3. CASE orders[o].status \in Delivered
        <4>1. Synced(orders[o], "cancelled") = orders[o] /\ FitsStatus(orders[o], "annullato")
          BY <2>1, <3>2, <3>3, SyncedFits DEF RouteStatuses
        <4>2. assignments'[o] = assignments[o] /\ assignments[o].route = r
          BY <1>13, <2>3, <4>1 DEF CancelRoute, Assigned
        <4>3. ~Free(o)'
          BY <4>2, ConstantsAssumption DEF Free
        <4> QED
          BY <2>2, <3>1, <4>1, <4>2, <4>3 DEF FitsRoute
      <3>4. CASE orders[o].status \notin Delivered
        <4>1. Synced(orders[o], "cancelled") # orders[o] /\ AtDesk(Synced(orders[o], "cancelled"))
          BY <2>1, <3>2, <3>4, SyncedFits DEF RouteStatuses
        <4>2. assignments'[o] = Unassigned
          BY <1>13, <2>3, <4>1 DEF CancelRoute
        <4> QED
          BY <3>1, <4>1, <4>2 DEF FitsRoute, Free, Unassigned
      <3> QED
        BY <3>3, <3>4
    <2>4. ASSUME NEW o \in Orders, o \notin Assigned(r) PROVE FitsRoute(o)'
      <3>1. orders'[o] = orders[o] /\ assignments'[o] = assignments[o]
        BY <1>13, <2>4 DEF CancelRoute, SyncOrders
      <3>2. UNCHANGED overtaken
        BY <1>13 DEF CancelRoute
      <3> QED
        BY <2>2, <2>4, <3>1, <3>2, FollowFacts DEF FitsRoute, Late, Fits, LateRow, Free, Assigned
    <2>5. UsageRuns'
      BY <1>13, <2>2, <1>running, <1>tables DEF CancelRoute, UsageRuns, ClosedRoute
    <2>6. RowsRead'
      BY <1>13, <1>read, <2>2 DEF CancelRoute
    <2> QED
      BY <1>type, <2>3, <2>4, <2>5, <2>6 DEF FollowInv, OrdersFollowRoutes
  <1>14. ASSUME UNCHANGED <<orders, assignments, routes, usage, requests, overtaken>>
         PROVE FollowInv'
    BY <1>14, <1>type, <1>read, <1>uses, <1>tablesame DEF FollowInv
  <1> QED
    BY <1>1, <1>2, <1>3, <1>4, <1>5, <1>6, <1>7, <1>9, <1>10, <1>11, <1>12, <1>13, <1>14, <1>reread
    DEF Next, Desk, Planning, Execution, PlanChange, vars

(* An order is always in the state its route gives it, whoever planned,    *)
(* edited, drove or cancelled, also when a save knows only a row that was  *)
(* read before the last events of the route: an order such a save put on   *)
(* the route may still wait there, and is the only one that does.          *)
THEOREM OrdersFollow == Spec => []OrdersFollowRoutes
  <1>1. Init => FollowInv
    BY InitType, ConstantsAssumption
    DEF Init, FollowInv, RowsRead, UsageRuns, Idle, OrdersFollowRoutes, FitsRoute, Free, AtDesk,
        Unassigned, Editable
  <1>2. FollowInv /\ [Next]_vars => FollowInv'
    BY FollowStep
  <1>3. FollowInv => OrdersFollowRoutes
    BY DEF FollowInv
  <1> QED
    BY <1>1, <1>2, <1>3, PTL DEF Spec

-----------------------------------------------------------------------------
(* Reservations and stops.                                                 *)

Disjoint(stops) == \A K, L \in stops : K # L => K \cap L = {}

(* The stops of a route are disjoint because those of the request were     *)
(* when it was validated, and a request keeps its stops.                   *)
StopInv ==
  /\ FollowInv
  /\ \A p \in Planners : Disjoint(requests[p].stops)
  /\ ReservationsMatchStops

(* Each event of the life of a route but a cancellation keeps its stops.   *)
LEMMA StopsKept ==
  ASSUME ReservationsMatchStops, UNCHANGED assignments,
         \A r \in Routes : /\ routes'[r].stops = routes[r].stops
                           /\ routes[r].status = "annullato" => routes'[r].status = "annullato",
         \A o \in Orders : Free(o) \/ assignments[o].route \in Routes
  PROVE  ReservationsMatchStops'
  BY DEF ReservationsMatchStops, Free

(* A start keeps the stops.                                                *)
LEMMA StartedStops ==
  ASSUME TypeOK, NEW r \in Routes
  PROVE  StartedRoute(r).stops = routes[r].stops
  <1>1. routes[r] \in Route
    BY DEF TypeOK
  <1>2. \A status \in RouteStatuses :
          [routes[r] EXCEPT !.started = TRUE, !.status = status].stops = routes[r].stops
    BY <1>1, StartedRow
  <1> QED
    BY <1>2 DEF StartedRoute, RouteStatuses

(* A save reserves exactly the orders of the stops it writes.              *)
LEMMA SaveStops ==
  ASSUME StopInv, NEW p \in Planners, NEW r \in Routes, SaveRoute(p, r)
  PROVE  ReservationsMatchStops'
  <1> DEFINE stops == requests[p].stops
             wanted == Wanted(stops)
  <1>1. /\ FollowInv
        /\ Disjoint(stops)
        /\ ReservationsMatchStops
        /\ routes \in [Routes -> Route]
        /\ \A o \in Orders : Free(o) \/ assignments[o].route \in Routes
        /\ stops \in Stops
    <2>1. requests[p].stops \in Stops
      BY DEF StopInv, FollowInv, TypeInv, TypeOK, Request
    <2> QED
      BY <2>1, FollowFacts DEF StopInv, FollowInv, TypeInv, TypeOK
  <1>2. /\ assignments' = Reservations(p, r)
        /\ routes'[r].stops = stops
        /\ \A q \in Routes \ {r} : routes'[q] = routes[q]
    BY <1>1 DEF SaveRoute, Rewritten
  <1>3. \A o \in wanted : o \in Orders /\ (Free(o) \/ assignments[o].route = r)
    <2>1. \A o \in wanted : assignments[o].route \in {NoRoute, requests[p].route}
      BY DEF SaveRoute, Acceptable, Plannable
    <2>2. requests[p].route \in {NoRoute, r}
      BY DEF SaveRoute
    <2>3. wanted \subseteq Orders
      BY <1>1 DEF Wanted, Stops
    <2> QED
      BY <2>1, <2>2, <2>3 DEF Free
  <1>4. \A o \in wanted : /\ assignments'[o].route = r
                          /\ assignments'[o].key = StopOf(stops, o)
                          /\ StopOf(stops, o) \in stops
                          /\ o \in StopOf(stops, o)
    BY <1>2, <1>3, StopOfWanted DEF Reservations
  <1>5. \A o \in Orders \ wanted : assignments'[o] = IF o \in Assigned(r) THEN Unassigned
                                                                       ELSE assignments[o]
    BY <1>2 DEF Reservations
  <1>6. ASSUME NEW o \in Orders, ~Free(o)'
        PROVE  /\ o \in assignments'[o].key
               /\ assignments'[o].key \in routes'[assignments'[o].route].stops
    <2>1. CASE o \in wanted
      BY <1>2, <1>4, <2>1
    <2>2. CASE o \notin wanted
      <3>1. assignments'[o] = assignments[o] /\ o \notin Assigned(r) /\ ~Free(o)
        BY <1>5, <1>6, <2>2 DEF Free, Unassigned
      <3>2. assignments[o].route \in Routes \ {r}
        BY <1>1, <3>1 DEF Assigned
      <3> QED
        BY <1>1, <1>2, <3>1, <3>2 DEF ReservationsMatchStops
    <2> QED
      BY <2>1, <2>2
  <1>7. ASSUME NEW q \in Routes, routes'[q].status # "annullato",
               NEW s \in routes'[q].stops, NEW o \in s
        PROVE  assignments'[o].route = q /\ assignments'[o].key = s
    <2>1. CASE q = r
      <3>1. s \in stops /\ o \in wanted
        BY <1>2, <1>7, <2>1 DEF Wanted
      <3>2. StopOf(stops, o) = s
        BY <1>1, <1>4, <1>7, <3>1 DEF Disjoint
      <3> QED
        BY <1>4, <2>1, <3>1, <3>2
    <2>2. CASE q # r
      <3>1. assignments[o].route = q /\ assignments[o].key = s
        BY <1>1, <1>2, <1>7, <2>2 DEF ReservationsMatchStops
      <3>2. o \in Orders
        BY <1>1, <1>2, <1>7, <2>2 DEF Route, Stops
      <3>3. o \notin wanted /\ o \notin Assigned(r)
        BY <1>3, <2>2, <3>1, ConstantsAssumption DEF Free, Assigned
      <3> QED
        BY <1>5, <3>1, <3>2, <3>3
    <2> QED
      BY <2>1, <2>2
  <1> QED
    BY <1>6, <1>7 DEF ReservationsMatchStops

(* Planning is the only thing that changes a request.                      *)
LEMMA RequestsKept ==
  ASSUME Desk \/ Execution \/ PlanChange \/ UNCHANGED vars
  PROVE  UNCHANGED requests
  <1>1. CASE Desk
    BY <1>1 DEF Desk, UpdateOrder, VerifyAddress, Transition
  <1>2. ASSUME NEW r \in Routes, NEW s, NEW phase, CloseDelivery(r, s, phase)
        PROVE  UNCHANGED requests
    BY <1>2 DEF CloseDelivery
  <1>3. ASSUME NEW r \in Routes, NEW s,
               \/ ProgramRoute(r) \/ StartRoute(r) \/ CompleteRoute(r) \/ CancelRoute(r)
               \/ AnnotateDelivery(r, s)
        PROVE  UNCHANGED requests
    BY <1>3 DEF ProgramRoute, StartRoute, CompleteRoute, CancelRoute, AnnotateDelivery
  <1>4. CASE Execution
    BY <1>2, <1>3, <1>4 DEF Execution
  <1>5. CASE PlanChange \/ UNCHANGED vars
    BY <1>5 DEF PlanChange, vars
  <1> QED
    BY <1>1, <1>4, <1>5

(* A request keeps the stops it was validated with.                        *)
LEMMA RequestStops ==
  ASSUME StopInv, [Next]_vars
  PROVE  \A p \in Planners : Disjoint(requests'[p].stops)
  <1>types. /\ requests \in [Planners -> Request]
            /\ \A p \in Planners : Disjoint(requests[p].stops)
    BY DEF StopInv, FollowInv, TypeInv, TypeOK
  <1>0. Disjoint({})
    BY DEF Disjoint
  <1>1. ASSUME NEW p \in Planners, NEW route \in Routes \cup {NoRoute}, NEW stops \in RowSets,
               NEW uses \in SUBSET Resources, NEW held \in BOOLEAN,
               ValidatePlan(p, route, stops, uses, held)
        PROVE \A q \in Planners : Disjoint(requests'[q].stops)
    <2>1. Disjoint(stops)
      BY <1>1 DEF ValidatePlan, Compatible, Disjoint
    <2> QED
      BY <1>1, <1>types, <2>1 DEF ValidatePlan
  <1>2. ASSUME NEW p \in Planners, AbandonPlan(p)
        PROVE \A q \in Planners : Disjoint(requests'[q].stops)
    BY <1>0, <1>2, <1>types DEF AbandonPlan, Idle
  <1>3. ASSUME NEW p \in Planners, NEW r \in Routes, SaveRoute(p, r)
        PROVE \A q \in Planners : Disjoint(requests'[q].stops)
    <2>1. PICK next \in AfterSave(p, r) : requests' = [requests EXCEPT ![p] = next]
      BY <1>3 DEF SaveRoute
    <2>2. requests[p].phase \in {"validated", "retry", "restore"}
      BY <1>3, <1>types DEF SaveRoute, Request
    <2>3. next = Idle \/ \E phase, kept, n : next = FollowUp(p, r, phase, kept, n)
      BY <2>2 DEF AfterSave
    <2>4. next.stops \in {{}, requests[p].stops}
      BY <2>3 DEF Idle, FollowUp
    <2> QED
      BY <1>0, <1>types, <2>1, <2>4
  <1>4. CASE UNCHANGED requests
    BY <1>4, <1>types
  <1>5. CASE Planning
    <2>1. ASSUME NEW p \in Planners, RereadRoute(p)
          PROVE  \A q \in Planners : Disjoint(requests'[q].stops)
      <3>1. requests[p] \in Request
        BY <1>types
      <3>2. \A q \in Planners : requests'[q].stops = requests[q].stops
        BY <1>types, <2>1, <3>1 DEF RereadRoute, Request
      <3> QED
        BY <1>types, <3>2
    <2> QED
      BY <1>1, <1>2, <1>3, <1>5, <2>1 DEF Planning
  <1> QED
    BY <1>4, <1>5, RequestsKept DEF Next

(* A cancellation keeps the reservations and the stops together.            *)
LEMMA CancelStops ==
  ASSUME StopInv, NEW r \in Routes, CancelRoute(r)
  PROVE  ReservationsMatchStops'
  <1>1. /\ ReservationsMatchStops
        /\ \A o \in Orders : Free(o) \/ assignments[o].route \in Routes
        /\ \A q \in Routes : routes[q] \in Route
    BY FollowFacts DEF StopInv
  <1>2. /\ \A q \in Routes : routes'[q].stops = routes[q].stops
        /\ \A q \in Routes \ {r} : routes'[q] = routes[q]
        /\ routes'[r].status = "annullato"
    BY <1>1 DEF CancelRoute, StopInv, FollowInv, TypeInv, TypeOK, Route
  <1>3. \A o \in Orders : \/ assignments'[o] = assignments[o]
                          \/ assignments'[o] = Unassigned /\ assignments[o].route = r
    BY DEF CancelRoute, Assigned
  <1>4. \A o \in Orders : ~Free(o)' => assignments'[o] = assignments[o] /\ ~Free(o)
    BY <1>3 DEF Free, Unassigned
  <1>5. ASSUME NEW q \in Routes, routes'[q].status # "annullato",
               NEW s \in routes'[q].stops, NEW o \in s
        PROVE  assignments'[o].route = q /\ assignments'[o].key = s
    <2>1. q # r /\ s \in routes[q].stops /\ routes[q].status # "annullato"
      BY <1>2, <1>5
    <2>2. assignments[o].route = q /\ assignments[o].key = s
      BY <1>1, <1>5, <2>1 DEF ReservationsMatchStops
    <2>3. o \in Orders
      BY <1>1, <1>5, <2>1 DEF Route, Stops
    <2> QED
      BY <1>3, <2>1, <2>2, <2>3
  <1> QED
    BY <1>1, <1>2, <1>4, <1>5 DEF ReservationsMatchStops

(* Every step keeps the stops and the reservations together.               *)
LEMMA StopStep == StopInv /\ [Next]_vars => StopInv'
  <1> SUFFICES ASSUME StopInv, [Next]_vars PROVE StopInv'
    OBVIOUS
  <1>facts. /\ FollowInv /\ TypeOK /\ ReservationsMatchStops
            /\ routes \in [Routes -> Route]
            /\ \A o \in Orders : Free(o) \/ assignments[o].route \in Routes
    BY FollowFacts DEF StopInv, FollowInv, TypeInv, TypeOK
  <1>follow. FollowInv'
    BY FollowStep DEF StopInv
  <1>disjoint. \A p \in Planners : Disjoint(requests'[p].stops)
    BY RequestStops
  (* A route whose row changes, but not its stops, and not from cancelled. *)
  <1>row. ASSUME NEW r \in Routes, NEW row, routes' = [routes EXCEPT ![r] = row],
                 row.stops = routes[r].stops, routes[r].status # "annullato", UNCHANGED assignments
          PROVE  ReservationsMatchStops'
    BY <1>facts, <1>row, StopsKept
  <1>same. ASSUME UNCHANGED <<assignments, routes>> PROVE ReservationsMatchStops'
    BY <1>facts, <1>same, StopsKept
  <1>1. ASSUME NEW r \in Routes, ProgramRoute(r) PROVE ReservationsMatchStops'
    <2>1. [routes[r] EXCEPT !.status = "programmato"].stops = routes[r].stops
      BY <1>facts DEF Route
    <2> QED
      BY <1>1, <1>row, <2>1 DEF ProgramRoute
  <1>2. ASSUME NEW r \in Routes, StartRoute(r) PROVE ReservationsMatchStops'
    BY <1>2, <1>row, <1>facts, StartedStops DEF StartRoute, MayStart
  <1>3. ASSUME NEW r \in Routes, NEW s \in routes[r].stops, AnnotateDelivery(r, s)
        PROVE ReservationsMatchStops'
    BY <1>3, <1>row, <1>facts, StartedStops DEF AnnotateDelivery, MayStart
  <1>4. ASSUME NEW r \in Routes, NEW s \in routes[r].stops, NEW phase \in {"delivered", "missed"},
               CloseDelivery(r, s, phase)
        PROVE ReservationsMatchStops'
    <2> DEFINE recorded == IF phase = "delivered"
                           THEN [StartedRoute(r) EXCEPT !.completed = @ \cup {s}]
                           ELSE [StartedRoute(r) EXCEPT !.missed = @ \cup {s}]
    <2>1. StartedRoute(r) \in Route /\ StartedRoute(r).stops = routes[r].stops
      BY <1>facts, StartedType, StartedStops
    <2>2. /\ recorded.stops = routes[r].stops
          /\ [recorded EXCEPT !.status = "completato"].stops = routes[r].stops
      BY <2>1 DEF Route
    <2>3. routes' \in {[routes EXCEPT ![r] = recorded],
                       [routes EXCEPT ![r] = [recorded EXCEPT !.status = "completato"]]}
      BY <1>4 DEF CloseDelivery
    <2>4. UNCHANGED assignments /\ routes[r].status # "annullato"
      BY <1>4 DEF CloseDelivery, MayStart
    <2> HIDE DEF recorded
    <2> QED
      BY <1>row, <2>2, <2>3, <2>4
  <1>5. ASSUME NEW r \in Routes, CompleteRoute(r) PROVE ReservationsMatchStops'
    <2>1. StartedRoute(r) \in Route /\ StartedRoute(r).stops = routes[r].stops
      BY <1>facts, StartedType, StartedStops
    <2>2. [StartedRoute(r) EXCEPT !.status = "completato"].stops = routes[r].stops
      BY <2>1 DEF Route
    <2> QED
      BY <1>5, <1>row, <1>same, <2>2 DEF CompleteRoute, MayStart
  <1>6. ReservationsMatchStops'
    BY <1>same, <1>1, <1>2, <1>3, <1>4, <1>5, SaveStops, CancelStops
    DEF Next, Desk, Planning, Execution, PlanChange, vars, UpdateOrder, VerifyAddress, Transition,
        ValidatePlan, AbandonPlan, RereadRoute
  <1> QED
    BY <1>follow, <1>disjoint, <1>6 DEF StopInv

(* Every reserved order is in the stop its key names, and every stop of a  *)
(* route that is not cancelled has its orders reserved to it, also after   *)
(* a save that came too late for the events of its route.                  *)
THEOREM ReservationsMatch == Spec => []ReservationsMatchStops
  <1>0. Init => FollowInv
    BY InitType, ConstantsAssumption
    DEF Init, FollowInv, RowsRead, UsageRuns, Idle, OrdersFollowRoutes, FitsRoute, Free, AtDesk,
        Unassigned, Editable
  <1>1. Init => StopInv
    BY <1>0
    DEF Init, StopInv, Disjoint, Idle, ReservationsMatchStops, Free, Unassigned
  <1>2. StopInv /\ [Next]_vars => StopInv'
    BY StopStep
  <1>3. StopInv => ReservationsMatchStops
    BY DEF StopInv
  <1> QED
    BY <1>1, <1>2, <1>3, PTL DEF Spec

-----------------------------------------------------------------------------
(* The address the driver sees, also when a session keeps old route rows.  *)

(* What a request knows of an order is old, or exact.                      *)
Known(table, references, o) ==
  /\ references[o].version <= table[o].version
  /\ references[o].version = table[o].version => references[o].address = table[o].address

AddressInv ==
  /\ TypeInv
  /\ \A o \in Orders :
       /\ orders[o].version > 0
       /\ orders[o].status = "pronto" \/ ~Free(o) => orders[o].verified
       /\ ~Free(o) => assignments[o].address = orders[o].address
       /\ \A p \in Planners :
            Known(orders, requests[p].rows, o) /\ Known(orders, requests[p].kept, o)

(* A route moves an order without touching what the desk wrote.            *)
LEMMA MovedKeeps ==
  ASSUME NEW order \in Order, NEW status, NEW delivery
  PROVE  /\ Moved(order, status, delivery).address = order.address
         /\ Moved(order, status, delivery).verified = order.verified
         /\ Moved(order, status, delivery).version = order.version + 1
  <1> DEFINE first == [order EXCEPT !.status = status]
             second == [first EXCEPT !.delivery = delivery]
  <1>1. /\ first.address = order.address /\ first.verified = order.verified
        /\ first.version = order.version /\ DOMAIN first = DOMAIN order
    BY DEF Order
  <1>2. /\ second.address = order.address /\ second.verified = order.verified
        /\ second.version = order.version /\ DOMAIN second = DOMAIN order
    BY <1>1 DEF Order
  <1> QED
    BY <1>2 DEF Moved, Order

(* The columns that a correction writes.                                   *)
LEMMA CorrectedFields ==
  ASSUME NEW order \in Order, NEW status, NEW address, NEW verified
  PROVE  /\ Corrected(order, status, address, verified).status = status
         /\ Corrected(order, status, address, verified).verified = verified
         /\ Corrected(order, status, address, verified).version = order.version + 1
  <1> DEFINE first == [order EXCEPT !.status = status]
             second == [first EXCEPT !.address = address]
             third == [second EXCEPT !.verified = verified]
  <1>1. first.status = status /\ first.version = order.version /\ DOMAIN first = DOMAIN order
    BY DEF Order
  <1>2. second.status = status /\ second.version = order.version /\ DOMAIN second = DOMAIN order
    BY <1>1 DEF Order
  <1>3. /\ third.status = status /\ third.version = order.version /\ third.verified = verified
        /\ DOMAIN third = DOMAIN order
    BY <1>2 DEF Order
  <1> QED
    BY <1>3 DEF Corrected, Order

(* What an event may make of an order row: the desk's columns stay, and    *)
(* only an order of the route may become ready.                            *)
Carries(before, after, onRoute) ==
  /\ after.address = before.address
  /\ after.verified = before.verified
  /\ after.version \in Nat /\ after.version >= before.version
  /\ after.status = "pronto" => onRoute \/ before.status = "pronto"

(* A synchronisation leaves the columns of the desk as they are.           *)
LEMMA SyncCarries ==
  ASSUME NEW table \in [Orders -> Order], NEW members, NEW phase \in Phases, NEW o \in Orders
  PROVE  Carries(table[o], SyncOrders(table, members, phase)[o], o \in members)
  <1>1. table[o] \in Order
    OBVIOUS
  <1>2. Synced(table[o], phase) \in {table[o], Moved(table[o], Target(phase).status,
                                                     Target(phase).delivery)}
    BY DEF Synced
  <1>3. /\ Synced(table[o], phase).address = table[o].address
        /\ Synced(table[o], phase).verified = table[o].verified
        /\ Synced(table[o], phase).version \in {table[o].version, table[o].version + 1}
    BY <1>1, <1>2, MovedKeeps
  <1>4. table[o].version \in Nat
    BY <1>1 DEF Order
  <1> QED
    BY <1>3, <1>4 DEF Carries, SyncOrders

(* A step that only moves orders, and reserves none.                       *)
LEMMA EventAddress ==
  ASSUME AddressInv, TypeInv', UNCHANGED requests,
         \A o \in Orders : Carries(orders[o], orders'[o], ~Free(o)),
         \A o \in Orders : assignments'[o] \in {assignments[o], Unassigned}
  PROVE  AddressInv'
  <1>1. \A o \in Orders : orders[o].version \in Nat
    BY DEF AddressInv, TypeInv, TypeOK, Order
  <1>2. \A o \in Orders : ~Free(o)' => ~Free(o) /\ assignments'[o] = assignments[o]
    BY DEF Free, Unassigned
  <1>3. ASSUME NEW p \in Planners, NEW o \in Orders
        PROVE Known(orders', requests[p].rows, o) /\ Known(orders', requests[p].kept, o)
    <2>1. requests[p].rows[o].version \in Nat /\ requests[p].kept[o].version \in Nat
      BY DEF AddressInv, TypeInv, TypeOK, Request, References
    <2>2. Known(orders, requests[p].rows, o) /\ Known(orders, requests[p].kept, o)
      BY DEF AddressInv
    <2>3. orders'[o].version >= orders[o].version /\ orders'[o].address = orders[o].address
          /\ orders'[o].version \in Nat
      BY DEF Carries
    <2> QED
      BY <1>1, <2>1, <2>2, <2>3 DEF Known
  <1>4. ASSUME NEW o \in Orders
        PROVE /\ orders'[o].version > 0
              /\ orders'[o].status = "pronto" \/ ~Free(o)' => orders'[o].verified
              /\ ~Free(o)' => assignments'[o].address = orders'[o].address
    BY <1>1, <1>2 DEF AddressInv, Carries
  <1> QED
    BY <1>3, <1>4 DEF AddressInv

(* Old references stay old or exact when the versions of the orders grow.  *)
LEMMA KnownKept ==
  ASSUME AddressInv, NEW o \in Orders, NEW refs \in References, Known(orders, refs, o),
         orders'[o].version \in Nat,
         \/ orders'[o] = orders[o]
         \/ orders'[o].version >= orders[o].version /\ orders'[o].address = orders[o].address
         \/ orders'[o].version > orders[o].version
  PROVE  Known(orders', refs, o)
  <1>1. orders[o].version \in Nat /\ refs[o].version \in Nat
    BY DEF AddressInv, TypeInv, TypeOK, Order, References
  <1> QED
    BY <1>1 DEF Known

(* A correction by the desk.                                               *)
LEMMA DeskAddress ==
  ASSUME AddressInv, TypeInv', NEW o \in Orders, Free(o), UNCHANGED <<assignments, requests>>,
         NEW status, NEW address, NEW verified, status = "pronto" => verified,
         orders' = [orders EXCEPT ![o] = Corrected(@, status, address, verified)]
  PROVE  AddressInv'
  <1>1. /\ orders \in [Orders -> Order] /\ requests \in [Planners -> Request]
        /\ \A q \in Orders : orders[q].version \in Nat /\ orders'[q].version \in Nat
    BY DEF AddressInv, TypeInv, TypeOK, Order
  <1>2. /\ orders'[o].status = status /\ orders'[o].verified = verified
        /\ orders'[o].version = orders[o].version + 1
    BY <1>1, CorrectedFields
  <1>3. \A q \in Orders \ {o} : orders'[q] = orders[q]
    BY <1>1
  <1>4. ASSUME NEW p \in Planners, NEW q \in Orders
        PROVE Known(orders', requests'[p].rows, q) /\ Known(orders', requests'[p].kept, q)
    <2>1. requests[p].rows \in References /\ requests[p].kept \in References
      BY <1>1 DEF Request
    <2>2. Known(orders, requests[p].rows, q) /\ Known(orders, requests[p].kept, q)
      BY DEF AddressInv
    <2>3. orders'[q] = orders[q] \/ orders'[q].version > orders[q].version
      BY <1>1, <1>2, <1>3
    <2> QED
      BY <1>1, <2>1, <2>2, <2>3, KnownKept
  <1>5. ASSUME NEW q \in Orders
        PROVE /\ orders'[q].version > 0
              /\ orders'[q].status = "pronto" \/ ~Free(q)' => orders'[q].verified
              /\ ~Free(q)' => assignments'[q].address = orders'[q].address
    BY <1>1, <1>2, <1>3 DEF AddressInv, Free
  <1> QED
    BY <1>4, <1>5 DEF AddressInv

(* A save copies the address the order has now: the references it carries  *)
(* have the order's version, so they are exact.                            *)
LEMMA SaveAddress ==
  ASSUME AddressInv, TypeInv', NEW p \in Planners, NEW r \in Routes, SaveRoute(p, r)
  PROVE  AddressInv'
  <1> DEFINE wanted == Wanted(requests[p].stops)
  <1>1. /\ orders \in [Orders -> Order] /\ requests \in [Planners -> Request]
        /\ requests[p].stops \in Stops
        /\ \A q \in Orders : orders[q] \in Order /\ orders[q].version \in Nat
                             /\ orders'[q].version \in Nat
    BY DEF AddressInv, TypeInv, TypeOK, Order, Request
  <1>2. /\ Carried(p) \in References /\ Renewed(p) \in References
        /\ requests[p].rows \in References /\ requests[p].kept \in References
    BY <1>1, ReferencesType DEF AddressInv, TypeInv, Request
  <1>3. \A o \in Orders : Known(orders, Carried(p), o)
    BY DEF AddressInv, Carried
  <1>4. \A o \in wanted : /\ o \in Orders
                          /\ orders[o].status = "pronto" \/ ~Free(o)
                          /\ Carried(p)[o].version = orders[o].version
                          /\ Carried(p)[o].address = orders[o].address
    BY <1>1, <1>3 DEF SaveRoute, Acceptable, Plannable, Known, Wanted, Stops
  <1>5. /\ orders' = Reserved(p, r)
        /\ assignments' = Reservations(p, r)
    BY DEF SaveRoute
  <1>6. \A o \in Assigned(r) : o \in Orders /\ ~Free(o)
    BY ConstantsAssumption DEF Assigned, Free
  <1>7. ASSUME NEW o \in Orders
        PROVE /\ orders'[o].address = orders[o].address
              /\ orders'[o].verified = orders[o].verified
              /\ orders'[o].version = IF o \in wanted \/ o \in Assigned(r)
                                      THEN orders[o].version + 1 ELSE orders[o].version
              /\ orders'[o].status = "pronto" => orders[o].status = "pronto" \/ ~Free(o)
    <2>1. /\ Touched(orders[o]).address = orders[o].address
          /\ Touched(orders[o]).verified = orders[o].verified
          /\ Touched(orders[o]).status = orders[o].status
          /\ Touched(orders[o]).version = orders[o].version + 1
      BY <1>1 DEF Touched, Order
    <2> QED
      BY <1>1, <1>4, <1>5, <1>6, <2>1, MovedKeeps, MovedFields DEF Reserved
  <1>8. ASSUME NEW o \in Orders
        PROVE /\ orders'[o].version > 0
              /\ orders'[o].status = "pronto" \/ ~Free(o)' => orders'[o].verified
              /\ ~Free(o)' => assignments'[o].address = orders'[o].address
    <2>1. CASE o \in wanted
      BY <1>1, <1>4, <1>5, <1>7, <2>1 DEF AddressInv, Reservations
    <2>2. CASE o \notin wanted
      <3>1. ~Free(o)' => ~Free(o) /\ assignments'[o] = assignments[o]
        BY <1>5, <2>2 DEF Reservations, Free, Unassigned
      <3> QED
        BY <1>1, <1>7, <3>1 DEF AddressInv
    <2> QED
      BY <2>1, <2>2
  <1>9. ASSUME NEW o \in Orders, NEW refs \in References, Known(orders, refs, o)
        PROVE Known(orders', refs, o)
    BY <1>1, <1>7, <1>9, KnownKept
  <1>10. \A o \in Orders : Known(orders', Renewed(p), o) /\ Known(orders', NoReferences, o)
    <2>1. ASSUME NEW o \in Orders, o \in wanted PROVE Known(orders', Renewed(p), o)
      <3>1. /\ Renewed(p)[o].version = Carried(p)[o].version + 1
            /\ Renewed(p)[o].address = Carried(p)[o].address
        BY <1>2, <2>1 DEF Renewed, References
      <3> QED
        BY <1>1, <1>4, <1>7, <2>1, <3>1 DEF Known
    <2>2. ASSUME NEW o \in Orders PROVE Known(orders', NoReferences, o)
      BY <1>1, <1>8, <2>2 DEF Known, NoReferences
    <2>3. \A o \in Orders \ wanted : Renewed(p)[o] = NoReferences[o]
      BY DEF Renewed
    <2> QED
      BY <2>1, <2>2, <2>3 DEF Known
  <1>11. PICK next \in AfterSave(p, r) : requests' = [requests EXCEPT ![p] = next]
    BY DEF SaveRoute
  <1>12. /\ next.rows \in {NoReferences, requests[p].rows}
         /\ next.kept \in {NoReferences, requests[p].kept, Renewed(p)}
    <2>1. requests[p].phase \in {"validated", "retry", "restore"}
      BY <1>1 DEF SaveRoute, Request
    <2>2. next = Idle \/ \E phase, n : \E kept \in {Renewed(p), requests[p].kept} :
                           next = FollowUp(p, r, phase, kept, n)
      BY <2>1 DEF AfterSave
    <2> QED
      BY <2>2 DEF Idle, FollowUp
  <1>13. ASSUME NEW q \in Planners, NEW o \in Orders
         PROVE Known(orders', requests'[q].rows, o) /\ Known(orders', requests'[q].kept, o)
    <2>1. /\ requests[q].rows \in References /\ requests[q].kept \in References
          /\ Known(orders, requests[q].rows, o) /\ Known(orders, requests[q].kept, o)
      BY <1>1 DEF AddressInv, Request
    <2>2. Known(orders', requests[q].rows, o) /\ Known(orders', requests[q].kept, o)
      BY <1>9, <2>1
    <2>3. CASE q = p
      BY <1>1, <1>10, <1>11, <1>12, <2>2, <2>3 DEF Known
    <2>4. CASE q # p
      BY <1>1, <1>11, <2>2, <2>4 DEF Known
    <2> QED
      BY <2>3, <2>4
  <1> QED
    BY <1>8, <1>13 DEF AddressInv

(* A started route carries its orders.                                     *)
LEMMA StartedCarries ==
  ASSUME TypeOK, NEW r \in Routes, NEW o \in Orders
  PROVE  Carries(orders[o], StartedOrders(r)[o], o \in Assigned(r))
  <1>1. orders \in [Orders -> Order] /\ orders[o].version \in Nat
    BY DEF TypeOK, Order
  <1>2. Carries(orders[o], SyncOrders(orders, Assigned(r), "started")[o], o \in Assigned(r))
    BY <1>1, SyncCarries DEF Phases
  <1>3. Carries(orders[o], orders[o], o \in Assigned(r))
    BY <1>1 DEF Carries
  <1> QED
    BY <1>2, <1>3 DEF StartedOrders

(* Every step keeps the address of an order that is on its way.            *)
LEMMA AddressStep == AddressInv /\ [Next]_vars => AddressInv'
  <1> SUFFICES ASSUME AddressInv, [Next]_vars PROVE AddressInv'
    OBVIOUS
  <1>type. TypeInv'
    BY TypeStep DEF AddressInv
  <1>facts. /\ TypeOK
            /\ orders \in [Orders -> Order]
            /\ requests \in [Planners -> Request]
            /\ \A o \in Orders : orders[o] \in Order /\ orders[o].version \in Nat
            /\ \A r \in Routes : \A o \in Assigned(r) : o \in Orders /\ ~Free(o)
    BY ConstantsAssumption DEF AddressInv, TypeInv, TypeOK, Order, Assigned, Free
  (* An event of one route that carries its orders on. *)
  <1>event. ASSUME NEW r \in Routes, UNCHANGED requests,
                   \A o \in Orders : Carries(orders[o], orders'[o], o \in Assigned(r)),
                   \A o \in Orders : assignments'[o] \in {assignments[o], Unassigned}
            PROVE  AddressInv'
    <2>1. \A o \in Orders : Carries(orders[o], orders'[o], ~Free(o))
      BY <1>event, <1>facts DEF Carries
    <2> QED
      BY <1>event, <1>type, <2>1, EventAddress
  <1>same. ASSUME UNCHANGED <<orders, assignments, requests>> PROVE AddressInv'
    BY <1>same, <1>type DEF AddressInv, Free
  <1>1. ASSUME NEW o \in Orders, NEW a \in Addresses, UpdateOrder(o, a) PROVE AddressInv'
    <2> DEFINE proved == orders[o].verified /\ a = orders[o].address
               status == IF proved THEN "pronto" ELSE "da_verificare"
    <2>1. orders' = [orders EXCEPT ![o] = Corrected(@, status, a, proved)]
      BY <1>1 DEF UpdateOrder
    <2>2. Free(o) /\ UNCHANGED <<assignments, requests>>
      BY <1>1 DEF UpdateOrder, MayEdit
    <2>3. status = "pronto" => proved
      OBVIOUS
    <2> HIDE DEF proved, status
    <2> QED
      BY <1>type, <2>1, <2>2, <2>3, DeskAddress
  <1>2. ASSUME NEW o \in Orders, VerifyAddress(o) PROVE AddressInv'
    <2>1. orders' = [orders EXCEPT ![o] = Corrected(@, "pronto", orders[o].address, TRUE)]
      BY <1>2 DEF VerifyAddress
    <2>2. Free(o) /\ UNCHANGED <<assignments, requests>>
      BY <1>2 DEF VerifyAddress, MayEdit
    <2> QED
      BY <1>type, <2>1, <2>2, DeskAddress
  <1>3. ASSUME NEW o \in Orders, NEW status \in Editable \cup {"annullato"}, Transition(o, status)
        PROVE AddressInv'
    <2>1. orders' = [orders EXCEPT ![o] =
                       Corrected(@, status, orders[o].address, orders[o].verified)]
      BY <1>3 DEF Transition
    <2>2. /\ Free(o) /\ UNCHANGED <<assignments, requests>>
          /\ status = "pronto" => orders[o].verified
      BY <1>3 DEF Transition, MayEdit
    <2> QED
      BY <1>type, <2>1, <2>2, DeskAddress
  <1>4. ASSUME NEW p \in Planners, NEW next, requests' = [requests EXCEPT ![p] = next],
               UNCHANGED <<orders, assignments>>,
               \A o \in Orders : Known(orders, next.rows, o) /\ Known(orders, next.kept, o)
        PROVE AddressInv'
    <2>1. \A q \in Planners : requests'[q] = IF q = p THEN next ELSE requests[q]
      BY <1>4, <1>facts
    <2>2. ASSUME NEW q \in Planners, NEW o \in Orders
          PROVE Known(orders', requests'[q].rows, o) /\ Known(orders', requests'[q].kept, o)
      BY <1>4, <2>1 DEF AddressInv
    <2> QED
      BY <1>4, <1>type, <2>2 DEF AddressInv, Free
  <1>5. \A o \in Orders : Known(orders, NoReferences, o)
    BY <1>facts DEF AddressInv, Known, NoReferences
  <1>6. ASSUME NEW p \in Planners, NEW route \in Routes \cup {NoRoute}, NEW stops \in RowSets,
               NEW uses \in SUBSET Resources, NEW held \in BOOLEAN,
               ValidatePlan(p, route, stops, uses, held)
        PROVE AddressInv'
    <2> DEFINE next == [phase |-> "validated", route |-> route, stops |-> stops, uses |-> uses,
                        rows |-> CurrentReferences(stops), kept |-> NoReferences,
                        seen |-> IF held THEN RowOf(routes[route]) ELSE NotHeld, attempts |-> 0]
    <2>1. requests' = [requests EXCEPT ![p] = next] /\ UNCHANGED <<orders, assignments>>
      BY <1>6 DEF ValidatePlan
    <2>2. \A o \in Orders : Known(orders, CurrentReferences(stops), o)
      BY <1>5, <1>facts DEF Known, CurrentReferences
    <2>3. \A o \in Orders : Known(orders, next.rows, o) /\ Known(orders, next.kept, o)
      BY <1>5, <2>2
    <2> HIDE DEF next
    <2> QED
      BY <1>4, <2>1, <2>3
  <1>7. ASSUME NEW p \in Planners, AbandonPlan(p) PROVE AddressInv'
    <2>1. \A o \in Orders : Known(orders, Idle.rows, o) /\ Known(orders, Idle.kept, o)
      BY <1>5 DEF Idle
    <2> QED
      BY <1>4, <1>7, <2>1 DEF AbandonPlan
  <1>8. ASSUME NEW r \in Routes, ProgramRoute(r) PROVE AddressInv'
    BY <1>8, <1>event, <1>facts, SyncCarries DEF ProgramRoute, Phases
  <1>9. ASSUME NEW r \in Routes, orders' = StartedOrders(r), UNCHANGED <<assignments, requests>>
        PROVE AddressInv'
    BY <1>9, <1>event, <1>facts, StartedCarries
  <1>10. ASSUME NEW r \in Routes, NEW members \in SUBSET Assigned(r),
                NEW phase \in Phases, NEW table, UNCHANGED <<assignments, requests>>,
                table \in [Orders -> Order],
                \A o \in Orders : Carries(orders[o], table[o], o \in Assigned(r))
         PROVE  \A o \in Orders :
                  Carries(orders[o], SyncOrders(table, members, phase)[o], o \in Assigned(r))
    <2> SUFFICES ASSUME NEW o \in Orders
                 PROVE Carries(orders[o], SyncOrders(table, members, phase)[o], o \in Assigned(r))
      OBVIOUS
    <2>1. Carries(table[o], SyncOrders(table, members, phase)[o], o \in members)
      BY <1>10, SyncCarries
    <2>2. Carries(orders[o], table[o], o \in Assigned(r)) /\ orders[o].version \in Nat
      BY <1>10, <1>facts
    <2> QED
      BY <2>1, <2>2 DEF Carries
  <1>11. ASSUME NEW r \in Routes, NEW s \in routes[r].stops, NEW phase \in {"delivered", "missed"},
                CloseDelivery(r, s, phase)
         PROVE AddressInv'
    <2> DEFINE members == {o \in Assigned(r) : assignments[o].key = s}
               synced == SyncOrders(StartedOrders(r), members, phase)
               last == SyncOrders(synced, Assigned(r), "completed")
    <2>1. UNCHANGED <<assignments, requests>> /\ (orders' = synced \/ orders' = last)
      BY <1>11 DEF CloseDelivery
    <2>2. StartedOrders(r) \in [Orders -> Order]
      BY <1>facts, StartedType
    <2>3. members \subseteq Assigned(r) /\ phase \in Phases /\ "completed" \in Phases
      BY DEF Phases
    <2>4. synced \in [Orders -> Order]
      BY <2>2, <2>3, SyncOrdersType
    <2> HIDE DEF members
    <2>5. \A o \in Orders : Carries(orders[o], synced[o], o \in Assigned(r))
      BY <1>10, <1>facts, <2>1, <2>2, <2>3, StartedCarries
    <2> HIDE DEF synced
    <2>6. \A o \in Orders : Carries(orders[o], last[o], o \in Assigned(r))
      BY <1>10, <2>1, <2>3, <2>4, <2>5
    <2> QED
      BY <1>event, <2>1, <2>5, <2>6
  <1>12. ASSUME NEW r \in Routes, CompleteRoute(r) PROVE AddressInv'
    <2> DEFINE last == SyncOrders(StartedOrders(r), Assigned(r), "completed")
    <2>1. UNCHANGED <<assignments, requests>> /\ (orders' = orders \/ orders' = last)
      BY <1>12 DEF CompleteRoute
    <2>2. StartedOrders(r) \in [Orders -> Order] /\ "completed" \in Phases
      BY <1>facts, StartedType DEF Phases
    <2>3. \A o \in Orders : Carries(orders[o], last[o], o \in Assigned(r))
      BY <1>10, <1>facts, <2>1, <2>2, StartedCarries
    <2> HIDE DEF last
    <2> QED
      BY <1>event, <1>same, <2>1, <2>3
  <1>13. ASSUME NEW r \in Routes, CancelRoute(r) PROVE AddressInv'
    <2>1. /\ UNCHANGED requests
          /\ orders' = SyncOrders(orders, Assigned(r), "cancelled")
          /\ \A o \in Orders : assignments'[o] \in {assignments[o], Unassigned}
      BY <1>13 DEF CancelRoute
    <2>2. \A o \in Orders : Carries(orders[o], orders'[o], o \in Assigned(r))
      BY <1>facts, <2>1, SyncCarries DEF Phases
    <2> QED
      BY <1>event, <2>1, <2>2
  <1>14. ASSUME NEW p \in Planners, NEW r \in Routes, SaveRoute(p, r) PROVE AddressInv'
    BY <1>14, <1>type, SaveAddress
  <1>15. ASSUME Desk PROVE AddressInv'
    BY <1>15, <1>1, <1>2, <1>3 DEF Desk
  <1>16. ASSUME Planning PROVE AddressInv'
    <2>1. ASSUME NEW p \in Planners, RereadRoute(p) PROVE AddressInv'
      <3> DEFINE next == [requests[p] EXCEPT !.seen = RowOf(routes[requests[p].route])]
      <3>1. next.rows = requests[p].rows /\ next.kept = requests[p].kept
        BY <1>facts DEF Request
      <3>2. requests' = [requests EXCEPT ![p] = next] /\ UNCHANGED <<orders, assignments>>
        BY <2>1 DEF RereadRoute
      <3>3. \A o \in Orders : Known(orders, next.rows, o) /\ Known(orders, next.kept, o)
        BY <3>1 DEF AddressInv
      <3> HIDE DEF next
      <3> QED
        BY <1>4, <3>2, <3>3
    <2> QED
      BY <1>16, <1>6, <1>7, <1>14, <2>1 DEF Planning
  <1>17. ASSUME Execution PROVE AddressInv'
    BY <1>17, <1>8, <1>9, <1>11, <1>12, <1>13 DEF Execution, StartRoute, AnnotateDelivery
  <1> QED
    BY <1>same, <1>15, <1>16, <1>17 DEF Next, PlanChange, vars

(* The driver is always sent to the verified address the order has now,    *)
(* also when sessions keep old route rows: the versions alone protect it.  *)
THEOREM DriverAddress == Spec => []DriverSeesVerifiedAddress
  <1>1. Init => AddressInv
    <2> SUFFICES ASSUME Init PROVE AddressInv
      OBVIOUS
    <2>1. ASSUME NEW o \in Orders
          PROVE  orders[o].version = 1 /\ orders[o].status = "nuovo" /\ Free(o)
      <3>1. PICK a \in Addresses :
              orders[o] = [status |-> "nuovo", delivery |-> "not_assigned", version |-> 1,
                           address |-> a, verified |-> FALSE]
        BY DEF Init
      <3>2. assignments[o] = Unassigned
        BY DEF Init
      <3> QED
        BY <3>1, <3>2 DEF Free, Unassigned
    <2>2. \A p \in Planners : requests[p].rows = NoReferences /\ requests[p].kept = NoReferences
      BY DEF Init, Idle
    <2>3. \A o \in Orders : NoReferences[o].version = 0
      BY DEF NoReferences
    <2> QED
      BY <2>1, <2>2, <2>3, InitType DEF AddressInv, Known
  <1>2. AddressInv /\ [Next]_vars => AddressInv'
    BY AddressStep
  <1>3. AddressInv => DriverSeesVerifiedAddress
    BY DEF AddressInv, DriverSeesVerifiedAddress
  <1> QED
    BY <1>1, <1>2, <1>3, PTL DEF Spec

-----------------------------------------------------------------------------
(* Versions (also when sessions keep old route rows).                      *)

(* A row is the same row, or a newer one.                                  *)
Advances(before, after) == after = before \/ after.version > before.version

(* A synchronisation changes the version with the state.                   *)
LEMMA SyncAdvances ==
  ASSUME NEW table \in [Orders -> Order], NEW members, NEW phase \in Phases, NEW o \in Orders
  PROVE  Advances(table[o], SyncOrders(table, members, phase)[o])
  <1>1. table[o] \in Order /\ table[o].version \in Nat
    BY DEF Order
  <1>2. Synced(table[o], phase) \in {table[o], Moved(table[o], Target(phase).status,
                                                     Target(phase).delivery)}
    BY DEF Synced
  <1>3. Advances(table[o], Synced(table[o], phase))
    BY <1>1, <1>2, MovedKeeps DEF Advances
  <1> QED
    BY <1>3 DEF SyncOrders, Advances

(* Two events after each other.                                            *)
LEMMA AdvancesTwice ==
  ASSUME NEW before \in Order, NEW between \in Order, NEW after \in Order,
         Advances(before, between), Advances(between, after)
  PROVE  Advances(before, after)
  BY DEF Advances, Order

(* So does a start.                                                        *)
LEMMA StartAdvances ==
  ASSUME TypeOK, NEW r \in Routes
  PROVE  \A o \in Orders : Advances(orders[o], StartedOrders(r)[o])
  BY SyncAdvances DEF StartedOrders, TypeOK, Phases, Advances

(* An event after the start of the route.                                  *)
LEMMA StartedEventAdvances ==
  ASSUME TypeOK, NEW r \in Routes, NEW members, NEW phase \in Phases
  PROVE  \A o \in Orders :
           Advances(orders[o], SyncOrders(StartedOrders(r), members, phase)[o])
  <1> DEFINE synced == SyncOrders(StartedOrders(r), members, phase)
  <1>1. /\ orders \in [Orders -> Order]
        /\ StartedOrders(r) \in [Orders -> Order]
    BY StartedType DEF TypeOK
  <1>2. synced \in [Orders -> Order]
    BY <1>1, SyncOrdersType
  <1>3. \A o \in Orders : /\ Advances(orders[o], StartedOrders(r)[o])
                          /\ Advances(StartedOrders(r)[o], synced[o])
    BY <1>1, StartAdvances, SyncAdvances
  <1> HIDE DEF synced
  <1>4. \A o \in Orders : Advances(orders[o], synced[o])
    BY <1>1, <1>2, <1>3, AdvancesTwice
  <1> QED
    BY <1>4 DEF synced

Versioned ==
  \A o \in Orders : orders'[o] # orders[o] \/ assignments'[o] # assignments[o]
                      => orders'[o].version > orders[o].version

(* A correction by the desk.                                               *)
LEMMA DeskVersions ==
  ASSUME TypeOK, NEW o \in Orders, UNCHANGED assignments,
         NEW status, NEW address, NEW verified,
         orders' = [orders EXCEPT ![o] = Corrected(@, status, address, verified)]
  PROVE  Versioned
  <1>1. orders[o] \in Order /\ orders[o].version \in Nat
    BY DEF TypeOK, Order
  <1>2. orders'[o].version = orders[o].version + 1
    BY <1>1, CorrectedFields DEF TypeOK
  <1> QED
    BY <1>1, <1>2 DEF Versioned, TypeOK

(* A save gives a new version to each order it takes or gives back.        *)
LEMMA SaveVersions ==
  ASSUME TypeOK, NEW p \in Planners, NEW r \in Routes, SaveRoute(p, r)
  PROVE  Versioned
  <1> DEFINE wanted == Wanted(requests[p].stops)
  <1>1. orders' = Reserved(p, r) /\ assignments' = Reservations(p, r)
    BY DEF SaveRoute
  <1>2. \A o \in Orders : orders[o] \in Order /\ orders[o].version \in Nat
    BY DEF TypeOK, Order
  <1>3. \A o \in Orders : o \in wanted \/ o \in Assigned(r) =>
          orders'[o].version = orders[o].version + 1
    <2>1. \A o \in Orders : Touched(orders[o]).version = orders[o].version + 1
      BY <1>2 DEF Touched, Order
    <2> QED
      BY <1>1, <1>2, <2>1, MovedKeeps DEF Reserved
  <1>4. \A o \in Orders : o \notin wanted /\ o \notin Assigned(r) =>
          orders'[o] = orders[o] /\ assignments'[o] = assignments[o]
    BY <1>1 DEF Reserved, Reservations
  <1> QED
    BY <1>2, <1>3, <1>4 DEF Versioned

(* So does every step.                                                     *)
LEMMA VersionStep == TypeOK /\ Next => Versioned
  <1> SUFFICES ASSUME TypeOK, Next PROVE Versioned
    OBVIOUS
  <1>event. ASSUME UNCHANGED assignments, \A o \in Orders : Advances(orders[o], orders'[o])
            PROVE  Versioned
    BY <1>event DEF Versioned, Advances
  <1>same. ASSUME UNCHANGED <<orders, assignments>> PROVE Versioned
    BY <1>same DEF Versioned
  <1>1. ASSUME NEW o \in Orders, NEW a \in Addresses, UpdateOrder(o, a) PROVE Versioned
    BY <1>1, DeskVersions DEF UpdateOrder
  <1>2. ASSUME NEW o \in Orders, VerifyAddress(o) PROVE Versioned
    <2>1. /\ orders' = [orders EXCEPT ![o] = Corrected(@, "pronto", orders[o].address, TRUE)]
          /\ UNCHANGED assignments
      BY <1>2 DEF VerifyAddress
    <2> QED
      BY <2>1, DeskVersions
  <1>3. ASSUME NEW o \in Orders, NEW status, Transition(o, status) PROVE Versioned
    <2>1. /\ orders' = [orders EXCEPT ![o] =
                          Corrected(@, status, orders[o].address, orders[o].verified)]
          /\ UNCHANGED assignments
      BY <1>3 DEF Transition
    <2> QED
      BY <2>1, DeskVersions
  <1>4. CASE Planning
    BY <1>4, <1>same, SaveVersions DEF Planning, ValidatePlan, AbandonPlan, RereadRoute
  <1>5. ASSUME NEW r \in Routes, ProgramRoute(r) PROVE Versioned
    BY <1>5, <1>event, SyncAdvances DEF ProgramRoute, Phases, TypeOK
  <1>6. ASSUME NEW r \in Routes, StartRoute(r) \/ \E s : AnnotateDelivery(r, s) PROVE Versioned
    BY <1>6, <1>event, StartAdvances DEF StartRoute, AnnotateDelivery
  <1>7. ASSUME NEW r \in Routes, NEW s, NEW phase \in {"delivered", "missed"},
               CloseDelivery(r, s, phase)
        PROVE  Versioned
    <2> DEFINE members == {o \in Assigned(r) : assignments[o].key = s}
               synced == SyncOrders(StartedOrders(r), members, phase)
               last == SyncOrders(synced, Assigned(r), "completed")
    <2>1. UNCHANGED assignments /\ (orders' = synced \/ orders' = last)
      BY <1>7 DEF CloseDelivery
    <2>2. phase \in Phases /\ "completed" \in Phases
      BY DEF Phases
    <2>3. synced \in [Orders -> Order] /\ orders \in [Orders -> Order]
      BY <2>2, StartedType, SyncOrdersType DEF TypeOK
    <2>4. \A o \in Orders : Advances(orders[o], synced[o])
      BY <2>2, StartedEventAdvances
    <2> HIDE DEF synced
    <2>5. last \in [Orders -> Order] /\ \A o \in Orders : Advances(synced[o], last[o])
      BY <2>2, <2>3, SyncOrdersType, SyncAdvances
    <2> HIDE DEF last
    <2>6. \A o \in Orders : Advances(orders[o], last[o])
      BY <2>3, <2>4, <2>5, AdvancesTwice
    <2> QED
      BY <1>event, <2>1, <2>4, <2>6
  <1>8. ASSUME NEW r \in Routes, CompleteRoute(r) PROVE Versioned
    <2>1. \/ UNCHANGED orders
          \/ orders' = SyncOrders(StartedOrders(r), Assigned(r), "completed")
      BY <1>8 DEF CompleteRoute
    <2> QED
      BY <1>8, <1>event, <1>same, <2>1, StartedEventAdvances DEF CompleteRoute, Phases
  <1>9. ASSUME NEW r \in Routes, CancelRoute(r) PROVE Versioned
    <2>1. orders' = SyncOrders(orders, Assigned(r), "cancelled")
      BY <1>9 DEF CancelRoute
    <2>2. \A o \in Orders : Advances(orders[o], orders'[o])
      BY <2>1, SyncAdvances DEF Phases, TypeOK
    <2>3. \A o \in Orders : assignments'[o] # assignments[o] =>
            o \in Assigned(r) /\ orders[o] # Synced(orders[o], "cancelled")
      BY <1>9 DEF CancelRoute
    <2>4. \A o \in Orders : assignments'[o] # assignments[o] => orders'[o] # orders[o]
      BY <2>1, <2>3 DEF SyncOrders
    <2> QED
      BY <2>2, <2>4 DEF Versioned, Advances
  <1> QED
    BY <1>same, <1>1, <1>2, <1>3, <1>4, <1>5, <1>6, <1>7, <1>8, <1>9
    DEF Next, Desk, Execution, PlanChange

(* Whatever changes an order or its reservation gives it a new version:    *)
(* no client that holds the old one is ever served, with any bound and     *)
(* also when sessions keep old route rows.                                 *)
THEOREM VersionsChange == Spec => ChangesAreVersioned
  <1>1. TypeInv => TypeOK
    BY DEF TypeInv
  <1>2. TypeOK /\ [Next]_vars => [Versioned]_vars
    BY VersionStep
  <1> QED
    BY <1>2, TypeCorrect, PTL DEF Spec, ChangesAreVersioned, Versioned

-----------------------------------------------------------------------------
(* Billing (also when sessions keep old route rows).                       *)

(* A route that is closed on its last outcome is not started by a later    *)
(* request: that it was is part of the invariant.                          *)
BilledInv ==
  /\ TypeInv
  /\ \A r \in Routes :
       /\ routes[r].started <=> r \in usage
       /\ routes[r].status \in {"in_corso", "completato"} => routes[r].started

(* Starting a route leaves its deliveries and resources alone.             *)
LEMMA StartedFields ==
  ASSUME TypeOK, NEW r \in Routes
  PROVE  /\ StartedRoute(r) \in Route
         /\ StartedRoute(r).stops = routes[r].stops
         /\ StartedRoute(r).completed = routes[r].completed
         /\ StartedRoute(r).missed = routes[r].missed
         /\ StartedRoute(r).uses = routes[r].uses
         /\ StartedRoute(r).started = IF r \in usage THEN routes[r].started ELSE TRUE
  <1> DEFINE first == [routes[r] EXCEPT !.started = TRUE]
             second(status) == [first EXCEPT !.status = status]
  <1>1. routes[r] \in Route
    BY DEF TypeOK
  <1>2. /\ first \in Route /\ first.started = TRUE
        /\ first.stops = routes[r].stops /\ first.completed = routes[r].completed
        /\ first.missed = routes[r].missed /\ first.uses = routes[r].uses
    BY <1>1 DEF Route
  <1> HIDE DEF first
  <1>3. \A status \in RouteStatuses :
          /\ second(status) \in Route /\ second(status).started = TRUE
          /\ second(status).stops = routes[r].stops
          /\ second(status).completed = routes[r].completed
          /\ second(status).missed = routes[r].missed
          /\ second(status).uses = routes[r].uses
    BY <1>2 DEF Route
  <1>4. StartedRoute(r) = IF r \in usage THEN routes[r]
                          ELSE second(IF routes[r].status = "completato" THEN "completato"
                                                                         ELSE "in_corso")
    BY DEF StartedRoute, first
  <1>5. {"completato", "in_corso"} \subseteq RouteStatuses
    BY DEF RouteStatuses
  <1> HIDE DEF second
  <1> QED
    BY <1>1, <1>3, <1>4, <1>5

(* What the start of a route must do, and what the rest may not.           *)
BilledRow(r) ==
  /\ routes'[r].started <=> r \in usage'
  /\ routes'[r].started /\ ~routes[r].started => active
  /\ routes'[r].status \in {"in_corso", "completato"} => routes'[r].started

(* A start is billed with the row it writes.                               *)
LEMMA StartBills ==
  ASSUME BilledInv, NEW r \in Routes, MayStart(r), usage' = usage \cup {r},
         NEW row, routes' = [routes EXCEPT ![r] = row],
         row.started = StartedRoute(r).started
  PROVE  \A q \in Routes : BilledRow(q)
  <1>1. TypeOK /\ routes \in [Routes -> Route] /\ \A q \in Routes : routes[q].started \in BOOLEAN
    BY DEF BilledInv, TypeInv, TypeOK, Route
  <1>2. row.started = TRUE
    BY <1>1, StartedFields DEF BilledInv
  <1>3. ~routes[r].started => active
    BY DEF MayStart, Entitled, BilledInv
  <1>4. BilledRow(r)
    BY <1>1, <1>2, <1>3 DEF BilledRow
  <1>5. \A q \in Routes \ {r} : BilledRow(q)
    BY <1>1 DEF BilledRow, BilledInv
  <1> QED
    BY <1>4, <1>5

(* Every step keeps the starts and the billed routes together.             *)
LEMMA BilledStep == BilledInv /\ [Next]_vars => BilledInv' /\ \A r \in Routes : BilledRow(r)
  <1> SUFFICES ASSUME BilledInv, [Next]_vars PROVE \A r \in Routes : BilledRow(r)
    BY TypeStep DEF BilledInv, BilledRow
  <1>facts. /\ TypeOK /\ routes \in [Routes -> Route]
            /\ \A r \in Routes : routes[r].started \in BOOLEAN
    BY DEF BilledInv, TypeInv, TypeOK, Route
  (* A step that neither starts nor completes a route. *)
  <1>row. ASSUME NEW r \in Routes, NEW row, routes' = [routes EXCEPT ![r] = row],
                 row.started = routes[r].started,
                 \/ row.status = routes[r].status
                 \/ row.status \notin {"in_corso", "completato"},
                 UNCHANGED usage
          PROVE  \A q \in Routes : BilledRow(q)
    BY <1>facts, <1>row DEF BilledRow, BilledInv
  <1>same. ASSUME UNCHANGED <<routes, usage>> PROVE \A q \in Routes : BilledRow(q)
    BY <1>facts, <1>same DEF BilledRow, BilledInv
  <1>1. ASSUME NEW p \in Planners, NEW r \in Routes, SaveRoute(p, r)
        PROVE  \A q \in Routes : BilledRow(q)
    BY <1>1, <1>row DEF SaveRoute, Rewritten
  <1>2. ASSUME NEW r \in Routes, NEW status \in {"programmato", "annullato"},
               routes' = [routes EXCEPT ![r].status = status], UNCHANGED usage
        PROVE  \A q \in Routes : BilledRow(q)
    <2>1. /\ [routes[r] EXCEPT !.status = status].started = routes[r].started
          /\ [routes[r] EXCEPT !.status = status].status \notin {"in_corso", "completato"}
      BY <1>facts DEF Route
    <2> QED
      BY <1>2, <1>row, <2>1
  <1>3. ASSUME NEW r \in Routes, NEW s, NEW phase, CloseDelivery(r, s, phase)
        PROVE  \A q \in Routes : BilledRow(q)
    <2> DEFINE recorded == IF phase = "delivered"
                           THEN [StartedRoute(r) EXCEPT !.completed = @ \cup {s}]
                           ELSE [StartedRoute(r) EXCEPT !.missed = @ \cup {s}]
               last == [recorded EXCEPT !.status = "completato"]
    <2>1. /\ MayStart(r) /\ usage' = usage \cup {r}
          /\ routes' = [routes EXCEPT ![r] = recorded] \/ routes' = [routes EXCEPT ![r] = last]
      BY <1>3 DEF CloseDelivery
    <2>2. recorded.started = StartedRoute(r).started /\ last.started = StartedRoute(r).started
      BY <1>facts, StartedFields DEF Route
    <2> HIDE DEF recorded, last
    <2> QED
      BY <2>1, <2>2, StartBills
  <1>4. ASSUME NEW r \in Routes, CompleteRoute(r) PROVE \A q \in Routes : BilledRow(q)
    <2>1. CASE routes[r].status = "completato"
      <3>1. UNCHANGED routes /\ r \in usage /\ usage' = usage \cup {r}
        BY <1>4, <2>1 DEF CompleteRoute, BilledInv
      <3> QED
        BY <1>same, <3>1
    <2>2. CASE routes[r].status # "completato"
      <3>1. /\ MayStart(r) /\ usage' = usage \cup {r}
            /\ routes' = [routes EXCEPT ![r] = [StartedRoute(r) EXCEPT !.status = "completato"]]
        BY <1>4, <2>2 DEF CompleteRoute
      <3>2. [StartedRoute(r) EXCEPT !.status = "completato"].started = StartedRoute(r).started
        BY <1>facts, StartedFields DEF Route
      <3> QED
        BY <3>1, <3>2, StartBills
    <2> QED
      BY <2>1, <2>2
  <1>5. ASSUME NEW r \in Routes, StartRoute(r) \/ \E s : AnnotateDelivery(r, s)
        PROVE  \A q \in Routes : BilledRow(q)
    BY <1>5, StartBills DEF StartRoute, AnnotateDelivery
  <1> QED
    BY <1>same, <1>1, <1>2, <1>3, <1>4, <1>5
    DEF Next, Desk, Planning, Execution, PlanChange, vars, UpdateOrder, VerifyAddress, Transition,
        ValidatePlan, AbandonPlan, RereadRoute, ProgramRoute, CancelRoute

(* At first nothing is started.                                            *)
LEMMA InitBilled == Init => BilledInv
  BY InitType DEF Init, BilledInv

(* Whichever portal, note, signature, outcome or closing starts a route,   *)
(* the start is billed, and only an active subscription starts one.        *)
THEOREM StartsAreBilled == Spec => EveryStartIsBilled
  <1>1. BilledInv /\ [Next]_vars => BilledInv'
    BY BilledStep
  <1>2. BilledInv /\ [Next]_vars =>
          [\A r \in Routes : /\ routes'[r].started <=> r \in usage'
                             /\ routes'[r].started /\ ~routes[r].started => active]_vars
    BY BilledStep DEF BilledRow
  <1> QED
    BY InitBilled, <1>1, <1>2, PTL DEF Spec, EveryStartIsBilled

-----------------------------------------------------------------------------
(* What each event makes of the orders and of its route.                   *)

(* The open orders of a route get a new status, and every other row stays. *)
Moves(r, to) ==
  \A o \in Orders :
    IF o \in Assigned(r) /\ orders[o].status \notin Delivered
    THEN orders'[o].status = to[o]
    ELSE orders'[o] = orders[o]

AllTo(status) == [o \in Orders |-> status]

(* The first start sends the open orders out; a later one changes nothing, *)
(* and an order that was loaded too late waits.                            *)
OnWay(r) == [o \in Orders |-> IF r \in usage THEN orders[o].status ELSE "in_consegna"]

(* The orders of one stop get its outcome; the others travel, or are       *)
(* closed with the route.                                                  *)
OutcomeTo(r, s, phase, closes) ==
  [o \in Orders |-> IF assignments[o].key = s THEN Target(phase).status
                    ELSE IF closes THEN "non_consegnato" ELSE OnWay(r)[o]]

(* The row of a route that goes on, with the outcomes it gets.             *)
Continues(r, status, completed, missed) ==
  /\ routes'[r].status = status
  /\ routes'[r].stops = routes[r].stops /\ routes'[r].uses = routes[r].uses
  /\ routes'[r].completed = routes[r].completed \cup completed
  /\ routes'[r].missed = routes[r].missed \cup missed
  /\ \A q \in Routes \ {r} : routes'[q] = routes[q]

(* An order has the state of its stop unless it is delivered.              *)
LEMMA SyncedStatus ==
  ASSUME NEW order \in Order, NEW phase \in Phases
  PROVE  IF order.status \in Delivered THEN Synced(order, phase) = order
         ELSE Synced(order, phase).status = Target(phase).status
  BY MovedFields DEF Synced

(* The orders of a route that is started, in either way.                   *)
LEMMA StartedStatus ==
  ASSUME FollowInv, NEW r \in Routes
  PROVE  \A o \in Orders : IF o \in Assigned(r) /\ orders[o].status \notin Delivered
                           THEN StartedOrders(r)[o].status = OnWay(r)[o]
                           ELSE StartedOrders(r)[o] = orders[o]
  <1>1. CASE r \in usage
    BY <1>1 DEF StartedOrders, OnWay
  <1>2. CASE r \notin usage
    <2>1. \A o \in Orders : orders[o] \in Order
      BY FollowFacts
    <2> QED
      BY <1>2, <2>1, SyncedStatus DEF StartedOrders, SyncOrders, OnWay, Phases, Target
  <1> QED
    BY <1>1, <1>2

(* Programming assigns every order and keeps the stops.                    *)
LEMMA ProgramShape ==
  ASSUME FollowInv, NEW r \in Routes, ProgramRoute(r)
  PROVE  /\ Moves(r, AllTo("assegnato")) /\ Continues(r, "programmato", {}, {})
         /\ routes[r].status \in {"bozza", "programmato"} /\ UNCHANGED assignments
  <1>1. routes[r] \in Route /\ routes \in [Routes -> Route]
    BY DEF FollowInv, TypeInv, TypeOK
  <1>2. Moves(r, AllTo("assegnato"))
    BY FollowFacts, SyncedStatus DEF ProgramRoute, SyncOrders, Moves, AllTo, Phases, Target
  <1>3. Continues(r, "programmato", {}, {})
    BY <1>1 DEF ProgramRoute, Continues, Route
  <1> QED
    BY <1>2, <1>3 DEF ProgramRoute

(* A start, a note or a signature. *)
LEMMA StartShape ==
  ASSUME FollowInv, NEW r \in Routes, StartRoute(r) \/ \E s : AnnotateDelivery(r, s)
  PROVE  /\ Moves(r, OnWay(r)) /\ Continues(r, "in_corso", {}, {})
         /\ routes[r].status \in {"bozza", "programmato", "in_corso"} /\ UNCHANGED assignments
  <1>1. /\ routes[r].status \notin ClosedRoute \cup {"assente"} /\ UNCHANGED assignments
        /\ orders' = StartedOrders(r) /\ routes' = [routes EXCEPT ![r] = StartedRoute(r)]
    BY DEF StartRoute, AnnotateDelivery, OpenStop, MayStart
  <1>2. routes \in [Routes -> Route] /\ TypeOK
    BY DEF FollowInv, TypeInv, TypeOK
  <1>3. Moves(r, OnWay(r))
    BY <1>1, StartedStatus DEF Moves
  <1>4. Continues(r, "in_corso", {}, {})
    BY <1>1, <1>2, StartedFields, StartedFits DEF Continues
  <1>5. routes[r].status \in {"bozza", "programmato", "in_corso"}
    BY <1>1, FollowFacts DEF RouteStatuses, ClosedRoute
  <1> QED
    BY <1>1, <1>3, <1>4, <1>5

(* A closing gives the orders of its stop their outcome.                   *)
LEMMA CloseShape ==
  ASSUME FollowInv, NEW r \in Routes, NEW s \in routes[r].stops,
         NEW phase \in {"delivered", "missed"}, CloseDelivery(r, s, phase)
  PROVE  /\ \E closes \in BOOLEAN :
              /\ Moves(r, OutcomeTo(r, s, phase, closes))
              /\ Continues(r, IF closes THEN "completato" ELSE "in_corso",
                           IF phase = "delivered" THEN {s} ELSE {},
                           IF phase = "missed" THEN {s} ELSE {})
         /\ s \notin routes[r].completed \cup routes[r].missed
         /\ routes[r].status \in {"bozza", "programmato", "in_corso"}
         /\ UNCHANGED assignments
  <1> DEFINE members == {o \in Assigned(r) : assignments[o].key = s}
             synced == SyncOrders(StartedOrders(r), members, phase)
             last == SyncOrders(synced, Assigned(r), "completed")
             recorded == IF phase = "delivered"
                         THEN [StartedRoute(r) EXCEPT !.completed = @ \cup {s}]
                         ELSE [StartedRoute(r) EXCEPT !.missed = @ \cup {s}]
             closed == [recorded EXCEPT !.status = "completato"]
  <1>1. /\ routes[r].status \notin ClosedRoute \cup {"assente"} /\ UNCHANGED assignments
        /\ s \notin routes[r].completed \cup routes[r].missed
        /\ \/ orders' = synced /\ routes' = [routes EXCEPT ![r] = recorded]
           \/ orders' = last /\ routes' = [routes EXCEPT ![r] = closed]
    BY DEF CloseDelivery, OpenStop, MayStart
  <1>2. /\ routes \in [Routes -> Route] /\ TypeOK
        /\ \A o \in Orders : StartedOrders(r)[o] \in Order
    BY StartedType DEF FollowInv, TypeInv, TypeOK
  <1>3. phase \in Phases /\ Target(phase).status \in Delivered
    BY DEF Phases, Target, Delivered
  <1>4. \A o \in Orders : IF o \in Assigned(r) /\ orders[o].status \notin Delivered
                          THEN /\ StartedOrders(r)[o].status = OnWay(r)[o]
                               /\ OnWay(r)[o] \notin Delivered
                          ELSE StartedOrders(r)[o] = orders[o]
    BY StartedStatus DEF OnWay, Delivered
  <1>5. \A o \in Orders :
          IF o \in Assigned(r) /\ orders[o].status \notin Delivered
          THEN synced[o].status = IF assignments[o].key = s THEN Target(phase).status
                                                            ELSE OnWay(r)[o]
          ELSE synced[o] = orders[o]
    <2>1. \A o \in Orders : synced[o] = IF o \in members THEN Synced(StartedOrders(r)[o], phase)
                                                         ELSE StartedOrders(r)[o]
      BY DEF SyncOrders
    <2> HIDE DEF synced
    <2>2. \A o \in Orders : o \in members <=> o \in Assigned(r) /\ assignments[o].key = s
      BY DEF Assigned
    <2> HIDE DEF members
    <2>3. \A o \in Orders : LET order == StartedOrders(r)[o]
                            IN IF order.status \in Delivered THEN Synced(order, phase) = order
                               ELSE Synced(order, phase).status = Target(phase).status
      BY <1>2, <1>3, SyncedStatus
    <2> QED
      BY <1>4, <2>1, <2>2, <2>3
  <1>6. synced \in [Orders -> Order]
    BY <1>2, <1>3, StartedType, SyncOrdersType
  <1>7. \A o \in Orders :
          IF o \in Assigned(r) /\ orders[o].status \notin Delivered
          THEN last[o].status = IF assignments[o].key = s THEN Target(phase).status
                                                          ELSE "non_consegnato"
          ELSE last[o] = orders[o]
    <2>1. \A o \in Orders : last[o] = IF o \in Assigned(r) THEN Synced(synced[o], "completed")
                                                           ELSE synced[o]
      BY DEF SyncOrders
    <2>2. /\ "non_consegnato" \in Delivered /\ "completed" \in Phases
          /\ Target("completed").status = "non_consegnato"
      BY DEF Delivered, Phases, Target
    <2> HIDE DEF synced, last, members
    <2>3. \A o \in Orders :
            IF synced[o].status \in Delivered THEN Synced(synced[o], "completed") = synced[o]
            ELSE Synced(synced[o], "completed").status = "non_consegnato"
      BY <1>6, <2>2, SyncedStatus
    <2> QED
      BY <1>3, <1>4, <1>5, <2>1, <2>2, <2>3
  <1>8. /\ recorded \in Route /\ recorded.status = "in_corso"
        /\ recorded.stops = routes[r].stops /\ recorded.uses = routes[r].uses
        /\ recorded.completed = routes[r].completed \cup IF phase = "delivered" THEN {s} ELSE {}
        /\ recorded.missed = routes[r].missed \cup IF phase = "missed" THEN {s} ELSE {}
    <2>1. s \in SUBSET Orders
      BY <1>2 DEF Route, Stops
    <2>2. StartedRoute(r).status = "in_corso"
      BY <1>1, StartedFits
    <2> QED
      BY <1>2, <2>1, <2>2, StartedFields DEF Route, Stops
  <1>9. /\ closed.status = "completato"
        /\ closed.stops = recorded.stops /\ closed.uses = recorded.uses
        /\ closed.completed = recorded.completed /\ closed.missed = recorded.missed
    BY <1>8 DEF Route
  <1> HIDE DEF synced, last, recorded, closed
  <1>10. CASE orders' = synced /\ routes' = [routes EXCEPT ![r] = recorded]
    <2>1. Moves(r, OutcomeTo(r, s, phase, FALSE))
      BY <1>5, <1>10 DEF Moves, OutcomeTo
    <2>2. Continues(r, "in_corso", IF phase = "delivered" THEN {s} ELSE {},
                    IF phase = "missed" THEN {s} ELSE {})
      BY <1>2, <1>8, <1>10 DEF Continues
    <2> QED
      BY <1>1, <2>1, <2>2, FollowFacts DEF RouteStatuses, ClosedRoute
  <1>11. CASE orders' = last /\ routes' = [routes EXCEPT ![r] = closed]
    <2>1. Moves(r, OutcomeTo(r, s, phase, TRUE))
      BY <1>7, <1>11 DEF Moves, OutcomeTo
    <2>2. Continues(r, "completato", IF phase = "delivered" THEN {s} ELSE {},
                    IF phase = "missed" THEN {s} ELSE {})
      BY <1>2, <1>8, <1>9, <1>11 DEF Continues
    <2> QED
      BY <1>1, <2>1, <2>2, FollowFacts DEF RouteStatuses, ClosedRoute
  <1> QED
    BY <1>1, <1>10, <1>11

(* Closing a route that is completed only bills it.                        *)
LEMMA CompleteShape ==
  ASSUME FollowInv, NEW r \in Routes, CompleteRoute(r)
  PROVE  /\ UNCHANGED assignments
         /\ \/ UNCHANGED <<orders, routes>>
            \/ /\ Moves(r, AllTo("non_consegnato")) /\ Continues(r, "completato", {}, {})
               /\ routes[r].status \in {"bozza", "programmato", "in_corso"}
  <1>1. UNCHANGED assignments /\ (routes[r].status = "completato" => UNCHANGED <<orders, routes>>)
    BY DEF CompleteRoute
  <1>2. ASSUME routes[r].status # "completato"
        PROVE /\ Moves(r, AllTo("non_consegnato")) /\ Continues(r, "completato", {}, {})
              /\ routes[r].status \in {"bozza", "programmato", "in_corso"}
    <2> DEFINE closed == [StartedRoute(r) EXCEPT !.status = "completato"]
    <2>1. /\ routes[r].status \notin ClosedRoute \cup {"assente"}
          /\ orders' = SyncOrders(StartedOrders(r), Assigned(r), "completed")
          /\ routes' = [routes EXCEPT ![r] = closed]
      BY <1>2 DEF CompleteRoute, MayStart, ClosedRoute
    <2>2. /\ routes \in [Routes -> Route] /\ TypeOK
          /\ \A o \in Orders : StartedOrders(r)[o] \in Order
      BY StartedType DEF FollowInv, TypeInv, TypeOK
    <2>3. /\ closed.status = "completato"
          /\ closed.stops = routes[r].stops /\ closed.uses = routes[r].uses
          /\ closed.completed = routes[r].completed /\ closed.missed = routes[r].missed
      BY <2>2, StartedFields DEF Route
    <2> HIDE DEF closed
    <2>4. Continues(r, "completato", {}, {})
      BY <2>1, <2>2, <2>3 DEF Continues
    <2>5. \A o \in Orders : IF o \in Assigned(r) /\ orders[o].status \notin Delivered
                            THEN StartedOrders(r)[o].status \notin Delivered
                            ELSE StartedOrders(r)[o] = orders[o]
      BY StartedStatus DEF OnWay, Delivered
    <2>6. /\ "completed" \in Phases
          /\ Target("completed").status = "non_consegnato"
      BY DEF Phases, Target
    <2>7. \A o \in Orders : orders'[o] = IF o \in Assigned(r)
                                         THEN Synced(StartedOrders(r)[o], "completed")
                                         ELSE StartedOrders(r)[o]
      BY <2>1 DEF SyncOrders
    <2>8. Moves(r, AllTo("non_consegnato"))
      BY <2>2, <2>5, <2>6, <2>7, SyncedStatus DEF Moves, AllTo
    <2>9. routes[r].status \in {"bozza", "programmato", "in_corso"}
      BY <2>1, FollowFacts DEF RouteStatuses, ClosedRoute
    <2> QED
      BY <2>4, <2>8, <2>9
  <1> QED
    BY <1>1, <1>2

(* A cancellation frees exactly the orders that have no outcome.           *)
LEMMA CancelShape ==
  ASSUME FollowInv, NEW r \in Routes, CancelRoute(r)
  PROVE  /\ Moves(r, AllTo("pronto")) /\ Continues(r, "annullato", {}, {})
         /\ \A o \in Orders :
              assignments'[o] = IF o \in Assigned(r) /\ orders[o].status \notin Delivered
                                THEN Unassigned ELSE assignments[o]
         /\ routes[r].status \in {"bozza", "programmato", "in_corso"}
  <1>1. routes[r].status \in {"bozza", "programmato", "in_corso"}
    BY FollowFacts DEF CancelRoute, RouteStatuses, ClosedRoute
  <1>2. routes \in [Routes -> Route]
    BY DEF FollowInv, TypeInv, TypeOK
  <1>3. Continues(r, "annullato", {}, {})
    BY <1>2 DEF CancelRoute, Continues, Route
  <1>4. \A o \in Orders : orders'[o] = IF o \in Assigned(r) THEN Synced(orders[o], "cancelled")
                                                            ELSE orders[o]
    BY DEF CancelRoute, SyncOrders
  <1>5. Moves(r, AllTo("pronto"))
    BY <1>4, FollowFacts, SyncedStatus DEF Moves, AllTo, Phases, Target
  <1>6. \A o \in Assigned(r) :
          Synced(orders[o], "cancelled") # orders[o] <=> orders[o].status \notin Delivered
    <2>1. \A o \in Assigned(r) :
            /\ orders[o] \in Order
            /\ FitsStatus(orders[o], routes[r].status) \/ LateRow(orders[o])
      BY FollowFacts DEF Fits
    <2> QED
      BY <1>1, <2>1, SyncedFits DEF RouteStatuses
  <1>7. \A o \in Orders :
          assignments'[o] = IF o \in Assigned(r) /\ orders[o].status \notin Delivered
                            THEN Unassigned ELSE assignments[o]
    BY <1>6 DEF CancelRoute
  <1> QED
    BY <1>1, <1>3, <1>5, <1>7

(* A save takes orders from the desk or from its own route, and gives back *)
(* the others of that route; a route that exists keeps its status, and the *)
(* request knows one in which it had not left.                             *)
LEMMA SaveShape ==
  ASSUME FollowInv, NEW p \in Planners, NEW r \in Routes, SaveRoute(p, r)
  PROVE  LET wanted == Wanted(requests[p].stops)
         IN /\ wanted \subseteq Orders
            /\ \A o \in Orders :
                 IF o \in wanted
                 THEN /\ IF o \in Assigned(r) THEN orders[o].status = "assegnato"
                                              ELSE Free(o) /\ orders[o].status = "pronto"
                      /\ orders'[o].status = "assegnato" /\ assignments'[o].route = r
                 ELSE IF o \in Assigned(r)
                      THEN orders'[o].status = "pronto" /\ assignments'[o] = Unassigned
                      ELSE orders'[o] = orders[o] /\ assignments'[o] = assignments[o]
            /\ \/ routes[r].status = "assente" /\ routes'[r].status = "bozza"
               \/ /\ routes[r].status # "assente" /\ routes'[r].status = routes[r].status
                  /\ routes[r].status \in {"bozza", "programmato"} \/ Drawn(p, r)
            /\ routes'[r].completed = {} /\ routes'[r].missed = {}
            /\ routes'[r].started = routes[r].started
            /\ \A q \in Routes \ {r} : routes'[q] = routes[q]
  <1> DEFINE wanted == Wanted(requests[p].stops)
  <1>1. /\ requests[p].stops \in Stops /\ routes \in [Routes -> Route]
        /\ orders' = Reserved(p, r) /\ assignments' = Reservations(p, r)
        /\ routes' = [routes EXCEPT ![r] = Rewritten(p, r)]
    BY DEF FollowInv, TypeInv, TypeOK, Request, SaveRoute
  <1>2. wanted \subseteq Orders
    BY <1>1 DEF Wanted, Stops
  <1>3. /\ requests[p].route = NoRoute => routes[r].status = "assente"
        /\ requests[p].route # NoRoute => /\ requests[p].route = r
                                          /\ routes[r].status # "assente"
                                          /\ View(p, r).status \in {"bozza", "programmato"}
    BY DEF SaveRoute, Acceptable, FollowInv, RowsRead
  <1>4. \/ routes[r].status = "assente" /\ routes'[r].status = "bozza"
        \/ /\ routes[r].status # "assente" /\ routes'[r].status = routes[r].status
           /\ routes[r].status \in {"bozza", "programmato"} \/ Drawn(p, r)
    <2>1. CASE requests[p].route = NoRoute
      BY <1>1, <1>3, <2>1 DEF Rewritten
    <2>2. CASE requests[p].route # NoRoute
      <3>1. routes'[r].status = routes[r].status
        BY <1>1, <2>2 DEF Rewritten
      <3>2. routes[r].status \in {"bozza", "programmato"} \/ Drawn(p, r)
        BY <1>3, <2>2 DEF View, RowOf, Drawn
      <3> QED
        BY <1>3, <2>2, <3>1, <3>2
    <2> QED
      BY <2>1, <2>2
  <1>5. /\ routes'[r].completed = {} /\ routes'[r].missed = {}
        /\ routes'[r].started = routes[r].started
        /\ \A q \in Routes \ {r} : routes'[q] = routes[q]
    BY <1>1 DEF Rewritten
  <1>6. ASSUME NEW o \in Assigned(r)
        PROVE  /\ o \in Orders /\ ~Free(o) /\ orders[o] \in Order
               /\ orders[o].status # "pronto" /\ requests[p].route = r
    BY <1>3, FollowFacts DEF Fits, FitsStatus, LateRow, RouteStatuses, ClosedRoute
  <1>7. ASSUME NEW o \in Orders, o \in wanted
        PROVE  /\ IF o \in Assigned(r) THEN orders[o].status = "assegnato"
                                       ELSE Free(o) /\ orders[o].status = "pronto"
               /\ orders'[o].status = "assegnato" /\ assignments'[o].route = r
    <2>1. Plannable(o, requests[p].route)
      BY <1>7 DEF SaveRoute, Acceptable
    <2>2. IF o \in Assigned(r) THEN orders[o].status = "assegnato"
                               ELSE Free(o) /\ orders[o].status = "pronto"
      BY <1>3, <1>6, <2>1 DEF Plannable, Free, Assigned
    <2>3. Touched(orders[o]).status = orders[o].status
      BY FollowFacts DEF Touched, Order
    <2> QED
      BY <1>1, <1>7, <2>2, <2>3, FollowFacts, MovedFields DEF Reserved, Reservations
  <1>8. ASSUME NEW o \in Orders, o \notin wanted, o \in Assigned(r)
        PROVE  orders'[o].status = "pronto" /\ assignments'[o] = Unassigned
    BY <1>1, <1>6, <1>8, MovedFields DEF Reserved, Reservations
  <1>9. ASSUME NEW o \in Orders, o \notin wanted, o \notin Assigned(r)
        PROVE  orders'[o] = orders[o] /\ assignments'[o] = assignments[o]
    BY <1>1, <1>9 DEF Reserved, Reservations
  <1> HIDE DEF wanted
  <1>10. \A o \in Orders :
           IF o \in wanted
           THEN /\ IF o \in Assigned(r) THEN orders[o].status = "assegnato"
                                        ELSE Free(o) /\ orders[o].status = "pronto"
                /\ orders'[o].status = "assegnato" /\ assignments'[o].route = r
           ELSE IF o \in Assigned(r)
                THEN orders'[o].status = "pronto" /\ assignments'[o] = Unassigned
                ELSE orders'[o] = orders[o] /\ assignments'[o] = assignments[o]
    BY <1>7, <1>8, <1>9
  <1> QED
    BY <1>2, <1>4, <1>5, <1>10 DEF wanted

(* A correction by the desk: one order, which is and stays there.          *)
LEMMA DeskShape ==
  ASSUME FollowInv, Desk
  PROVE  /\ UNCHANGED <<assignments, routes, usage>>
         /\ \E o \in Orders :
              /\ Free(o) /\ orders[o].status \in Editable
              /\ orders'[o].status \in Editable \cup {"annullato"}
              /\ orders' = [orders EXCEPT ![o] = orders'[o]]
  <1>1. ASSUME NEW o \in Orders, MayEdit(o), UNCHANGED <<assignments, routes, usage>>,
               NEW status \in Editable \cup {"annullato"}, NEW address, NEW verified,
               orders' = [orders EXCEPT ![o] = Corrected(@, status, address, verified)]
        PROVE  /\ UNCHANGED <<assignments, routes, usage>>
               /\ Free(o) /\ orders[o].status \in Editable
               /\ orders'[o].status \in Editable \cup {"annullato"}
               /\ orders' = [orders EXCEPT ![o] = orders'[o]]
    <2>1. orders \in [Orders -> Order] /\ orders[o] \in Order
      BY DEF FollowInv, TypeInv, TypeOK
    <2>2. orders'[o] = Corrected(orders[o], status, address, verified)
      BY <1>1, <2>1
    <2>3. orders'[o].status = status
      BY <2>1, <2>2, CorrectedFields
    <2> QED
      BY <1>1, <2>2, <2>3 DEF MayEdit
  <1>2. ASSUME NEW o \in Orders, NEW a \in Addresses, UpdateOrder(o, a)
        PROVE  \E status \in Editable \cup {"annullato"} : \E verified :
                 orders' = [orders EXCEPT ![o] = Corrected(@, status, a, verified)]
    BY <1>2 DEF UpdateOrder, Editable
  <1>3. ASSUME NEW o \in Orders, VerifyAddress(o)
        PROVE  orders' = [orders EXCEPT ![o] = Corrected(@, "pronto", orders[o].address, TRUE)]
    BY <1>3 DEF VerifyAddress
  <1>4. ASSUME NEW o \in Orders, NEW status \in Editable \cup {"annullato"}, Transition(o, status)
        PROVE  orders' = [orders EXCEPT ![o] =
                            Corrected(@, status, orders[o].address, orders[o].verified)]
    BY <1>4 DEF Transition
  <1>5. PICK o \in Orders :
          /\ MayEdit(o) /\ UNCHANGED <<assignments, routes, usage>>
          /\ \E status \in Editable \cup {"annullato"} : \E address, verified :
               orders' = [orders EXCEPT ![o] = Corrected(@, status, address, verified)]
    <2>1. "pronto" \in Editable
      BY DEF Editable
    <2>2. PICK o \in Orders : \/ \E a \in Addresses : UpdateOrder(o, a)
                              \/ VerifyAddress(o)
                              \/ \E status \in Editable \cup {"annullato"} : Transition(o, status)
      BY DEF Desk
    <2>3. MayEdit(o) /\ UNCHANGED <<assignments, routes, usage>>
      BY <2>2 DEF UpdateOrder, VerifyAddress, Transition
    <2>4. \E status \in Editable \cup {"annullato"} : \E address, verified :
            orders' = [orders EXCEPT ![o] = Corrected(@, status, address, verified)]
      <3>1. CASE \E a \in Addresses : UpdateOrder(o, a)
        BY <1>2, <3>1
      <3>2. CASE VerifyAddress(o)
        BY <1>3, <2>1, <3>2
      <3>3. CASE \E status \in Editable \cup {"annullato"} : Transition(o, status)
        BY <1>4, <3>3
      <3> QED
        BY <2>2, <3>1, <3>2, <3>3
    <2> QED
      BY <2>3, <2>4
  <1> QED
    BY <1>1, <1>5

-----------------------------------------------------------------------------
(* Progress.                                                               *)

CancelledKept ==
  \A o \in Orders : orders[o].status = "annullato" =>
    orders'[o] = orders[o] /\ assignments'[o] = assignments[o]

RoutesKept ==
  \A r \in Routes : routes[r].status # "assente" =>
    KeepsProgress(r) \/ \E p \in Planners : RewritesAsRead(p, r)

(* An order with an outcome is on a route that left or is closed, a        *)
(* cancelled one on none: that is why no other save reaches them.          *)
LEMMA FinalOrders ==
  ASSUME FollowInv, NEW o \in Orders
  PROVE  /\ orders[o].status \in Delivered =>
              ~Free(o) /\ routes[assignments[o].route].status \in {"in_corso"} \cup ClosedRoute
         /\ orders[o].status = "annullato" => Free(o)
  <1>1. CASE Free(o)
    BY <1>1, FollowFacts DEF AtDesk, Editable, Delivered
  <1>2. CASE ~Free(o)
    <2>1. /\ FitsStatus(orders[o], routes[assignments[o].route].status) \/ LateRow(orders[o])
          /\ routes[assignments[o].route].status \in RouteStatuses
      BY <1>2, FollowFacts DEF Fits
    <2> QED
      BY <1>2, <2>1 DEF FitsStatus, LateRow, RouteStatuses, ClosedRoute, Delivered
  <1> QED
    BY <1>1, <1>2

(* An event of one route that is not closed, a cancellation included.      *)
LEMMA EventKeeps ==
  ASSUME FollowInv, NEW r \in Routes, NEW to, NEW status, NEW completed, NEW missed,
         Moves(r, to), Continues(r, status, completed, missed),
         routes[r].status \in {"bozza", "programmato", "in_corso"},
         \A o \in Orders :
           \/ assignments'[o] = assignments[o]
           \/ /\ status = "annullato" /\ o \in Assigned(r)
              /\ orders[o].status \notin Delivered
  PROVE  CancelledKept /\ RoutesKept
  <1>1. CancelledKept
    <2>1. ASSUME NEW o \in Orders, orders[o].status = "annullato" PROVE o \notin Assigned(r)
      BY <2>1, FinalOrders, FollowFacts
    <2> QED
      BY <2>1 DEF CancelledKept, Moves
  <1>2. ASSUME NEW q \in Routes, q # r PROVE KeepsProgress(q)
    <2>1. \A o \in Assigned(q) : orders'[o] = orders[o] /\ assignments'[o] = assignments[o]
      BY <1>2 DEF Moves, Assigned
    <2> QED
      BY <1>2, <2>1 DEF Continues, KeepsProgress
  <1>3. KeepsProgress(r)
    <2>1. \A o \in Assigned(r) : o \in Orders
      BY DEF Assigned
    <2>2. \A o \in Assigned(r) : orders[o].status \in Delivered =>
            orders'[o] = orders[o] /\ assignments'[o] = assignments[o]
      BY <2>1 DEF Moves
    <2>3. status # "annullato" => \A o \in Assigned(r) : assignments'[o] = assignments[o]
      BY <2>1
    <2> QED
      BY <2>2, <2>3 DEF Continues, KeepsProgress, ClosedRoute
  <1> QED
    BY <1>1, <1>2, <1>3 DEF RoutesKept

(* A save ends the request or moves it on to its next attempt.             *)
LEMMA SaveMovesOn ==
  ASSUME TypeInv, NEW p \in Planners, NEW r \in Routes, SaveRoute(p, r)
  PROVE  requests'[p] # requests[p]
  <1>1. PICK next \in AfterSave(p, r) : requests' = [requests EXCEPT ![p] = next]
    BY DEF SaveRoute
  <1>2. /\ requests[p].phase \in {"validated", "retry", "restore"} /\ requests'[p] = next
        /\ requests[p].phase = "retry" => requests[p].attempts \in 1 .. 2
    BY <1>1 DEF SaveRoute, TypeInv, TypeOK, Request
  <1>3. \/ next.phase # requests[p].phase
        \/ requests[p].phase = "retry" /\ next.attempts = requests[p].attempts - 1
    BY <1>1, <1>2 DEF AfterSave, FollowUp, Idle
  <1> QED
    BY <1>2, <1>3

(* A save: every other route keeps what it has, and so does this one       *)
(* unless it left after the request read its row.                          *)
LEMMA SaveKeeps ==
  ASSUME FollowInv, BilledInv, NEW p \in Planners, NEW r \in Routes, SaveRoute(p, r)
  PROVE  CancelledKept /\ RoutesKept
  <1> DEFINE wanted == Wanted(requests[p].stops)
  <1>1. /\ \A o \in Orders :
             IF o \in wanted
             THEN IF o \in Assigned(r) THEN orders[o].status = "assegnato"
                  ELSE Free(o) /\ orders[o].status = "pronto" /\ assignments'[o].route = r
             ELSE o \notin Assigned(r) =>
                    orders'[o] = orders[o] /\ assignments'[o] = assignments[o]
        /\ \/ routes[r].status = "assente"
           \/ /\ routes'[r].status = routes[r].status
              /\ routes[r].status \in {"bozza", "programmato"} \/ Drawn(p, r)
        /\ routes'[r].started = routes[r].started
        /\ \A q \in Routes \ {r} : routes'[q] = routes[q]
    BY SaveShape
  <1> HIDE DEF wanted
  <1>2. CancelledKept
    <2>1. ASSUME NEW o \in Orders, orders[o].status = "annullato" PROVE o \notin Assigned(r)
      BY <2>1, FinalOrders, FollowFacts
    <2> QED
      BY <1>1, <2>1 DEF CancelledKept
  <1>3. ASSUME NEW q \in Routes, q # r PROVE KeepsProgress(q)
    <2>1. ASSUME NEW o \in Assigned(q)
          PROVE  orders'[o] = orders[o] /\ assignments'[o] = assignments[o]
      <3>1. o \in Orders /\ ~Free(o) /\ o \notin Assigned(r)
        BY <1>3, <2>1, ConstantsAssumption DEF Assigned, Free
      <3> QED
        BY <1>1, <3>1
    <2> QED
      BY <1>1, <1>3, <2>1 DEF KeepsProgress
  <1>4. CASE routes[r].status = "assente"
    BY <1>2, <1>3, <1>4 DEF RoutesKept
  <1>5. CASE routes[r].status \in {"bozza", "programmato"}
    <2>1. ~routes[r].started
      BY <1>5 DEF BilledInv, FollowInv, UsageRuns, ClosedRoute
    <2>2. ASSUME NEW o \in Assigned(r) PROVE orders[o].status \notin Delivered
      <3>1. o \in Orders /\ assignments[o].route = r
        BY <2>2 DEF Assigned
      <3> QED
        BY <1>5, <3>1, FinalOrders DEF ClosedRoute
    <2>3. KeepsProgress(r)
      BY <1>5, <2>1, <2>2 DEF KeepsProgress, ClosedRoute
    <2> QED
      BY <1>2, <1>3, <2>3 DEF RoutesKept
  <1>6. CASE Drawn(p, r) /\ routes'[r].status = routes[r].status
    <2>1. requests'[p] # requests[p]
      BY SaveMovesOn DEF FollowInv
    <2>2. usage' = usage
      BY DEF SaveRoute
    <2>3. \A o \in Orders \ Assigned(r) :
            \/ orders'[o] = orders[o] /\ assignments'[o] = assignments[o]
            \/ Free(o) /\ orders[o].status = "pronto" /\ assignments'[o].route = r
      BY <1>1
    <2>4. RewritesAsRead(p, r)
      BY <1>1, <1>6, <2>1, <2>2, <2>3 DEF RewritesAsRead
    <2> QED
      BY <1>2, <1>3, <2>4 DEF RoutesKept
  <1> QED
    BY <1>1, <1>4, <1>5, <1>6

(* No step takes back what is final or started, but the save of a request  *)
(* that read the row of the route before.                                  *)
LEMMA ProgressStep == FollowInv /\ BilledInv /\ [Next]_vars => CancelledKept /\ RoutesKept
  <1> SUFFICES ASSUME FollowInv, BilledInv, [Next]_vars PROVE CancelledKept /\ RoutesKept
    OBVIOUS
  <1>same. ASSUME UNCHANGED <<orders, assignments, routes>> PROVE CancelledKept /\ RoutesKept
    BY <1>same DEF CancelledKept, RoutesKept, KeepsProgress, Assigned
  <1>1. CASE Desk
    <2>1. PICK o \in Orders : /\ Free(o) /\ orders[o].status \in Editable
                              /\ orders' = [orders EXCEPT ![o] = orders'[o]]
      BY <1>1, DeskShape
    <2>2. UNCHANGED <<assignments, routes>> /\ orders \in [Orders -> Order]
      BY <1>1, DeskShape DEF FollowInv, TypeInv, TypeOK
    <2>3. \A q \in Orders : orders[q].status \in Delivered \cup {"annullato"} =>
            orders'[q] = orders[q]
      BY <2>1, <2>2 DEF Editable, Delivered
    <2> QED
      BY <2>2, <2>3 DEF CancelledKept, RoutesKept, KeepsProgress, Assigned
  <1>2. CASE Planning
    BY <1>2, <1>same, SaveKeeps DEF Planning, ValidatePlan, AbandonPlan, RereadRoute
  <1>3. ASSUME NEW r \in Routes, ProgramRoute(r) PROVE CancelledKept /\ RoutesKept
    <2>1. \A o \in Orders : assignments'[o] = assignments[o]
      BY <1>3, ProgramShape
    <2> QED
      BY <1>3, <2>1, ProgramShape, EventKeeps
  <1>4. ASSUME NEW r \in Routes, StartRoute(r) \/ \E s : AnnotateDelivery(r, s)
        PROVE  CancelledKept /\ RoutesKept
    <2>1. \A o \in Orders : assignments'[o] = assignments[o]
      BY <1>4, StartShape
    <2> QED
      BY <1>4, <2>1, StartShape, EventKeeps
  <1>5. ASSUME NEW r \in Routes, NEW s \in routes[r].stops, NEW phase \in {"delivered", "missed"},
               CloseDelivery(r, s, phase)
        PROVE  CancelledKept /\ RoutesKept
    <2>1. \A o \in Orders : assignments'[o] = assignments[o]
      BY <1>5, CloseShape
    <2>2. \E to, status, completed, missed :
            Moves(r, to) /\ Continues(r, status, completed, missed)
      BY <1>5, CloseShape
    <2> QED
      BY <1>5, <2>1, <2>2, CloseShape, EventKeeps
  <1>6. ASSUME NEW r \in Routes, CompleteRoute(r) PROVE CancelledKept /\ RoutesKept
    <2>1. \A o \in Orders : assignments'[o] = assignments[o]
      BY <1>6, CompleteShape
    <2> QED
      BY <1>6, <1>same, <2>1, CompleteShape, EventKeeps
  <1>7. ASSUME NEW r \in Routes, CancelRoute(r) PROVE CancelledKept /\ RoutesKept
    <2>1. \A o \in Orders : \/ assignments'[o] = assignments[o]
                            \/ o \in Assigned(r) /\ orders[o].status \notin Delivered
      BY <1>7, CancelShape
    <2> QED
      BY <1>7, <2>1, CancelShape, EventKeeps
  <1> QED
    BY <1>same, <1>1, <1>2, <1>3, <1>4, <1>5, <1>6, <1>7 DEF Next, Execution, PlanChange, vars

(* At first the orders follow the routes.                                  *)
LEMMA InitFollow == Init => FollowInv
  BY InitType, ConstantsAssumption
  DEF Init, FollowInv, RowsRead, UsageRuns, Idle, OrdersFollowRoutes, FitsRoute, Free, AtDesk,
      Unassigned, Editable

(* What the portals were told stays: outcomes, cancelled orders and closed *)
(* routes are final, and the stops, resources and orders of a started      *)
(* route are fixed, whatever was prepared before; only a recalculation of  *)
(* the route itself that read its row before it left rewrites it, and it   *)
(* touches no other route and no order but those and ready ones.           *)
THEOREM ProgressKept == Spec => ProgressIsKept
  <1>1. Init => FollowInv /\ BilledInv
    BY InitFollow, InitBilled
  <1>2. FollowInv /\ BilledInv /\ [Next]_vars => FollowInv' /\ BilledInv'
    BY FollowStep, BilledStep
  <1>3. FollowInv /\ BilledInv /\ [Next]_vars =>
          [/\ \A o \in Orders : orders[o].status = "annullato" =>
                orders'[o] = orders[o] /\ assignments'[o] = assignments[o]
           /\ \A r \in Routes : routes[r].status # "assente" =>
                KeepsProgress(r) \/ \E p \in Planners : RewritesAsRead(p, r)]_vars
    BY ProgressStep DEF CancelledKept, RoutesKept
  <1> QED
    BY <1>1, <1>2, <1>3, PTL DEF Spec, ProgressIsKept

-----------------------------------------------------------------------------
(* Outcomes.                                                               *)

OutcomeInv == FollowInv /\ OutcomesAgree

(* The outcome of an order is the outcome its route has for its stop.      *)
OutcomeFits(order, key, route) ==
  /\ order.status = "consegnato" <=> key \in route.completed
  /\ key \in route.missed => order.status = "non_consegnato"
  /\ order.status = "non_consegnato" => key \in route.missed \/ route.status = "completato"

(* The orders of a stop that is open have no outcome.                      *)
LEMMA OpenStopOrders ==
  ASSUME OutcomeInv, NEW r \in Routes, NEW s, s \notin routes[r].completed \cup routes[r].missed,
         routes[r].status # "completato", NEW o \in Assigned(r), assignments[o].key = s
  PROVE  orders[o].status \notin Delivered
  <1>1. o \in Orders /\ ~Free(o) /\ assignments[o].route = r
    BY FollowFacts DEF OutcomeInv, Assigned
  <1> QED
    BY <1>1 DEF OutcomeInv, OutcomesAgree, Delivered

(* An event of one route, after which its orders agree with it.            *)
LEMMA EventOutcomes ==
  ASSUME OutcomeInv, NEW r \in Routes, NEW to, NEW status, NEW completed, NEW missed,
         Moves(r, to), Continues(r, status, completed, missed),
         \A o \in Assigned(r) : ~Free(o)' => OutcomeFits(orders'[o], assignments[o].key, routes'[r]),
         \A o \in Orders : assignments'[o] \in {assignments[o], Unassigned}
  PROVE  OutcomesAgree'
  <1> SUFFICES ASSUME NEW o \in Orders, ~Free(o)'
               PROVE  OutcomeFits(orders'[o], assignments'[o].key, routes'[assignments'[o].route])
    BY DEF OutcomesAgree, OutcomeFits
  <1>1. assignments'[o] = assignments[o] /\ ~Free(o)
    BY DEF Free, Unassigned
  <1>2. CASE o \in Assigned(r)
    BY <1>1, <1>2 DEF Assigned
  <1>3. CASE o \notin Assigned(r)
    <2>1. orders'[o] = orders[o] /\ assignments[o].route \in Routes \ {r}
      BY <1>1, <1>3, FollowFacts DEF Moves, Assigned, OutcomeInv
    <2>2. routes'[assignments[o].route] = routes[assignments[o].route]
      BY <2>1 DEF Continues
    <2> QED
      BY <1>1, <2>1, <2>2 DEF OutcomeInv, OutcomesAgree, OutcomeFits
  <1> QED
    BY <1>2, <1>3

(* An event without an outcome: a route that is not closed goes on.        *)
LEMMA QuietOutcomes ==
  ASSUME OutcomeInv, NEW r \in Routes, NEW to, NEW status,
         Moves(r, to), Continues(r, status, {}, {}),
         routes[r].status \in {"bozza", "programmato", "in_corso"},
         \A o \in Assigned(r) : orders[o].status \notin Delivered =>
           /\ ~Free(o)' => to[o] \notin Delivered \/ status = "completato"
           /\ to[o] # "consegnato",
         \A o \in Orders : assignments'[o] \in {assignments[o], Unassigned}
  PROVE  OutcomesAgree'
  <1>1. ASSUME NEW o \in Assigned(r), ~Free(o)'
        PROVE  OutcomeFits(orders'[o], assignments[o].key, routes'[r])
    <2>1. /\ o \in Orders /\ ~Free(o) /\ assignments[o].route = r
          /\ OutcomeFits(orders[o], assignments[o].key, routes[r])
      BY FollowFacts DEF OutcomeInv, OutcomesAgree, OutcomeFits, Assigned
    <2>2. /\ routes'[r].completed = routes[r].completed /\ routes'[r].missed = routes[r].missed
          /\ routes'[r].status = status /\ routes[r].status # "completato"
      BY DEF Continues
    <2>3. CASE orders[o].status \in Delivered
      BY <2>1, <2>2, <2>3 DEF Moves, OutcomeFits
    <2>4. CASE orders[o].status \notin Delivered
      <3>1. orders'[o].status = to[o]
        BY <2>1, <2>4 DEF Moves
      <3> QED
        BY <1>1, <2>1, <2>2, <2>4, <3>1 DEF OutcomeFits, Delivered
    <2> QED
      BY <2>3, <2>4
  <1> QED
    BY <1>1, EventOutcomes

(* The outcome of one stop, and of the route with the last one.            *)
LEMMA CloseOutcomes ==
  ASSUME OutcomeInv, NEW r \in Routes, NEW s \in routes[r].stops,
         NEW phase \in {"delivered", "missed"}, CloseDelivery(r, s, phase)
  PROVE  OutcomesAgree'
  <1> DEFINE done == IF phase = "delivered" THEN {s} ELSE {}
             lost == IF phase = "missed" THEN {s} ELSE {}
  <1>1. PICK closes \in BOOLEAN :
          /\ Moves(r, OutcomeTo(r, s, phase, closes))
          /\ Continues(r, IF closes THEN "completato" ELSE "in_corso", done, lost)
    BY CloseShape DEF OutcomeInv
  <1>2. /\ s \notin routes[r].completed \cup routes[r].missed
        /\ routes[r].status # "completato" /\ UNCHANGED assignments
    BY CloseShape DEF OutcomeInv
  <1>3. ASSUME NEW o \in Assigned(r)
        PROVE  OutcomeFits(orders'[o], assignments[o].key, routes'[r])
    <2> DEFINE key == assignments[o].key
    <2>1. /\ o \in Orders /\ ~Free(o) /\ assignments[o].route = r
          /\ OutcomeFits(orders[o], key, routes[r])
      BY FollowFacts DEF OutcomeInv, OutcomesAgree, OutcomeFits, Assigned
    <2>2. /\ routes'[r].completed = routes[r].completed \cup done
          /\ routes'[r].missed = routes[r].missed \cup lost
          /\ routes'[r].status = IF closes THEN "completato" ELSE "in_corso"
      BY <1>1 DEF Continues
    <2>3. CASE key = s
      <3>1. orders[o].status \notin Delivered
        BY <1>2, <2>3, OpenStopOrders
      <3>2. orders'[o].status = Target(phase).status
        BY <1>1, <2>1, <2>3, <3>1 DEF Moves, OutcomeTo
      <3> QED
        BY <1>2, <2>2, <2>3, <3>2 DEF OutcomeFits, Target
    <2>4. CASE key # s
      <3>1. CASE orders[o].status \in Delivered
        BY <1>1, <1>2, <2>1, <2>2, <2>4, <3>1 DEF Moves, OutcomeFits
      <3>2. CASE orders[o].status \notin Delivered
        <4>1. IF closes THEN orders'[o].status = "non_consegnato"
                        ELSE orders'[o].status \notin Delivered
          BY <1>1, <2>1, <2>4, <3>2 DEF Moves, OutcomeTo, OnWay, Delivered
        <4> QED
          BY <1>2, <2>1, <2>2, <2>4, <3>2, <4>1 DEF OutcomeFits, Delivered
      <3> QED
        BY <3>1, <3>2
    <2> QED
      BY <2>3, <2>4
  <1> HIDE DEF done, lost
  <1> QED
    BY <1>1, <1>2, <1>3, EventOutcomes

(* A route that is saved has no outcome to disagree with.                  *)
LEMMA SaveOutcomes ==
  ASSUME OutcomeInv, NEW p \in Planners, NEW r \in Routes, SaveRoute(p, r)
  PROVE  OutcomesAgree'
  <1> DEFINE wanted == Wanted(requests[p].stops)
  <1>1. /\ \A o \in Orders :
             IF o \in wanted
             THEN orders'[o].status = "assegnato" /\ assignments'[o].route = r
             ELSE IF o \in Assigned(r) THEN assignments'[o] = Unassigned
                  ELSE orders'[o] = orders[o] /\ assignments'[o] = assignments[o]
        /\ routes'[r].completed = {} /\ routes'[r].missed = {}
        /\ \A q \in Routes \ {r} : routes'[q] = routes[q]
    BY SaveShape DEF OutcomeInv
  <1> HIDE DEF wanted
  <1> SUFFICES ASSUME NEW o \in Orders, ~Free(o)'
               PROVE  OutcomeFits(orders'[o], assignments'[o].key, routes'[assignments'[o].route])
    BY DEF OutcomesAgree, OutcomeFits
  <1>2. CASE o \in wanted
    BY <1>1, <1>2 DEF OutcomeFits
  <1>3. CASE o \notin wanted
    <2>1. /\ o \notin Assigned(r) /\ orders'[o] = orders[o] /\ assignments'[o] = assignments[o]
          /\ ~Free(o)
      BY <1>1, <1>3 DEF Free, Unassigned
    <2>2. assignments[o].route \in Routes \ {r}
      BY <2>1, FollowFacts DEF OutcomeInv, Assigned
    <2> QED
      BY <1>1, <2>1, <2>2 DEF OutcomeInv, OutcomesAgree, OutcomeFits
  <1> QED
    BY <1>2, <1>3

(* Every step keeps the outcomes of a stop and of its orders the same.     *)
LEMMA OutcomeStep == OutcomeInv /\ [Next]_vars => OutcomeInv'
  <1> SUFFICES ASSUME OutcomeInv, [Next]_vars PROVE OutcomesAgree'
    BY FollowStep DEF OutcomeInv
  <1>follow. FollowInv
    BY DEF OutcomeInv
  <1>same. ASSUME UNCHANGED <<orders, assignments, routes>> PROVE OutcomesAgree'
    BY <1>same DEF OutcomeInv, OutcomesAgree, Free
  <1>kept. ASSUME UNCHANGED assignments
           PROVE  \A o \in Orders : assignments'[o] \in {assignments[o], Unassigned}
    BY <1>kept
  <1>1. CASE Desk
    <2>1. PICK o \in Orders : Free(o) /\ orders' = [orders EXCEPT ![o] = orders'[o]]
      BY <1>1, <1>follow, DeskShape
    <2>2. UNCHANGED <<assignments, routes>> /\ orders \in [Orders -> Order]
      BY <1>1, <1>follow, DeskShape DEF FollowInv, TypeInv, TypeOK
    <2>3. \A q \in Orders : ~Free(q) => orders'[q] = orders[q]
      BY <2>1, <2>2
    <2> QED
      BY <2>2, <2>3 DEF OutcomeInv, OutcomesAgree, Free
  <1>2. CASE Planning
    BY <1>2, <1>same, SaveOutcomes DEF Planning, ValidatePlan, AbandonPlan, RereadRoute
  <1>3. ASSUME NEW r \in Routes, ProgramRoute(r) PROVE OutcomesAgree'
    BY <1>3, <1>follow, <1>kept, ProgramShape, QuietOutcomes DEF AllTo, Assigned, Delivered
  <1>4. ASSUME NEW r \in Routes, StartRoute(r) \/ \E s : AnnotateDelivery(r, s)
        PROVE  OutcomesAgree'
    BY <1>4, <1>follow, <1>kept, StartShape, QuietOutcomes DEF OnWay, Assigned, Delivered
  <1>5. ASSUME NEW r \in Routes, CompleteRoute(r) PROVE OutcomesAgree'
    BY <1>5, <1>follow, <1>kept, <1>same, CompleteShape, QuietOutcomes DEF AllTo, Assigned
  <1>6. ASSUME NEW r \in Routes, CancelRoute(r) PROVE OutcomesAgree'
    BY <1>6, <1>follow, CancelShape, QuietOutcomes DEF AllTo, Assigned, Delivered, Free, Unassigned
  <1> QED
    BY <1>same, <1>1, <1>2, <1>3, <1>4, <1>5, <1>6, CloseOutcomes
    DEF Next, Execution, PlanChange, vars

(* At first there is no outcome.                                           *)
LEMMA InitOutcomes == Init => OutcomeInv
  BY InitFollow DEF Init, OutcomeInv, OutcomesAgree, Free, Unassigned

(* The outcome of a stop is that of each of its orders, in whatever order  *)
(* the stops close and however the route ends, also when a save rewrote it *)
(* after it had left.                                                      *)
THEOREM Outcomes == Spec => []OutcomesAgree
  <1>1. OutcomeInv => OutcomesAgree
    BY DEF OutcomeInv
  <1> QED
    BY InitOutcomes, OutcomeStep, <1>1, PTL DEF Spec

-----------------------------------------------------------------------------
(* The tables implement the journey of the orders.                         *)

Stage(status) ==
  CASE status \in Editable     -> "desk"
    [] status = "assegnato"    -> "loaded"
    [] status = "in_consegna"  -> "travelling"
    [] status \in Delivered    -> "closed"
    [] status = "annullato"    -> "discarded"

Trip(status) ==
  CASE status = "in_corso" -> "running"
    [] status \in ClosedRoute -> "closed"
    [] OTHER -> "open"

(* The stage of each status of an order.                                   *)
LEMMA StageValues ==
  /\ \A status \in Editable : Stage(status) = "desk"
  /\ \A status \in Delivered : Stage(status) = "closed"
  /\ Stage("assegnato") = "loaded" /\ Stage("in_consegna") = "travelling"
  /\ Stage("annullato") = "discarded" /\ Stage("pronto") = "desk"
  /\ \A status \in OrderStatuses \ Delivered : Stage(status) # "closed"
  BY DEF Stage, Editable, Delivered, OrderStatuses

(* The trip of each status of a route.                                     *)
LEMMA TripValues ==
  /\ Trip("in_corso") = "running"
  /\ \A status \in ClosedRoute : Trip(status) = "closed"
  /\ \A status \in {"assente", "bozza", "programmato"} : Trip(status) = "open"
  BY DEF Trip, ClosedRoute

(* What the mapping shows of the tables, before and after a step.          *)
LEMMA Mapping ==
  ASSUME FollowInv
  PROVE  /\ \A o \in Orders : StageOf(o) = Stage(orders[o].status)
         /\ \A o \in Orders : StageOf(o)' = Stage(orders'[o].status)
         /\ \A r \in Routes : TripOf(r) = Trip(routes[r].status)
         /\ \A r \in Routes : TripOf(r)' = Trip(routes'[r].status)
         /\ \A r \in Routes : Journey!On(r) = Assigned(r)
         /\ \A r \in Routes :
              Journey!Open(r) = {o \in Assigned(r) : orders[o].status \notin Delivered}
  <1>1. /\ \A o \in Orders : StageOf(o) = Stage(orders[o].status)
        /\ \A o \in Orders : StageOf(o)' = Stage(orders'[o].status)
    BY DEF StageOf, Stage
  <1>2. /\ \A r \in Routes : TripOf(r) = Trip(routes[r].status)
        /\ \A r \in Routes : TripOf(r)' = Trip(routes'[r].status)
    BY DEF TripOf, Trip
  <1>3. \A r \in Routes : Journey!On(r) = Assigned(r)
    BY DEF Journey!On, Assigned
  <1>4. \A o \in Orders : orders[o].status \in OrderStatuses
    BY DEF FollowInv, TypeInv, TypeOK, Order
  <1>5. \A o \in Orders : StageOf(o) # "closed" <=> orders[o].status \notin Delivered
    BY <1>1, <1>4, StageValues
  <1>6. \A r \in Routes :
          Journey!Open(r) = {o \in Assigned(r) : orders[o].status \notin Delivered}
    BY <1>3, <1>5 DEF Journey!Open, Assigned
  <1> QED
    BY <1>1, <1>2, <1>3, <1>6

(* A save loads its route with exactly the orders of its stops.            *)
LEMMA SaveLoads ==
  ASSUME FollowInv, NEW p \in Planners, NEW r \in Routes, SaveRoute(p, r)
  PROVE  \E S \in SUBSET Orders : Journey!Load(r, S)
  <1> DEFINE wanted == Wanted(requests[p].stops)
  <1>1. /\ wanted \subseteq Orders
        /\ \A o \in Orders :
             IF o \in wanted
             THEN /\ IF o \in Assigned(r) THEN orders[o].status = "assegnato"
                                          ELSE Free(o) /\ orders[o].status = "pronto"
                  /\ orders'[o].status = "assegnato" /\ assignments'[o].route = r
             ELSE IF o \in Assigned(r)
                  THEN orders'[o].status = "pronto" /\ assignments'[o] = Unassigned
                  ELSE orders'[o] = orders[o] /\ assignments'[o] = assignments[o]
        /\ \/ routes[r].status = "assente" /\ routes'[r].status = "bozza"
           \/ /\ routes[r].status # "assente" /\ routes'[r].status = routes[r].status
              /\ routes[r].status \in {"bozza", "programmato"} \/ Drawn(p, r)
        /\ \A q \in Routes \ {r} : routes'[q] = routes[q]
    BY SaveShape
  <1> HIDE DEF wanted
  <1>2. /\ TripOf(r) = "open" \/ Drawn(p, r)
        /\ \A q \in Routes : TripOf(q)' = TripOf(q)
    BY <1>1, Mapping, TripValues
  <1>3. /\ \A o \in wanted \cap Assigned(r) : StageOf(o) = "loaded"
        /\ \A o \in wanted \ Assigned(r) : assignments[o].route = NoRoute /\ StageOf(o) = "desk"
    BY <1>1, Mapping, StageValues DEF Free
  <1>4. \A o \in Orders : assignments'[o].route = IF o \in wanted THEN r
                                                  ELSE IF o \in Assigned(r) THEN NoRoute
                                                  ELSE assignments[o].route
    BY <1>1 DEF Unassigned
  <1>5. \A o \in Orders : StageOf(o)' = IF o \in wanted THEN "loaded"
                                        ELSE IF o \in Assigned(r) THEN "desk" ELSE StageOf(o)
    BY <1>1, Mapping, StageValues
  <1>6. PICK S \in SUBSET Orders : S = wanted
    BY <1>1
  <1>7. Journey!Load(r, S)
    BY <1>2, <1>3, <1>4, <1>5, <1>6, Mapping DEF Journey!Load
  <1> QED
    BY <1>7

(* The departure of a route, with the outcomes S.                          *)
LEMMA EventTravels ==
  ASSUME FollowInv, BilledInv, NEW r \in Routes, NEW to, NEW closes \in BOOLEAN,
         NEW completed, NEW missed,
         NEW S \in SUBSET Journey!Open(r), closes => S = Journey!Open(r),
         Moves(r, to), UNCHANGED assignments,
         Continues(r, IF closes THEN "completato" ELSE "in_corso", completed, missed),
         routes[r].status \in {"bozza", "programmato", "in_corso"},
         \A o \in S : to[o] \in Delivered,
         \A o \in Journey!Open(r) \ S : to[o] = OnWay(r)[o]
  PROVE  Journey!Travel(r, S, closes) /\ S \in SUBSET Orders
  <1>1. TripOf(r) \in {"open", "running"}
    BY Mapping, TripValues
  <1>2. \A q \in Routes : TripOf(q)' = IF q = r THEN IF closes THEN "closed" ELSE "running"
                                                ELSE TripOf(q)
    BY Mapping, TripValues DEF Continues, ClosedRoute
  <1>3. \A o \in Orders : StageOf(o)' = IF o \in S THEN "closed"
                                        ELSE IF o \in Journey!Open(r) /\ TripOf(r) = "open"
                                        THEN "travelling" ELSE StageOf(o)
    <2> SUFFICES ASSUME NEW o \in Orders
                 PROVE  StageOf(o)' = IF o \in S THEN "closed"
                                      ELSE IF o \in Journey!Open(r) /\ TripOf(r) = "open"
                                      THEN "travelling" ELSE StageOf(o)
      OBVIOUS
    <2>1. CASE o \in Journey!Open(r)
      <3>1. orders'[o].status = to[o]
        BY <2>1, Mapping DEF Moves
      <3>2. CASE o \in S
        BY <3>1, <3>2, Mapping, StageValues
      <3>3. CASE o \notin S /\ routes[r].status = "in_corso"
        <4>1. r \in usage /\ TripOf(r) = "running"
          BY <3>3, Mapping, TripValues DEF BilledInv
        <4>2. to[o] = orders[o].status
          BY <2>1, <3>3, <4>1 DEF OnWay
        <4>3. StageOf(o)' = StageOf(o)
          BY <3>1, <4>2, Mapping
        <4> QED
          BY <3>3, <4>1, <4>3
      <3>4. CASE o \notin S /\ routes[r].status \in {"bozza", "programmato"}
        <4>1. r \notin usage /\ TripOf(r) = "open"
          BY <3>4, Mapping, TripValues DEF FollowInv, UsageRuns, ClosedRoute
        <4> QED
          BY <2>1, <3>1, <3>4, <4>1, Mapping, StageValues DEF OnWay
      <3> QED
        BY <3>2, <3>3, <3>4
    <2>2. CASE o \notin Journey!Open(r)
      <3>1. orders'[o] = orders[o]
        BY <2>2, Mapping DEF Moves
      <3> QED
        BY <2>2, <3>1, Mapping
    <2> QED
      BY <2>1, <2>2
  <1>4. S \in SUBSET Orders
    BY Mapping DEF Assigned
  <1>5. Journey!Travel(r, S, closes)
    BY <1>1, <1>2, <1>3 DEF Journey!Travel
  <1> QED
    BY <1>4, <1>5

(* A route that is cancelled is a journey that is cancelled.               *)
LEMMA CancelCancels ==
  ASSUME FollowInv, NEW r \in Routes, CancelRoute(r)
  PROVE  Journey!Cancel(r)
  <1>1. /\ Moves(r, AllTo("pronto")) /\ Continues(r, "annullato", {}, {})
        /\ \A o \in Orders :
             assignments'[o] = IF o \in Assigned(r) /\ orders[o].status \notin Delivered
                               THEN Unassigned ELSE assignments[o]
        /\ routes[r].status \in {"bozza", "programmato", "in_corso"}
    BY CancelShape
  <1>2. /\ TripOf(r) \in {"open", "running"}
        /\ \A q \in Routes : TripOf(q)' = IF q = r THEN "closed" ELSE TripOf(q)
    BY <1>1, Mapping, TripValues DEF Continues, ClosedRoute
  <1>3. \A o \in Orders : o \in Journey!Open(r) <=>
                            o \in Assigned(r) /\ orders[o].status \notin Delivered
    BY Mapping
  <1>4. \A o \in Orders : assignments'[o].route = IF o \in Journey!Open(r) THEN NoRoute
                                                  ELSE assignments[o].route
    BY <1>1, <1>3 DEF Unassigned
  <1>5. \A o \in Orders : StageOf(o)' = IF o \in Journey!Open(r) THEN "desk" ELSE StageOf(o)
    BY <1>1, <1>3, Mapping, StageValues DEF Moves, AllTo
  <1> QED
    BY <1>2, <1>4, <1>5 DEF Journey!Cancel

(* A correction is not seen; a cancellation by the desk discards.          *)
LEMMA DeskDiscards ==
  ASSUME FollowInv, Desk
  PROVE  Journey!Steps
  <1>1. PICK o \in Orders : /\ Free(o) /\ orders[o].status \in Editable
                            /\ orders'[o].status \in Editable \cup {"annullato"}
                            /\ orders' = [orders EXCEPT ![o] = orders'[o]]
    BY DeskShape
  <1>2. UNCHANGED <<assignments, routes>> /\ orders \in [Orders -> Order]
    BY DeskShape DEF FollowInv, TypeInv, TypeOK
  <1>3. \A q \in Orders \ {o} : orders'[q] = orders[q]
    BY <1>1, <1>2
  <1>4. \A q \in Orders \ {o} : StageOf(q)' = StageOf(q)
    BY <1>3, Mapping
  <1>5. \A r \in Routes : TripOf(r)' = TripOf(r)
    BY <1>2, Mapping
  <1>6. StageOf(o) = "desk" /\ StageOf(o)' \in {"desk", "discarded"}
    BY <1>1, Mapping, StageValues
  <1>7. CASE StageOf(o)' = "desk"
    BY <1>2, <1>4, <1>5, <1>6, <1>7 DEF Journey!Steps
  <1>8. CASE StageOf(o)' = "discarded"
    BY <1>1, <1>2, <1>4, <1>5, <1>6, <1>8 DEF Journey!Steps, Journey!Discard, Free
  <1> QED
    BY <1>6, <1>7, <1>8

(* A request gets hold of a row before its route leaves, or not at all.    *)
LEMMA JourneyPlans ==
  ASSUME FollowInv, [Next]_vars
  PROVE  Journey!Plans
  <1> SUFFICES ASSUME NEW r \in Routes, NEW p \in Planners, Drawn(p, r)'
               PROVE  (\E q \in Planners : Drawn(q, r)) \/ TripOf(r) = "open"
    BY Mapping DEF Journey!Plans
  <1>types. requests \in [Planners -> Request] /\ routes \in [Routes -> Route]
    BY DEF FollowInv, TypeInv, TypeOK
  <1>same. ASSUME requests'[p] = requests[p] PROVE Drawn(p, r)
    BY <1>same DEF Drawn
  <1>open. ASSUME routes[r].status \in {"assente", "bozza", "programmato"}
           PROVE  TripOf(r) = "open"
    BY <1>open, Mapping, TripValues
  <1>1. ASSUME NEW q \in Planners, NEW route \in Routes \cup {NoRoute}, NEW stops \in RowSets,
               NEW uses \in SUBSET Resources, NEW held \in BOOLEAN,
               ValidatePlan(q, route, stops, uses, held)
        PROVE  Drawn(p, r) \/ TripOf(r) = "open"
    <2>1. CASE p = q
      <3>1. /\ requests'[p].route = route
            /\ requests'[p].seen \in {RowOf(routes[route]), NotHeld}
        BY <1>1, <1>types, <2>1 DEF ValidatePlan
      <3> QED
        BY <3>1, <1>open DEF Drawn, RowOf, NotHeld
    <2>2. CASE p # q
      BY <1>1, <1>types, <1>same, <2>2 DEF ValidatePlan
    <2> QED
      BY <2>1, <2>2
  <1>2. ASSUME NEW q \in Planners, AbandonPlan(q) PROVE Drawn(p, r)
    <2>1. p # q
      BY <1>2, <1>types, ConstantsAssumption DEF AbandonPlan, Idle, Drawn
    <2> QED
      BY <1>2, <1>types, <1>same, <2>1 DEF AbandonPlan
  <1>3. ASSUME NEW q \in Planners, RereadRoute(q) PROVE Drawn(p, r) \/ TripOf(r) = "open"
    <2>1. CASE p = q
      <3>1. /\ requests[p] \in Request
            /\ requests' = [requests EXCEPT ![p].seen = RowOf(routes[requests[p].route])]
        BY <1>3, <1>types, <2>1 DEF RereadRoute
      <3>2. /\ requests'[p].route = requests[p].route
            /\ requests'[p].seen = RowOf(routes[requests[p].route])
        BY <1>types, <3>1 DEF Request
      <3> QED
        BY <3>2, <1>open DEF Drawn, RowOf
    <2>2. CASE p # q
      BY <1>3, <1>types, <1>same, <2>2 DEF RereadRoute
    <2> QED
      BY <2>1, <2>2
  <1>4. ASSUME NEW q \in Planners, NEW s \in Routes, SaveRoute(q, s)
        PROVE  Drawn(p, r) \/ TripOf(r) = "open"
    <2>1. PICK next \in AfterSave(q, s) : requests' = [requests EXCEPT ![q] = next]
      BY <1>4 DEF SaveRoute
    <2>2. \/ next.route = NoRoute
          \/ next.route = s /\ next.seen.status = Rewritten(q, s).status
      <3>1. requests[q].phase \in {"validated", "retry", "restore"}
        BY <1>4, <1>types DEF SaveRoute, Request
      <3>2. next = Idle \/ \E phase, kept, n : next = FollowUp(q, s, phase, kept, n)
        BY <3>1 DEF AfterSave
      <3> QED
        BY <3>2 DEF Idle, FollowUp, RowOf
    <2>3. Rewritten(q, s).status = routes[s].status \/ routes[s].status = "assente"
      BY <1>4 DEF SaveRoute, Rewritten
    <2>4. CASE p = q
      BY <1>types, <1>open, <2>1, <2>2, <2>3, <2>4, ConstantsAssumption DEF Drawn
    <2>5. CASE p # q
      BY <1>types, <1>same, <2>1, <2>5
    <2> QED
      BY <2>4, <2>5
  <1>5. CASE Planning
    BY <1>1, <1>2, <1>3, <1>4, <1>5 DEF Planning
  <1>6. CASE UNCHANGED requests
    BY <1>same, <1>6
  <1> QED
    BY <1>5, <1>6, RequestsKept DEF Next

(* Every step is a step of the journey, or none.                           *)
LEMMA JourneyStep == OutcomeInv /\ BilledInv /\ [Next]_vars => [Journey!Next]_(Journey!vars)
  <1> SUFFICES ASSUME OutcomeInv, BilledInv, [Next]_vars PROVE Journey!Steps
    BY JourneyPlans DEF OutcomeInv, Journey!Next
  <1>follow. FollowInv
    BY DEF OutcomeInv
  <1>same. ASSUME UNCHANGED <<orders, assignments, routes>> PROVE Journey!Steps
    BY <1>same, <1>follow, Mapping DEF Journey!Steps
  <1>travel. ASSUME NEW r \in Routes, NEW S \in SUBSET Orders, NEW closes \in BOOLEAN,
                    Journey!Travel(r, S, closes)
             PROVE  Journey!Steps
    BY <1>travel DEF Journey!Steps
  <1>load. ASSUME NEW r \in Routes, NEW S \in SUBSET Orders, Journey!Load(r, S)
           PROVE  Journey!Steps
    BY <1>load DEF Journey!Steps
  <1>1. CASE Desk
    BY <1>1, <1>follow, DeskDiscards
  <1>2. ASSUME NEW p \in Planners, NEW r \in Routes, SaveRoute(p, r) PROVE Journey!Steps
    <2>1. \E S \in SUBSET Orders : Journey!Load(r, S)
      BY <1>2, <1>follow, SaveLoads
    <2> QED
      BY <2>1, <1>load
  <1>3. ASSUME NEW r \in Routes, ProgramRoute(r) PROVE Journey!Steps
    <2>1. /\ Moves(r, AllTo("assegnato")) /\ Continues(r, "programmato", {}, {})
          /\ routes[r].status \in {"bozza", "programmato"} /\ UNCHANGED assignments
      BY <1>3, <1>follow, ProgramShape
    <2>2. \A q \in Routes : TripOf(q)' = TripOf(q)
      BY <2>1, <1>follow, Mapping, TripValues DEF Continues
    <2>3. \A o \in Assigned(r) : orders[o].status = "assegnato"
      BY <2>1, <1>follow, FollowFacts DEF Fits, FitsStatus, LateRow, ClosedRoute
    <2>4. \A o \in Orders : orders'[o].status = orders[o].status
      BY <2>1, <2>3 DEF Moves, AllTo
    <2> QED
      BY <2>1, <2>2, <2>4, <1>follow, Mapping DEF Journey!Steps
  <1>4. ASSUME NEW r \in Routes, StartRoute(r) \/ \E s : AnnotateDelivery(r, s)
        PROVE  Journey!Steps
    <2>1. /\ Moves(r, OnWay(r)) /\ Continues(r, "in_corso", {}, {})
          /\ routes[r].status \in {"bozza", "programmato", "in_corso"} /\ UNCHANGED assignments
      BY <1>4, <1>follow, StartShape
    <2>2. Journey!Travel(r, {}, FALSE) /\ {} \in SUBSET Orders
      BY <2>1, <1>follow, EventTravels
    <2> QED
      BY <2>2, <1>travel
  <1>5. ASSUME NEW r \in Routes, NEW s \in routes[r].stops, NEW phase \in {"delivered", "missed"},
               CloseDelivery(r, s, phase)
        PROVE  Journey!Steps
    <2>1. PICK closes \in BOOLEAN :
            /\ Moves(r, OutcomeTo(r, s, phase, closes))
            /\ Continues(r, IF closes THEN "completato" ELSE "in_corso",
                         IF phase = "delivered" THEN {s} ELSE {},
                         IF phase = "missed" THEN {s} ELSE {})
      BY <1>5, <1>follow, CloseShape
    <2>2. /\ s \notin routes[r].completed \cup routes[r].missed
          /\ routes[r].status \in {"bozza", "programmato", "in_corso"} /\ UNCHANGED assignments
      BY <1>5, <1>follow, CloseShape
    <2> DEFINE S == IF closes THEN Journey!Open(r)
                    ELSE {o \in Assigned(r) : assignments[o].key = s}
               to == OutcomeTo(r, s, phase, closes)
    <2>3. S \in SUBSET Journey!Open(r) /\ (closes => S = Journey!Open(r))
      BY <2>2, <1>follow, OpenStopOrders, Mapping
    <2>4. Target(phase).status \in Delivered /\ "non_consegnato" \in Delivered
      BY DEF Target, Delivered
    <2>5. Journey!Open(r) \subseteq Assigned(r) /\ Assigned(r) \subseteq Orders
      BY <1>follow, Mapping DEF Assigned
    <2>6. \A o \in S : to[o] \in Delivered
      BY <2>3, <2>4, <2>5 DEF OutcomeTo
    <2>7. \A o \in Journey!Open(r) \ S : to[o] = OnWay(r)[o]
      BY <2>3, <2>5 DEF OutcomeTo
    <2> HIDE DEF S, to
    <2>8. Moves(r, to)
      BY <2>1 DEF to
    <2>9. Journey!Travel(r, S, closes) /\ S \in SUBSET Orders
      BY <2>1, <2>2, <2>3, <2>6, <2>7, <2>8, <1>follow, EventTravels
    <2> QED
      BY <2>9, <1>travel
  <1>6. ASSUME NEW r \in Routes, CompleteRoute(r) PROVE Journey!Steps
    <2>1. CASE UNCHANGED <<orders, routes>>
      BY <1>6, <2>1, <1>same, <1>follow, CompleteShape
    <2>2. CASE ~UNCHANGED <<orders, routes>>
      <3>1. /\ Moves(r, AllTo("non_consegnato")) /\ Continues(r, "completato", {}, {})
            /\ routes[r].status \in {"bozza", "programmato", "in_corso"} /\ UNCHANGED assignments
        BY <1>6, <2>2, <1>follow, CompleteShape
      <3>2. \A o \in Journey!Open(r) : AllTo("non_consegnato")[o] \in Delivered
        BY <1>follow, Mapping DEF AllTo, Assigned, Delivered
      <3>3. Journey!Travel(r, Journey!Open(r), TRUE) /\ Journey!Open(r) \in SUBSET Orders
        BY <3>1, <3>2, <1>follow, EventTravels
      <3> QED
        BY <3>3, <1>travel
    <2> QED
      BY <2>1, <2>2
  <1>7. ASSUME NEW r \in Routes, CancelRoute(r) PROVE Journey!Steps
    BY <1>7, <1>follow, CancelCancels DEF Journey!Steps
  <1> QED
    BY <1>same, <1>1, <1>2, <1>3, <1>4, <1>5, <1>6, <1>7
    DEF Next, Planning, Execution, PlanChange, vars, ValidatePlan, AbandonPlan, RereadRoute

(* So is the beginning.                                                    *)
LEMMA JourneyInit == Init => Journey!Init
  <1> SUFFICES ASSUME Init PROVE Journey!Init
    OBVIOUS
  <1>1. ASSUME NEW o \in Orders
        PROVE  assignments[o].route = NoRoute /\ orders[o].status = "nuovo"
    <2>1. PICK a \in Addresses :
            orders[o] = [status |-> "nuovo", delivery |-> "not_assigned", version |-> 1,
                         address |-> a, verified |-> FALSE]
      BY DEF Init
    <2> QED
      BY <2>1 DEF Init, Unassigned
  <1>2. \A r \in Routes : routes[r].status = "assente"
    BY DEF Init
  <1>3. FollowInv
    BY InitFollow
  <1>4. \A o \in Orders : StageOf(o) = "desk"
    BY <1>1, <1>3, Mapping, StageValues DEF Editable
  <1>5. \A r \in Routes : TripOf(r) = "open"
    BY <1>2, <1>3, Mapping, TripValues
  <1>6. \A r \in Routes, p \in Planners : ~Drawn(p, r)
    BY ConstantsAssumption DEF Init, Drawn, Idle
  <1> QED
    BY <1>1, <1>4, <1>5, <1>6 DEF Journey!Init

(* Every behaviour of orders, routes and concurrent planning requests is a *)
(* journey of the orders: each step is one of the journey, or not seen,    *)
(* and a save that comes too late carries out a plan which was drawn       *)
(* before the departure.                                                   *)
THEOREM JourneyImplemented == Spec => ImplementsJourney
  <1>1. Init => Journey!Init
    BY JourneyInit
  <1>2. Init => OutcomeInv /\ BilledInv
    BY InitOutcomes, InitBilled
  <1>3. OutcomeInv /\ BilledInv /\ [Next]_vars => OutcomeInv' /\ BilledInv'
    BY OutcomeStep, BilledStep
  <1>4. OutcomeInv /\ BilledInv /\ [Next]_vars => [Journey!Next]_(Journey!vars)
    BY JourneyStep
  <1> QED
    BY <1>1, <1>2, <1>3, <1>4, PTL DEF Spec, ImplementsJourney, Journey!Spec

=============================================================================
