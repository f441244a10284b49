--------------------------- MODULE PlanningProofs ---------------------------
(***************************************************************************)
(* Proofs about FleetPlan, for every set of orders, routes, resources and  *)
(* operators, every set of stops a client may send and every bound.        *)
(***************************************************************************)
EXTENDS FleetPlan, RouteOrdersProofs

-----------------------------------------------------------------------------
(* Type correctness, and the routes that run.                              *)

(* TypeInv is what the steps of RouteOrders need.                          *)
FleetTypes == TypeInv /\ FleetTypeOK

(* The current references are references.                                  *)
LEMMA CurrentType == TypeOK => Current \in References
  <1> SUFFICES ASSUME TypeOK PROVE Current \in References
    OBVIOUS
  <1>1. \A o \in Orders : orders[o].version \in Nat /\ orders[o].address \in Addresses
    BY DEF TypeOK, Order
  <1> QED
    BY <1>1, ConstantRows DEF Current, CurrentReferences, References

(* References stay references when they are refreshed.                     *)
LEMMA RefreshedType ==
  ASSUME TypeOK, NEW references \in References
  PROVE  Refreshed(references) \in References
  <1>1. \A o \in Orders : Current[o] \in [version : Nat, address : Addresses]
    BY CurrentType DEF References
  <1> QED
    BY <1>1 DEF Refreshed, References

(* The drafts of a plan are routes.                                        *)
LEMMA DraftsAreRoutes ==
  ASSUME plan \in Plan
  PROVE  /\ Drafts \subseteq Routes /\ NoRoute \notin Drafts
         /\ plan \in Plan
  BY DEF Plan, Drafts

(* What saving the drafts does to each table.                              *)
LEMMA SavedTables ==
  ASSUME FleetTypes, NEW drafts, SaveDrafts(drafts)
  PROVE  /\ orders' \in [Orders -> Order]
         /\ assignments' \in [Orders -> Assignment]
         /\ routes' \in [Routes -> Route]
         /\ \A r \in Routes : \/ routes'[r] = routes[r]
                              \/ routes[r].status = "assente" /\ routes'[r].status = "bozza"
         /\ \A v \in Used(plan.proposal) : /\ drafts[v] \in Routes
                                         /\ routes'[drafts[v]].status = "bozza"
  <1>types. /\ \A o \in Orders : orders[o] \in Order /\ assignments[o] \in Assignment
            /\ \A r \in Routes : routes[r] \in Route
            /\ plan \in Plan
    BY DEF FleetTypes, FleetTypeOK, TypeOK
  <1>drafts. drafts \in [Resources -> Routes \cup {NoRoute}]
    BY DEF SaveDrafts
  <1>1. orders' \in [Orders -> Order]
    <2>1. \A o \in Orders : Moved(orders[o], "assegnato", "draft") \in Order
      BY <1>types, MovedType DEF OrderStatuses, DeliveryStatuses, Editable
    <2> QED
      BY <1>types, <2>1 DEF SaveDrafts
  <1>2. assignments' \in [Orders -> Assignment]
    <2>1. \A o \in Orders : plan.validated[o].address \in Addresses
      BY <1>types DEF Plan, References
    <2>2. \A o \in Orders : plan.proposal[o] # NoResource => plan.proposal[o] \in Resources
      BY <1>types DEF Plan, Proposals
    <2>3. \A o \in Orders : plan.proposal[o] # NoResource =>
            [route |-> drafts[plan.proposal[o]], key |-> {o},
             address |-> plan.validated[o].address] \in Assignment
      BY <1>drafts, <2>1, <2>2 DEF Assignment
    <2> QED
      BY <1>types, <2>3 DEF SaveDrafts
  <1>3. ASSUME NEW r \in Routes
        PROVE  /\ routes'[r] \in Route
               /\ \/ routes'[r] = routes[r]
                  \/ routes[r].status = "assente" /\ routes'[r].status = "bozza"
               /\ r \in {drafts[v] : v \in Used(plan.proposal)} => routes'[r].status = "bozza"
    <2> DEFINE created == {drafts[v] : v \in Used(plan.proposal)}
               v == CHOOSE w \in Resources : drafts[w] = r
               stops == {{o} : o \in {q \in Orders : plan.proposal[q] = v}}
               row == [routes[r] EXCEPT !.status = "bozza", !.stops = stops, !.uses = {v}]
    <2>1. CASE r \notin created
      BY <1>types, <2>1 DEF SaveDrafts
    <2>2. CASE r \in created
      <3>1. routes[r].status = "assente" /\ routes'[r] = row
        BY <2>2 DEF SaveDrafts
      <3>2. PICK w \in Used(plan.proposal) : drafts[w] = r
        BY <2>2
      <3>3. w \in Resources
        BY <1>types DEF Used, Plan, Proposals
      <3>4. v \in Resources
        BY <3>2, <3>3
      <3>5. stops \in Stops
        BY DEF Stops
      <3> HIDE DEF v, stops
      <3>6. row \in Route /\ row.status = "bozza"
        BY <1>types, <3>4, <3>5 DEF Route, RouteStatuses
      <3> QED
        BY <3>1, <3>6
    <2> QED
      BY <2>1, <2>2
  <1>4. routes' \in [Routes -> Route]
    <2>1. DOMAIN routes' = Routes /\ routes' = [r \in Routes |-> routes'[r]]
      BY DEF SaveDrafts
    <2> QED
      BY <1>3, <2>1
  <1>5. \A v \in Used(plan.proposal) : drafts[v] \in Routes
    <2>1. Used(plan.proposal) \subseteq Resources
      BY <1>types DEF Used, Plan, Proposals
    <2> QED
      BY <1>drafts, <2>1 DEF SaveDrafts
  <1> QED
    BY <1>1, <1>2, <1>3, <1>4, <1>5

(* ... and to the plan.                                                    *)
LEMMA SavedPlan ==
  ASSUME FleetTypes, NEW drafts, SaveDrafts(drafts)
  PROVE  /\ plan' \in Plan
         /\ plan.status = "preview" /\ plan'.status = "saved"
         /\ plan'.route_ids = drafts
         /\ plan'.proposal = plan.proposal /\ plan'.validated = plan.validated
  <1>1. /\ plan' = [plan EXCEPT !.status = "saved", !.route_ids = drafts, !.version = @ + 1]
        /\ plan.status = "preview"
        /\ drafts \in [Resources -> Routes \cup {NoRoute}]
    BY DEF SaveDrafts, Savable
  <1>2. plan \in Plan /\ plan.version \in Nat
    BY DEF FleetTypes, FleetTypeOK, Plan
  <1>3. plan.version + 1 \in Nat
    BY <1>2
  <1>4. \A row \in Plan, n \in Nat :
          LET next == [row EXCEPT !.status = "saved", !.route_ids = drafts, !.version = n]
          IN /\ next \in Plan
             /\ next.status = "saved" /\ next.route_ids = drafts
             /\ next.proposal = row.proposal /\ next.validated = row.validated
    BY <1>1 DEF Plan, PlanStatuses
  <1> QED
    BY <1>1, <1>2, <1>3, <1>4

(* Orders and routes of a group that is scheduled or released.             *)
LEMMA GroupTables ==
  ASSUME FleetTypes, NEW members, NEW phase \in Phases, NEW status \in RouteStatuses
  PROVE  /\ SyncOrders(orders, members, phase) \in [Orders -> Order]
         /\ [r \in Routes |-> IF r \in Drafts THEN [routes[r] EXCEPT !.status = status]
                                              ELSE routes[r]] \in [Routes -> Route]
         /\ [o \in Orders |-> IF o \in members THEN Unassigned ELSE assignments[o]]
              \in [Orders -> Assignment]
         /\ \A r \in Routes : [routes[r] EXCEPT !.status = status].status = status
  <1>1. TypeOK
    BY DEF FleetTypes, FleetTypeOK
  <1>2. \A row \in Route : /\ [row EXCEPT !.status = status] \in Route
                           /\ [row EXCEPT !.status = status].status = status
    BY DEF Route
  <1>3. \A r \in Routes : routes[r] \in Route
    BY <1>1 DEF TypeOK
  <1>4. \A o \in Orders : assignments[o] \in Assignment
    BY <1>1 DEF TypeOK
  <1> QED
    BY <1>1, <1>2, <1>3, <1>4, SyncOrdersType, ConstantRows DEF TypeOK

(* A save beside the group rewrites one route, which keeps its status.     *)
LEMMA AloneTables ==
  ASSUME FleetTypes, NEW p \in Planners, NEW r \in Routes, SaveRoute(p, r)
  PROVE  /\ \A q \in Routes \ {r} : routes'[q] = routes[q]
         /\ routes'[r].status = IF requests[p].route = NoRoute THEN "bozza"
                                                              ELSE routes[r].status
         /\ requests[p].route = NoRoute => routes[r].status = "assente"
         /\ requests[p].route # NoRoute => requests[p].route = r
         /\ overtaken \subseteq overtaken'
         /\ routes'[r].status = "in_corso" => r \in overtaken'
  <1>1. /\ routes \in [Routes -> Route]
        /\ routes' = [routes EXCEPT ![r] = Rewritten(p, r)]
    BY DEF FleetTypes, TypeInv, TypeOK, SaveRoute
  <1>2. routes'[r] = Rewritten(p, r) /\ \A q \in Routes \ {r} : routes'[q] = routes[q]
    BY <1>1
  <1>3. routes'[r].status = IF requests[p].route = NoRoute THEN "bozza" ELSE routes[r].status
    BY <1>2 DEF Rewritten
  <1>4. /\ requests[p].route = NoRoute => routes[r].status = "assente"
        /\ requests[p].route # NoRoute => requests[p].route = r
        /\ overtaken \subseteq overtaken'
    BY DEF SaveRoute
  <1>5. ASSUME routes'[r].status = "in_corso" PROVE r \in overtaken'
    <2>1. requests[p].route # NoRoute /\ routes[r].status = "in_corso"
      BY <1>3, <1>5
    <2>2. View(p, r).status \in {"bozza", "programmato"}
      BY <2>1 DEF SaveRoute, Acceptable
    <2> QED
      BY <2>1, <2>2 DEF SaveRoute, Overtaken
  <1> QED
    BY <1>2, <1>3, <1>4, <1>5

(* At first no route runs.                                                 *)
LEMMA InitFleetTypes == FleetInit => FleetTypes /\ OneRunningRoutePerResource
  <1> SUFFICES ASSUME FleetInit PROVE FleetTypes /\ OneRunningRoutePerResource
    OBVIOUS
  <1>1. orders \in [Orders -> Order]
    <2>1. \A a \in Addresses : [status |-> "pronto", delivery |-> "not_assigned", version |-> 2,
                                address |-> a, verified |-> TRUE] \in Order
      BY DEF Order, OrderStatuses, DeliveryStatuses, Editable
    <2> QED
      BY <2>1 DEF FleetInit
  <1>2. routes \in [Routes -> Route] /\ \A r \in Routes : routes[r].status = "assente"
    BY DEF FleetInit, Route, RouteStatuses, Stops
  <1>3. assignments \in [Orders -> Assignment] /\ requests \in [Planners -> Request]
    BY ConstantRows DEF FleetInit
  <1>4. \A p \in Planners : requests[p].phase = "retry" => requests[p].attempts \in 1 .. 2
    BY DEF FleetInit, Idle
  <1>5. TypeInv
    BY <1>1, <1>2, <1>3, <1>4 DEF FleetInit, TypeInv, TypeOK
  <1>6. plan \in Plan
    BY ConstantRows DEF FleetInit, Plan, PlanStatuses, Proposals, NoDrafts
  <1>7. programs \in [Operators -> Program]
    BY ConstantRows DEF FleetInit, Program, Resting
  <1> QED
    BY <1>2, <1>5, <1>6, <1>7
    DEF FleetInit, FleetTypes, FleetTypeOK, OneRunningRoutePerResource, TypeInv

(* The steps that only write the plan or what a request on it holds.       *)
LEMMA RequestTypes ==
  ASSUME FleetTypes,
         UNCHANGED <<orders, assignments, routes, usage, active, requests, overtaken>>,
         plan' \in Plan, programs' \in [Operators -> Program],
         revised' = revised, excused' \in BOOLEAN
  PROVE  FleetTypes'
  BY DEF FleetTypes, FleetTypeOK, TypeInv, TypeOK

(* ... and those that write the tables.                                    *)
LEMMA TableTypes ==
  ASSUME FleetTypes, UNCHANGED <<usage, active, requests, overtaken>>,
         orders' \in [Orders -> Order], assignments' \in [Orders -> Assignment],
         routes' \in [Routes -> Route], plan' \in Plan, programs' \in [Operators -> Program],
         revised' \subseteq Routes, excused' \in BOOLEAN
  PROVE  FleetTypes'
  BY DEF FleetTypes, FleetTypeOK, TypeInv, TypeOK

(* The types after each step of the preview.                               *)
LEMMA PreviewTypes == FleetTypes /\ Preview => FleetTypes'
  <1> SUFFICES ASSUME FleetTypes, Preview PROVE FleetTypes'
    OBVIOUS
  <1>types. /\ plan \in Plan /\ plan.version \in Nat
            /\ plan.configuration \in References /\ plan.validated \in References
            /\ programs \in [Operators -> Program]
            /\ \A f \in Operators : programs[f].validated \in References
            /\ excused \in BOOLEAN /\ TypeOK
    BY DEF FleetTypes, FleetTypeOK, Plan, Program
  <1>next. Refreshed(plan.configuration) \in References /\ Current \in References
    BY <1>types, RefreshedType, CurrentType
  <1>rest. Resting \in Program
    BY ConstantRows DEF Resting, Program
  <1>1. CASE LoadPage
    <2>1. [plan EXCEPT !.status = "pagina", !.configuration = Current] \in Plan
      BY <1>types, <1>next DEF Plan, PlanStatuses
    <2> QED
      BY <1>1, <2>1, <1>types, RequestTypes DEF LoadPage
  <1>2. ASSUME NEW proposal \in Proposals, CreatePreview(proposal) PROVE FleetTypes'
    <2> DEFINE next == Refreshed(plan.configuration)
    <2>1. \A references \in References :
            [plan EXCEPT !.status = "preview", !.version = 1, !.proposal = proposal,
                         !.validated = references] \in Plan
      BY <1>types DEF Plan, PlanStatuses
    <2>2. plan' \in Plan
      BY <1>2, <1>next, <2>1 DEF CreatePreview
    <2> QED
      BY <1>2, <2>2, <1>types, RequestTypes DEF CreatePreview
  <1>3. ASSUME NEW f \in Operators, StartRevision(f) PROVE FleetTypes'
    <2>1. [phase |-> "distributing", version |-> plan.version,
           validated |-> Refreshed(plan.configuration)] \in Program
      BY <1>types, <1>next DEF Program
    <2>2. programs' \in [Operators -> Program]
      BY <1>3, <1>types, <2>1 DEF StartRevision
    <2> QED
      BY <1>3, <2>2, <1>types, RequestTypes DEF StartRevision
  <1>4. ASSUME NEW f \in Operators, NEW proposal \in Proposals, FinishRevision(f, proposal)
        PROVE  FleetTypes'
    <2>1. \A references \in References, n \in Nat :
            [plan EXCEPT !.validated = references, !.proposal = proposal, !.version = n] \in Plan
      BY <1>types DEF Plan
    <2>2. plan.version + 1 \in Nat /\ programs[f].validated \in References
      BY <1>types
    <2>3. plan' \in Plan
      BY <1>4, <2>1, <2>2 DEF FinishRevision
    <2>4. programs' \in [Operators -> Program]
      BY <1>4, <1>types, <1>rest DEF FinishRevision
    <2> QED
      BY <1>4, <2>3, <2>4, <1>types, RequestTypes DEF FinishRevision
  <1>5. ASSUME NEW f \in Operators, FailRevision(f) PROVE FleetTypes'
    BY <1>5, <1>types, <1>rest, RequestTypes DEF FailRevision
  <1> QED
    BY <1>1, <1>2, <1>3, <1>4, <1>5 DEF Preview

(* The types after each step of the programming.                           *)
LEMMA ProgrammingTypes == FleetTypes /\ Programming => FleetTypes'
  <1> SUFFICES ASSUME FleetTypes, Programming PROVE FleetTypes'
    OBVIOUS
  <1>types. /\ plan \in Plan /\ plan.version \in Nat
            /\ programs \in [Operators -> Program]
            /\ revised \subseteq Routes /\ excused \in BOOLEAN
            /\ assignments \in [Orders -> Assignment] /\ TypeOK
    BY DEF FleetTypes, FleetTypeOK, Plan, TypeOK
  <1>version. plan.version + 1 \in Nat
    BY <1>types
  <1>rest. Resting \in Program
    BY ConstantRows DEF Resting, Program
  <1>phase. \A f \in Operators, phase \in {"confirming", "saved", "enriched", "failed"},
               n \in Nat :
              /\ [programs[f] EXCEPT !.phase = phase] \in Program
              /\ [programs[f] EXCEPT !.phase = phase, !.version = n] \in Program
    BY <1>types DEF Program
  <1>members. \A r \in Routes : Assigned(r) \subseteq Orders
    BY DEF Assigned
  <1>1. CASE Confirm
    <2>1. PICK drafts \in Allocations : SaveDrafts(drafts)
      BY <1>1 DEF Confirm
    <2>2. /\ orders' \in [Orders -> Order] /\ assignments' \in [Orders -> Assignment]
          /\ routes' \in [Routes -> Route] /\ plan' \in Plan
      BY <2>1, SavedTables, SavedPlan
    <2> QED
      BY <1>1, <2>2, <1>types, TableTypes DEF Confirm
  <1>2. ASSUME NEW f \in Operators, BeginProgram(f) PROVE FleetTypes'
    <2> DEFINE phase == IF plan.status = "preview" THEN "confirming" ELSE "saved"
    <2>1. programs' = [programs EXCEPT ![f] =
                         [programs[f] EXCEPT !.phase = phase, !.version = plan.version]]
      BY <1>2, <1>types DEF BeginProgram
    <2>2. [programs[f] EXCEPT !.phase = phase, !.version = plan.version] \in Program
      BY <1>phase, <1>types
    <2>3. programs' \in [Operators -> Program]
      BY <1>types, <2>1, <2>2
    <2> QED
      BY <1>2, <2>3, <1>types, RequestTypes DEF BeginProgram
  <1>3. ASSUME NEW f \in Operators, ConfirmDrafts(f) PROVE FleetTypes'
    <2>1. /\ orders' \in [Orders -> Order] /\ assignments' \in [Orders -> Assignment]
          /\ routes' \in [Routes -> Route] /\ plan' \in Plan /\ excused' \in BOOLEAN
      <3>1. CASE \E drafts \in Allocations : SaveDrafts(drafts) /\ excused' = FALSE
        BY <3>1, SavedTables, SavedPlan
      <3>2. CASE UNCHANGED <<orders, assignments, routes, plan, excused>>
        BY <3>2, <1>types DEF TypeOK
      <3> QED
        BY <1>3, <3>1, <3>2 DEF ConfirmDrafts
    <2>2. plan'.version \in Nat
      BY <2>1 DEF Plan
    <2>3. Confirmed(f, plan'.version) \in Program
      BY <2>2, <1>phase DEF Confirmed
    <2>4. programs' \in [Operators -> Program]
      BY <1>3, <1>types, <2>3 DEF ConfirmDrafts
    <2> QED
      BY <1>3, <2>1, <2>4, <1>types, TableTypes DEF ConfirmDrafts
  <1>4. ASSUME NEW f \in Operators, EnrichDrafts(f) PROVE FleetTypes'
    <2>1. programs' \in [Operators -> Program]
      BY <1>4, <1>types DEF EnrichDrafts, Program
    <2> QED
      BY <1>4, <2>1, <1>types, RequestTypes DEF EnrichDrafts
  <1>5. ASSUME NEW f \in Operators, ScheduleGroup(f) PROVE FleetTypes'
    <2>1. orders' \in [Orders -> Order] /\ routes' \in [Routes -> Route]
      BY <1>5, GroupTables DEF ScheduleGroup, Scheduled, Phases, RouteStatuses
    <2>2. \A n \in Nat : [plan EXCEPT !.status = "programmed", !.version = n] \in Plan
      BY <1>types DEF Plan, PlanStatuses
    <2>3. plan' \in Plan
      BY <1>5, <1>version, <2>2 DEF ScheduleGroup
    <2>4. programs' \in [Operators -> Program]
      BY <1>5, <1>types, <1>rest DEF ScheduleGroup
    <2> QED
      BY <1>5, <2>1, <2>3, <2>4, <1>types, TableTypes DEF ScheduleGroup
  <1>6. ASSUME NEW f \in Operators, AnswerProgrammed(f) PROVE FleetTypes'
    BY <1>6, <1>types, <1>rest, RequestTypes DEF AnswerProgrammed
  <1>7. ASSUME NEW f \in Operators, FailProgram(f) PROVE FleetTypes'
    <2>1. programs' \in [Operators -> Program]
      BY <1>7, <1>types DEF FailProgram, Program
    <2> QED
      BY <1>7, <2>1, <1>types, RequestTypes DEF FailProgram
  <1>8. ASSUME NEW f \in Operators, ReleaseDrafts(f) PROVE FleetTypes'
    <2> DEFINE members == UNION {Assigned(r) : r \in Drafts}
               synced == SyncOrders(orders, members, "cancelled")
    <2>1. /\ orders' = synced /\ synced \in [Orders -> Order]
          /\ assignments' \in [Orders -> Assignment] /\ routes' \in [Routes -> Route]
      BY <1>8, GroupTables DEF ReleaseDrafts, Phases, RouteStatuses
    <2>2. plan' = [plan EXCEPT !.status = "preview", !.route_ids = NoDrafts, !.version = @ + 1,
                               !.configuration = RenewedVersions(@, synced),
                               !.validated = RenewedVersions(@, synced)]
      BY <1>8 DEF ReleaseDrafts
    <2> HIDE DEF synced
    <2>3. ASSUME NEW references \in References PROVE RenewedVersions(references, synced) \in References
      <3>1. \A o \in Orders : synced[o].version \in Nat
        BY <2>1 DEF Order
      <3> QED
        BY <3>1 DEF RenewedVersions, References
    <2>4. \A a, b \in References, n \in Nat :
            [plan EXCEPT !.status = "preview", !.route_ids = NoDrafts, !.version = n,
                         !.configuration = a, !.validated = b] \in Plan
      BY <1>types DEF Plan, PlanStatuses, NoDrafts
    <2>5. plan.configuration \in References /\ plan.validated \in References
      BY <1>types DEF Plan
    <2>6. plan' \in Plan
      BY <1>version, <2>2, <2>3, <2>4, <2>5
    <2>7. programs' \in [Operators -> Program]
      BY <1>8, <1>types, <1>rest DEF ReleaseDrafts
    <2> QED
      BY <1>8, <2>1, <2>6, <2>7, <1>types, TableTypes DEF ReleaseDrafts
  <1>9. ASSUME NEW f \in Operators, LeaveDrafts(f) PROVE FleetTypes'
    BY <1>9, <1>types, <1>rest, RequestTypes DEF LeaveDrafts
  <1>10. ASSUME NEW f \in Operators, Crash(f) PROVE FleetTypes'
    BY <1>10, <1>types, <1>rest, RequestTypes DEF Crash
  <1> QED
    BY <1>1, <1>2, <1>3, <1>4, <1>5, <1>6, <1>7, <1>8, <1>9, <1>10 DEF Programming, Step

(* What the desk and the office do beside the group are steps of           *)
(* RouteOrders.                                                            *)
LEMMA OfficeTypes == FleetTypes /\ (DeskAlone \/ RoutesAlone) => FleetTypes'
  <1> SUFFICES ASSUME FleetTypes, DeskAlone \/ RoutesAlone PROVE FleetTypes'
    OBVIOUS
  <1>1. ASSUME Next, UNCHANGED <<plan, programs, excused>>, revised' \subseteq Routes
        PROVE  FleetTypes'
    BY <1>1, TypeStep DEF FleetTypes, FleetTypeOK, TypeInv
  <1>2. ASSUME Next, UNCHANGED <<plan, programs, revised, excused>> PROVE FleetTypes'
    BY <1>1, <1>2 DEF FleetTypes, FleetTypeOK
  <1>3. CASE DeskAlone
    BY <1>2, <1>3 DEF DeskAlone, Next
  <1>4. ASSUME NEW r \in Routes, ProgramRoute(r) \/ StartRoute(r) \/ CancelRoute(r),
               UNCHANGED <<plan, programs, revised, excused>>
        PROVE  FleetTypes'
    BY <1>2, <1>4 DEF Next, Execution
  <1>5. ASSUME NEW p \in Planners, NEW route \in Routes \cup {NoRoute}, NEW stops \in RowSets,
               NEW v \in Resources, NEW held \in BOOLEAN,
               ValidatePlan(p, route, stops, {v}, held),
               UNCHANGED <<plan, programs, revised, excused>>
        PROVE  FleetTypes'
    <2>1. {v} \in SUBSET Resources
      OBVIOUS
    <2>2. Planning
      BY <1>5, <2>1 DEF Planning
    <2> QED
      BY <1>2, <1>5, <2>2 DEF Next
  <1>6. ASSUME NEW p \in Planners, AbandonPlan(p) \/ RereadRoute(p),
               UNCHANGED <<plan, programs, revised, excused>>
        PROVE  FleetTypes'
    BY <1>2, <1>6 DEF Next, Planning
  <1>7. ASSUME NEW p \in Planners, NEW r \in Routes, SaveAlone(p, r) PROVE FleetTypes'
    <2>1. Next /\ UNCHANGED <<plan, programs, excused>>
      BY <1>7 DEF SaveAlone, Next, Planning
    <2>2. revised' \subseteq Routes
      BY <1>7 DEF SaveAlone, FleetTypes, FleetTypeOK
    <2> QED
      BY <1>1, <2>1, <2>2
  <1> QED
    BY <1>3, <1>4, <1>5, <1>6, <1>7 DEF RoutesAlone

(* The types after every step.                                             *)
LEMMA FleetTypeStep == FleetTypes /\ [FleetNext]_fleetVars => FleetTypes'
  <1>1. FleetTypes /\ UNCHANGED fleetVars => FleetTypes'
    BY DEF fleetVars, FleetTypes, FleetTypeOK, TypeInv, TypeOK
  <1> QED
    BY <1>1, PreviewTypes, ProgrammingTypes, OfficeTypes DEF FleetNext

(* No step but a start puts a route on the road, and no step changes the   *)
(* resources of one that runs, but a save with a row read before.          *)
LEMMA RunsKept ==
  ASSUME OneRunningRoutePerResource, overtaken \subseteq overtaken',
         \A r \in Routes : routes'[r].status = "in_corso" =>
           \/ r \in overtaken'
           \/ routes[r].status = "in_corso" /\ routes'[r].uses = routes[r].uses
  PROVE  OneRunningRoutePerResource'
  BY DEF OneRunningRoutePerResource

(* A route starts when no other route runs with its resources.             *)
LEMMA StartRuns ==
  ASSUME FleetTypes, OneRunningRoutePerResource, NEW r \in Routes, StartRoute(r)
  PROVE  OneRunningRoutePerResource'
  <1>1. /\ TypeOK /\ routes \in [Routes -> Route]
        /\ routes' = [routes EXCEPT ![r] = StartedRoute(r)]
        /\ routes[r].status = "in_corso" \/ ResourcesIdle(r)
        /\ overtaken' = overtaken
    BY DEF StartRoute, MayStart, FleetTypes, TypeInv, TypeOK, ClosedRoute
  <1>2. StartedRoute(r).uses = routes[r].uses
    BY <1>1, StartedFields
  <1>3. \A q \in Routes : routes'[q].uses = routes[q].uses
    BY <1>1, <1>2
  <1>4. \A q \in Routes \ {r} : routes'[q] = routes[q]
    BY <1>1
  <1>5. \A q \in Routes \ {r} :
          routes[q].status = "in_corso" =>
            \/ routes[q].uses \cap routes[r].uses = {}
            \/ q \in overtaken \/ r \in overtaken
    BY <1>1 DEF ResourcesIdle, OneRunningRoutePerResource
  <1> QED
    BY <1>1, <1>3, <1>4, <1>5 DEF OneRunningRoutePerResource

(* Every step keeps one running route per resource.                        *)
LEMMA FleetRunsStep ==
  FleetTypes /\ OneRunningRoutePerResource /\ [FleetNext]_fleetVars
    => OneRunningRoutePerResource'
  <1> SUFFICES ASSUME FleetTypes, OneRunningRoutePerResource, [FleetNext]_fleetVars
               PROVE  OneRunningRoutePerResource'
    OBVIOUS
  <1>types. /\ routes \in [Routes -> Route] /\ plan \in Plan
            /\ \A r \in Routes : routes[r] \in Route
    BY DEF FleetTypes, FleetTypeOK, TypeInv, TypeOK
  <1>same. ASSUME routes' = routes, overtaken' = overtaken PROVE OneRunningRoutePerResource'
    BY <1>same DEF OneRunningRoutePerResource
  <1>group. ASSUME NEW status \in RouteStatuses \ {"in_corso"},
                   routes' = [r \in Routes |-> IF r \in Drafts
                                                 THEN [routes[r] EXCEPT !.status = status]
                                                 ELSE routes[r]],
                   overtaken' = overtaken
            PROVE  OneRunningRoutePerResource'
    <2>1. \A r \in Routes : [routes[r] EXCEPT !.status = status].status = status
      BY <1>types DEF Route
    <2> QED
      BY <1>group, <2>1, RunsKept
  <1>saved. ASSUME NEW drafts, SaveDrafts(drafts), overtaken' = overtaken
            PROVE  OneRunningRoutePerResource'
    BY <1>saved, SavedTables, RunsKept
  <1>1. CASE Preview
    BY <1>1, <1>same
    DEF Preview, LoadPage, CreatePreview, StartRevision, FinishRevision, FailRevision
  <1>2. CASE Confirm
    BY <1>2, <1>saved DEF Confirm
  <1>3. ASSUME NEW f \in Operators, ConfirmDrafts(f) PROVE OneRunningRoutePerResource'
    BY <1>3, <1>saved, <1>same DEF ConfirmDrafts
  <1>4. ASSUME NEW f \in Operators, ScheduleGroup(f) PROVE OneRunningRoutePerResource'
    BY <1>4, <1>group DEF ScheduleGroup, RouteStatuses
  <1>5. ASSUME NEW f \in Operators, ReleaseDrafts(f) PROVE OneRunningRoutePerResource'
    BY <1>5, <1>group DEF ReleaseDrafts, RouteStatuses
  <1>6. ASSUME NEW f \in Operators,
               \/ BeginProgram(f) \/ EnrichDrafts(f) \/ AnswerProgrammed(f)
               \/ FailProgram(f) \/ LeaveDrafts(f) \/ Crash(f)
        PROVE  OneRunningRoutePerResource'
    BY <1>6, <1>same
    DEF BeginProgram, EnrichDrafts, AnswerProgrammed, FailProgram, LeaveDrafts, Crash
  <1>7. CASE Desk
    BY <1>7, <1>same DEF Desk, UpdateOrder, VerifyAddress, Transition
  <1>8. ASSUME NEW r \in Routes, ProgramRoute(r) \/ CancelRoute(r)
        PROVE  OneRunningRoutePerResource'
    <2>1. PICK status \in {"programmato", "annullato"} :
            routes' = [routes EXCEPT ![r].status = status]
      BY <1>8 DEF ProgramRoute, CancelRoute
    <2>2. routes'[r].status = status /\ \A q \in Routes \ {r} : routes'[q] = routes[q]
      BY <1>types, <2>1 DEF Route
    <2>3. overtaken' = overtaken
      BY <1>8 DEF ProgramRoute, CancelRoute
    <2> QED
      BY <2>2, <2>3, RunsKept
  <1>9. ASSUME NEW r \in Routes, StartRoute(r) PROVE OneRunningRoutePerResource'
    BY <1>9, StartRuns
  <1>10. ASSUME NEW p \in Planners,
                \/ \E route, stops, uses, held : ValidatePlan(p, route, stops, uses, held)
                \/ AbandonPlan(p) \/ RereadRoute(p)
         PROVE  OneRunningRoutePerResource'
    BY <1>10, <1>same DEF ValidatePlan, AbandonPlan, RereadRoute
  <1>11. ASSUME NEW p \in Planners, NEW r \in Routes, SaveAlone(p, r)
         PROVE  OneRunningRoutePerResource'
    BY <1>11, AloneTables, RunsKept DEF SaveAlone
  <1>12. CASE UNCHANGED fleetVars
    BY <1>12, <1>same DEF fleetVars
  <1> QED
    BY <1>1, <1>2, <1>3, <1>4, <1>5, <1>6, <1>7, <1>8, <1>9, <1>10, <1>11, <1>12
    DEF FleetNext, Programming, Step, DeskAlone, RoutesAlone

(* However the office, its recalculations and the requests on a plan       *)
(* interleave, a driver or a vehicle is on the road twice only where a     *)
(* route was saved with a row that was read before it started.             *)
THEOREM FleetRunsAlone == FleetSpec => []FleetRuns
  <1>1. FleetInit => FleetTypes /\ OneRunningRoutePerResource
    BY InitFleetTypes
  <1>2. FleetTypes /\ OneRunningRoutePerResource /\ [FleetNext]_fleetVars
          => FleetTypes' /\ OneRunningRoutePerResource'
    BY FleetTypeStep, FleetRunsStep
  <1>3. FleetTypes /\ OneRunningRoutePerResource => FleetRuns
    BY DEF FleetTypes, FleetRuns
  <1> QED
    BY <1>1, <1>2, <1>3, PTL DEF FleetSpec

-----------------------------------------------------------------------------
(* The group as a whole.                                                   *)

(* Only two steps change a saved plan: the group is programmed, or it is   *)
(* released.                                                               *)
LEMMA SavedPlanLeaves ==
  ASSUME FleetTypes, [FleetNext]_fleetVars, plan.status = "saved", plan' # plan
  PROVE  \E f \in Operators : ScheduleGroup(f) \/ ReleaseDrafts(f)
  <1>1. CASE Preview
    BY <1>1 DEF Preview, LoadPage, CreatePreview, StartRevision, FinishRevision, FailRevision
  <1>2. CASE Confirm
    BY <1>2, SavedPlan DEF Confirm
  <1>3. ASSUME NEW f \in Operators, ConfirmDrafts(f) PROVE FALSE
    BY <1>3, SavedPlan DEF ConfirmDrafts
  <1>4. ASSUME NEW f \in Operators,
               \/ BeginProgram(f) \/ EnrichDrafts(f) \/ AnswerProgrammed(f)
               \/ FailProgram(f) \/ LeaveDrafts(f) \/ Crash(f)
        PROVE  FALSE
    BY <1>4 DEF BeginProgram, EnrichDrafts, AnswerProgrammed, FailProgram, LeaveDrafts, Crash
  <1>5. CASE DeskAlone \/ RoutesAlone
    BY <1>5 DEF DeskAlone, RoutesAlone, SaveAlone
  <1>6. CASE UNCHANGED fleetVars
    BY <1>6 DEF fleetVars
  <1> QED
    BY <1>1, <1>2, <1>3, <1>4, <1>5, <1>6 DEF FleetNext, Programming, Step

(* What each of them leaves.                                               *)
LEMMA GroupScheduled ==
  ASSUME FleetTypes, NEW f \in Operators, ScheduleGroup(f)
  PROVE  /\ plan'.status = "programmed"
         /\ \A r \in Drafts : AsSaved(r) /\ routes'[r].status = "programmato"
  <1>1. plan \in Plan /\ Drafts \subseteq Routes
    BY DraftsAreRoutes DEF FleetTypes, FleetTypeOK
  <1>2. plan'.status = "programmed"
    BY <1>1 DEF ScheduleGroup, Plan
  <1>3. \A r \in Routes : [routes[r] EXCEPT !.status = "programmato"].status = "programmato"
    BY GroupTables DEF Phases, RouteStatuses
  <1>4. \A r \in Drafts : routes'[r].status = "programmato"
    BY <1>1, <1>3 DEF ScheduleGroup
  <1>5. \A r \in Drafts : AsSaved(r)
    BY DEF ScheduleGroup, StillTogether, Untouched, AsSaved
  <1> QED
    BY <1>2, <1>4, <1>5

(* A release discards every draft of the plan and nothing else.            *)
LEMMA GroupReleased ==
  ASSUME FleetTypes, NEW f \in Operators, ReleaseDrafts(f)
  PROVE  /\ plan'.status = "preview"
         /\ \A r \in Routes : IF r \in Drafts
                               THEN AsSaved(r) /\ routes'[r].status = "annullato"
                               ELSE routes'[r] = routes[r]
         /\ \A o \in Orders : assignments'[o].route \notin Drafts
  <1>1. plan \in Plan /\ Drafts \subseteq Routes /\ NoRoute \notin Drafts
    BY DraftsAreRoutes DEF FleetTypes, FleetTypeOK
  <1>2. plan'.status = "preview"
    <2>1. \A a, b, n : [plan EXCEPT !.status = "preview", !.route_ids = NoDrafts, !.version = n,
                                    !.configuration = a, !.validated = b].status = "preview"
      BY <1>1 DEF Plan
    <2> QED
      BY <2>1 DEF ReleaseDrafts
  <1>3. \A r \in Routes : [routes[r] EXCEPT !.status = "annullato"].status = "annullato"
    BY GroupTables DEF Phases, RouteStatuses
  <1>4. \A r \in Drafts : AsSaved(r)
    BY DEF ReleaseDrafts, Untouched, AsSaved
  <1>5. \A r \in Routes : IF r \in Drafts THEN routes'[r].status = "annullato"
                                          ELSE routes'[r] = routes[r]
    BY <1>3 DEF ReleaseDrafts
  <1>6. ASSUME NEW o \in Orders PROVE assignments'[o].route \notin Drafts
    <2>1. assignments'[o] = IF \E r \in Drafts : o \in Assigned(r) THEN Unassigned
                                                                   ELSE assignments[o]
      BY DEF ReleaseDrafts
    <2>2. Unassigned.route = NoRoute
      BY DEF Unassigned
    <2>3. \A r : assignments[o].route = r => o \in Assigned(r)
      BY DEF Assigned
    <2> QED
      BY <1>1, <2>1, <2>2, <2>3
  <1> QED
    BY <1>2, <1>4, <1>5, <1>6

(* A saved group is programmed as one, exactly as it was saved, or given   *)
(* up, whatever the office did to its routes while the traffic was read.   *)
THEOREM GroupTogether == FleetSpec => GroupIsProgrammedTogether
  <1> DEFINE A == (plan.status = "saved" /\ plan' # plan) =>
                    \/ plan'.status = "preview"
                    \/ /\ plan'.status = "programmed"
                       /\ \A r \in Drafts : AsSaved(r) /\ routes'[r].status = "programmato"
  <1>1. FleetInit => FleetTypes
    BY InitFleetTypes
  <1>2. FleetTypes /\ [FleetNext]_fleetVars => FleetTypes'
    BY FleetTypeStep
  <1>3. FleetTypes /\ [FleetNext]_fleetVars => [A]_fleetVars
    BY SavedPlanLeaves, GroupScheduled, GroupReleased
  <1> HIDE DEF A
  <1>4. FleetSpec => [][A]_fleetVars
    BY <1>1, <1>2, <1>3, PTL DEF FleetSpec
  <1> QED
    BY <1>4 DEF A, GroupIsProgrammedTogether

(* A failed programming takes back the whole group and nothing of the      *)
(* office's, in every state a request may find when it fails.              *)
THEOREM ReleaseSpares == FleetSpec => ReleaseSparesTheOffice
  <1> DEFINE A == (plan.status = "saved" /\ plan'.status = "preview") =>
                    /\ \A r \in Routes : IF r \in Drafts
                                          THEN AsSaved(r) /\ routes'[r].status = "annullato"
                                          ELSE routes'[r] = routes[r]
                    /\ \A o \in Orders : assignments'[o].route \notin Drafts
  <1>1. FleetInit => FleetTypes
    BY InitFleetTypes
  <1>2. FleetTypes /\ [FleetNext]_fleetVars => FleetTypes'
    BY FleetTypeStep
  <1>3. FleetTypes /\ [FleetNext]_fleetVars => [A]_fleetVars
    <2> SUFFICES ASSUME FleetTypes, [FleetNext]_fleetVars,
                        plan.status = "saved", plan'.status = "preview"
                 PROVE  A
      OBVIOUS
    <2>1. PICK f \in Operators : ScheduleGroup(f) \/ ReleaseDrafts(f)
      BY SavedPlanLeaves
    <2>2. ReleaseDrafts(f)
      BY <2>1, GroupScheduled
    <2> QED
      BY <2>2, GroupReleased
  <1> HIDE DEF A
  <1>4. FleetSpec => [][A]_fleetVars
    BY <1>1, <1>2, <1>3, PTL DEF FleetSpec
  <1> QED
    BY <1>4 DEF A, ReleaseSparesTheOffice

-----------------------------------------------------------------------------
(* The group that was released can be saved again.                         *)

(* An order is on a route that exists, and on a draft it is reserved.      *)
OrderHolds(o) ==
  LET status == routes[assignments[o].route].status IN
  ~Free(o) => /\ status # "assente"
              /\ status = "bozza" => orders[o].status = "assegnato"

(* An order that the plan leaves out changed since the plan was computed,  *)
(* or is ready still.                                                      *)
LeftOutHolds(o) ==
  /\ plan.validated[o].version <= orders[o].version
  /\ plan.validated[o].version = orders[o].version => Free(o) /\ orders[o].status = "pronto"

(* An order is on its draft as long as the draft is as the plan saved it.  *)
OnDraft(o, r) ==
  /\ r \in Routes /\ routes[r].status # "assente"
  /\ Untouched(r) => assignments[o].route = r

SavedHolds ==
  plan.status = "saved" =>
    /\ Used(plan.proposal) # {}
    /\ \A o \in Orders : IF plan.proposal[o] = NoResource THEN LeftOutHolds(o)
                          ELSE OnDraft(o, plan.route_ids[plan.proposal[o]])

(* A request recalculates a route that exists.                             *)
RequestsHold ==
  \A p \in Planners :
    requests[p].route # NoRoute => routes[requests[p].route].status # "assente"

(* What the next save of a released plan rests on: the members of its      *)
(* untouched drafts are all the orders it distributes, each still          *)
(* reserved, so that the release makes all of them ready.                  *)
RetryInv ==
  /\ FleetTypes
  /\ RequestsHold
  /\ \A o \in Orders : OrderHolds(o)
  /\ SavedHolds

(* Routes never disappear under a request.                                 *)
LEMMA RequestsHoldKept ==
  ASSUME RetryInv,
         \A r \in Routes : routes[r].status # "assente" => routes'[r].status # "assente",
         UNCHANGED requests
  PROVE  RequestsHold'
  <1>1. \A p \in Planners : requests[p].route \in Routes \cup {NoRoute}
    BY DEF RetryInv, FleetTypes, FleetTypeOK, TypeOK, Request
  <1> QED
    BY <1>1 DEF RetryInv, RequestsHold

(* The steps of the others: an order that changes gets a newer version,    *)
(* routes stay, and a route that stays as it was saved keeps its orders.   *)
LEMMA SavedKept ==
  ASSUME FleetTypes, FleetTypes', SavedHolds, plan' = plan,
         \A o \in Orders : \/ orders'[o] = orders[o] /\ assignments'[o] = assignments[o]
                           \/ orders'[o].version > orders[o].version,
         \A r \in Routes : routes[r].status # "assente" => routes'[r].status # "assente",
         \A r \in Routes : routes[r].status # "assente" /\ Untouched(r)' =>
           /\ Untouched(r)
           /\ \A o \in Orders : assignments[o].route = r => assignments'[o].route = r
  PROVE  SavedHolds'
  <1>types. /\ plan \in Plan
            /\ \A o \in Orders : /\ plan.validated[o].version \in Nat
                                 /\ orders[o].version \in Nat /\ orders'[o].version \in Nat
    BY DEF FleetTypes, FleetTypeOK, TypeOK, Plan, Order, References
  <1>1. ASSUME NEW o \in Orders, LeftOutHolds(o) PROVE LeftOutHolds(o)'
    BY <1>1, <1>types DEF LeftOutHolds, Free
  <1>2. ASSUME NEW o \in Orders, NEW r, OnDraft(o, r)
        PROVE  /\ r \in Routes /\ routes'[r].status # "assente"
               /\ Untouched(r)' => assignments'[o].route = r
    BY <1>2 DEF OnDraft
  <1>3. ASSUME NEW o \in Orders, OnDraft(o, plan.route_ids[plan.proposal[o]])
        PROVE  OnDraft(o, plan.route_ids[plan.proposal[o]])'
    BY <1>2, <1>3 DEF OnDraft
  <1> QED
    BY <1>1, <1>3 DEF SavedHolds

(* A step of the office on one route, or on the orders of one.             *)
LEMMA RouteHolds ==
  ASSUME RetryInv, NEW r \in Routes, NEW row, routes' = [routes EXCEPT ![r] = row],
         row.status \notin {"assente", "bozza"},
         \A o \in Orders : \/ orders'[o] = orders[o] /\ assignments'[o] = assignments[o]
                           \/ o \in Assigned(r) /\ assignments'[o] \in {assignments[o], Unassigned}
  PROVE  \A o \in Orders : OrderHolds(o)'
  <1> SUFFICES ASSUME NEW o \in Orders PROVE OrderHolds(o)'
    OBVIOUS
  <1>1. /\ routes \in [Routes -> Route] /\ assignments[o].route \in Routes \cup {NoRoute}
        /\ OrderHolds(o)
    BY DEF RetryInv, FleetTypes, FleetTypeOK, TypeOK, Assignment
  <1>2. routes'[r] = row /\ \A q \in Routes \ {r} : routes'[q] = routes[q]
    BY <1>1
  <1>3. CASE o \in Assigned(r)
    <2>1. assignments[o].route = r
      BY <1>3 DEF Assigned
    <2>2. assignments'[o] = assignments[o] \/ assignments'[o] = Unassigned
      OBVIOUS
    <2> QED
      BY <1>2, <2>1, <2>2 DEF OrderHolds, Free, Unassigned
  <1>4. CASE o \notin Assigned(r)
    <2>1. /\ assignments[o].route # r
          /\ orders'[o] = orders[o] /\ assignments'[o] = assignments[o]
      BY <1>4 DEF Assigned
    <2> QED
      BY <1>1, <1>2, <2>1 DEF OrderHolds, Free
  <1> QED
    BY <1>3, <1>4

(* What the desk does beside a plan keeps what a retry needs.              *)
LEMMA DeskRetry ==
  ASSUME RetryInv, FleetTypes', DeskAlone
  PROVE  RetryInv'
  <1>1. PICK o \in Orders :
          /\ Free(o) /\ UNCHANGED <<assignments, routes, requests>>
          /\ \E status, address, verified :
               orders' = [orders EXCEPT ![o] = Corrected(@, status, address, verified)]
    <2>1. PICK o \in Orders : \/ \E a \in Addresses : UpdateOrder(o, a)
                              \/ VerifyAddress(o)
                              \/ \E status \in Editable \cup {"annullato"} : Transition(o, status)
      BY DEF DeskAlone, Desk
    <2>2. ASSUME NEW a \in Addresses, UpdateOrder(o, a)
          PROVE  \E status, verified :
                   orders' = [orders EXCEPT ![o] = Corrected(@, status, a, verified)]
      BY <2>2 DEF UpdateOrder
    <2>3. ASSUME VerifyAddress(o)
          PROVE  orders' = [orders EXCEPT ![o] = Corrected(@, "pronto", orders[o].address, TRUE)]
      BY <2>3 DEF VerifyAddress
    <2>4. ASSUME NEW status \in Editable \cup {"annullato"}, Transition(o, status)
          PROVE  orders' = [orders EXCEPT ![o] =
                              Corrected(@, status, orders[o].address, orders[o].verified)]
      BY <2>4 DEF Transition
    <2>5. \E status, address, verified :
            orders' = [orders EXCEPT ![o] = Corrected(@, status, address, verified)]
      BY <2>1, <2>2, <2>3, <2>4
    <2>6. Free(o) /\ UNCHANGED <<assignments, routes, requests>>
      BY <2>1 DEF UpdateOrder, VerifyAddress, Transition, MayEdit
    <2> QED
      BY <2>5, <2>6
  <1>2. orders \in [Orders -> Order] /\ \A q \in Orders : orders[q].version \in Nat
    BY DEF RetryInv, FleetTypes, FleetTypeOK, TypeOK, Order
  <1>3. PICK status, address, verified :
          orders' = [orders EXCEPT ![o] = Corrected(@, status, address, verified)]
    BY <1>1
  <1>4. /\ orders'[o].version = orders[o].version + 1
        /\ \A q \in Orders \ {o} : orders'[q] = orders[q]
    BY <1>2, <1>3, CorrectedFields
  <1>5. orders'[o].version > orders[o].version
    BY <1>2, <1>4
  <1>6. \A q \in Orders : OrderHolds(q)'
    BY <1>1, <1>4 DEF RetryInv, OrderHolds, Free
  <1>7. SavedHolds'
    BY <1>1, <1>4, <1>5, SavedKept DEF RetryInv, Untouched, DeskAlone
  <1>8. RequestsHold'
    BY <1>1, RequestsHoldKept
  <1> QED
    BY <1>6, <1>7, <1>8 DEF RetryInv

(* A route is programmed, started or cancelled.                            *)
LEMMA RouteRetry ==
  ASSUME RetryInv, FleetTypes', NEW r \in Routes, ProgramRoute(r) \/ StartRoute(r) \/ CancelRoute(r),
         UNCHANGED <<plan, programs, revised, excused>>
  PROVE  RetryInv'
  <1>types. /\ TypeOK /\ orders \in [Orders -> Order] /\ routes \in [Routes -> Route]
            /\ \A o \in Orders : orders[o].version \in Nat
    BY DEF RetryInv, FleetTypes, TypeInv, TypeOK, Order
  <1>requests. UNCHANGED requests
    BY DEF ProgramRoute, StartRoute, CancelRoute
  <1>same. ASSUME UNCHANGED <<orders, assignments, routes>> PROVE RetryInv'
    <2>1. RequestsHold'
      BY <1>same, <1>requests, RequestsHoldKept
    <2> QED
      BY <1>same, <2>1
      DEF RetryInv, OrderHolds, Free, SavedHolds, LeftOutHolds, OnDraft, Untouched
  <1>kept. ASSUME NEW row, routes' = [routes EXCEPT ![r] = row],
                  row.status \notin {"assente", "bozza"},
                  \A o \in Orders :
                    \/ orders'[o] = orders[o] /\ assignments'[o] = assignments[o]
                    \/ /\ orders'[o].version > orders[o].version
                       /\ o \in Assigned(r) /\ assignments'[o] \in {assignments[o], Unassigned}
           PROVE  RetryInv'
    <2>1. \A o \in Orders : OrderHolds(o)'
      BY <1>kept, RouteHolds
    <2>2. routes'[r] = row /\ \A q \in Routes \ {r} : routes'[q] = routes[q]
      BY <1>kept, <1>types
    <2>3. ASSUME NEW q \in Routes, Untouched(q)'
          PROVE  /\ Untouched(q)
                 /\ \A o \in Orders : assignments[o].route = q => assignments'[o].route = q
      <3>1. q # r
        BY <1>kept, <2>2, <2>3 DEF Untouched
      <3>2. Untouched(q)
        BY <2>2, <2>3, <3>1 DEF Untouched
      <3>3. \A o \in Orders : assignments[o].route = q => assignments'[o] = assignments[o]
        BY <1>kept, <3>1 DEF Assigned
      <3> QED
        BY <3>2, <3>3
    <2>4. SavedHolds'
      BY <1>kept, <2>2, <2>3, SavedKept DEF RetryInv
    <2>5. RequestsHold'
      BY <1>kept, <1>requests, <2>2, RequestsHoldKept
    <2> QED
      BY <2>1, <2>4, <2>5 DEF RetryInv
  <1>sync. ASSUME NEW phase \in Phases, orders' = SyncOrders(orders, Assigned(r), phase),
                  assignments' = assignments
           PROVE  \A o \in Orders :
                    \/ orders'[o] = orders[o] /\ assignments'[o] = assignments[o]
                    \/ /\ orders'[o].version > orders[o].version
                       /\ o \in Assigned(r) /\ assignments'[o] \in {assignments[o], Unassigned}
    BY <1>sync, <1>types, SyncAdvances DEF Advances, SyncOrders
  <1>1. CASE ProgramRoute(r)
    <2> DEFINE row == [routes[r] EXCEPT !.status = "programmato"]
    <2>1. row.status = "programmato" /\ routes' = [routes EXCEPT ![r] = row]
      BY <1>1, <1>types DEF ProgramRoute, Route
    <2> HIDE DEF row
    <2> QED
      BY <1>1, <2>1, <1>kept, <1>sync DEF ProgramRoute, Phases
  <1>2. CASE StartRoute(r)
    <2>1. CASE r \in usage
      <3>1. UNCHANGED <<orders, assignments, routes>>
        BY <1>2, <2>1, <1>types DEF StartRoute, StartedOrders, StartedRoute
      <3> QED
        BY <3>1, <1>same
    <2>2. CASE r \notin usage
      <3> DEFINE status == IF routes[r].status = "completato" THEN "completato" ELSE "in_corso"
                 row == [routes[r] EXCEPT !.started = TRUE, !.status = status]
      <3>1. routes' = [routes EXCEPT ![r] = row]
        BY <1>2, <2>2 DEF StartRoute, StartedRoute
      <3>2. row.status = status
        <4>1. \A next \in RouteStatuses :
                [routes[r] EXCEPT !.started = TRUE, !.status = next].status = next
          BY <1>types, StartedRow
        <4> QED
          BY <4>1 DEF RouteStatuses
      <3> HIDE DEF row
      <3>3. orders' = SyncOrders(orders, Assigned(r), "started") /\ assignments' = assignments
        BY <1>2, <2>2 DEF StartRoute, StartedOrders
      <3> QED
        BY <3>1, <3>2, <3>3, <1>kept, <1>sync DEF Phases
    <2> QED
      BY <2>1, <2>2
  <1>3. CASE CancelRoute(r)
    <2> DEFINE row == [routes[r] EXCEPT !.status = "annullato"]
    <2>1. row.status = "annullato" /\ routes' = [routes EXCEPT ![r] = row]
      BY <1>3, <1>types DEF CancelRoute, Route
    <2> HIDE DEF row
    <2>2. ASSUME NEW o \in Orders
          PROVE  \/ orders'[o] = orders[o] /\ assignments'[o] = assignments[o]
                 \/ /\ orders'[o].version > orders[o].version
                    /\ o \in Assigned(r) /\ assignments'[o] \in {assignments[o], Unassigned}
      <3>1. /\ orders' = SyncOrders(orders, Assigned(r), "cancelled")
            /\ assignments'[o] = IF o \in Assigned(r) /\ orders[o] # Synced(orders[o], "cancelled")
                                   THEN Unassigned ELSE assignments[o]
        BY <1>3 DEF CancelRoute
      <3>2. Advances(orders[o], orders'[o])
        BY <3>1, <1>types, SyncAdvances DEF Phases
      <3>3. orders'[o] = IF o \in Assigned(r) THEN Synced(orders[o], "cancelled") ELSE orders[o]
        BY <3>1 DEF SyncOrders
      <3> QED
        BY <3>1, <3>2, <3>3 DEF Advances
    <2> QED
      BY <2>1, <2>2, <1>kept
  <1> QED
    BY <1>1, <1>2, <1>3

(* What a request does before it saves changes none of the tables.         *)
LEMMA ReadRetry ==
  ASSUME RetryInv, FleetTypes', NEW p \in Planners,
         \/ \E route \in Routes \cup {NoRoute} : \E stops, uses, held :
              ValidatePlan(p, route, stops, uses, held)
         \/ AbandonPlan(p)
         \/ RereadRoute(p),
         UNCHANGED <<plan, programs, revised, excused>>
  PROVE  RetryInv'
  <1>types. requests \in [Planners -> Request] /\ requests[p] \in Request
    BY DEF RetryInv, FleetTypes, FleetTypeOK, TypeOK
  <1>1. UNCHANGED <<orders, assignments, routes>>
    BY DEF ValidatePlan, AbandonPlan, RereadRoute
  <1>2. ASSUME NEW route \in Routes \cup {NoRoute}, NEW stops, NEW uses, NEW held,
               ValidatePlan(p, route, stops, uses, held)
        PROVE  RequestsHold'
    <2>1. /\ requests'[p].route = route /\ \A q \in Planners \ {p} : requests'[q] = requests[q]
          /\ route # NoRoute => routes[route].status # "assente"
      BY <1>2, <1>types DEF ValidatePlan
    <2> QED
      BY <1>1, <2>1 DEF RetryInv, RequestsHold
  <1>3. ASSUME AbandonPlan(p) PROVE RequestsHold'
    <2>1. requests'[p].route = NoRoute /\ \A q \in Planners \ {p} : requests'[q] = requests[q]
      BY <1>3, <1>types DEF AbandonPlan, Idle
    <2> QED
      BY <1>1, <2>1 DEF RetryInv, RequestsHold
  <1>4. ASSUME RereadRoute(p) PROVE RequestsHold'
    <2>1. \A q \in Planners : requests'[q].route = requests[q].route
      BY <1>4, <1>types DEF RereadRoute, Request
    <2> QED
      BY <1>1, <2>1 DEF RetryInv, RequestsHold
  <1>5. (\A o \in Orders : OrderHolds(o)') /\ SavedHolds'
    BY <1>1 DEF RetryInv, OrderHolds, Free, SavedHolds, LeftOutHolds, OnDraft, Untouched
  <1> QED
    BY <1>2, <1>3, <1>4, <1>5 DEF RetryInv

(* A save beside the group takes no order of a draft of the plan, unless   *)
(* it is that draft, which is then not as it was saved.                    *)
LEMMA AloneRetry ==
  ASSUME RetryInv, FleetTypes', NEW p \in Planners, NEW r \in Routes, SaveAlone(p, r)
  PROVE  RetryInv'
  <1> DEFINE wanted == Wanted(requests[p].stops)
  <1>types. /\ orders \in [Orders -> Order] /\ routes \in [Routes -> Route]
            /\ requests \in [Planners -> Request] /\ requests[p] \in Request
            /\ \A o \in Orders : orders[o] \in Order /\ orders[o].version \in Nat
            /\ \A o \in Orders : assignments[o].route \in Routes \cup {NoRoute}
            /\ FleetTypes /\ TypeOK /\ SavedHolds
            /\ \A o \in Orders : OrderHolds(o)
            /\ requests[p].route # NoRoute => routes[requests[p].route].status # "assente"
    BY DEF RetryInv, RequestsHold, FleetTypes, FleetTypeOK, TypeOK, Order, Assignment
  <1>save. /\ SaveRoute(p, r) /\ plan' = plan
           /\ revised' = IF requests[p].route = NoRoute THEN revised ELSE revised \cup {r}
           /\ orders' = Reserved(p, r) /\ assignments' = Reservations(p, r)
    BY DEF SaveAlone, SaveRoute
  <1>routes. /\ \A q \in Routes \ {r} : routes'[q] = routes[q]
             /\ requests[p].route = NoRoute =>
                  routes[r].status = "assente" /\ routes'[r].status = "bozza"
             /\ requests[p].route # NoRoute =>
                  /\ requests[p].route = r
                  /\ routes[r].status # "assente" /\ routes'[r].status = routes[r].status
    BY <1>types, <1>save, AloneTables
  <1>1. ASSUME NEW o \in Orders, o \in wanted
        PROVE  /\ assignments'[o].route = r
               /\ routes'[r].status = "bozza" => orders'[o].status = "assegnato"
               /\ assignments[o].route \in {NoRoute, r}
    <2>1. assignments'[o].route = r /\ Plannable(o, requests[p].route)
      BY <1>1, <1>save DEF Reservations, SaveRoute, Acceptable
    <2>2. assignments[o].route \in {NoRoute, r}
      BY <1>routes, <2>1 DEF Plannable
    <2>3. CASE o \in Assigned(r)
      <3>1. ~Free(o) /\ assignments[o].route = r
        BY <2>3, ConstantsAssumption DEF Assigned, Free
      <3>2. /\ routes[r].status # "assente"
            /\ routes[r].status = "bozza" => orders[o].status = "assegnato"
        BY <1>types, <3>1 DEF OrderHolds
      <3>3. orders'[o] = Touched(orders[o])
        BY <1>1, <1>save, <2>3 DEF Reserved
      <3>4. orders'[o].status = orders[o].status
        BY <1>types, <3>3 DEF Touched, Order
      <3> QED
        BY <1>routes, <2>1, <2>2, <3>2, <3>4
    <2>4. CASE o \notin Assigned(r)
      <3>1. \E delivery : orders'[o] = Moved(orders[o], "assegnato", delivery)
        BY <1>1, <1>save, <2>4 DEF Reserved
      <3>2. orders'[o].status = "assegnato"
        BY <1>types, <3>1, MovedFields
      <3> QED
        BY <2>1, <2>2, <3>2
    <2> QED
      BY <2>3, <2>4
  <1>2. ASSUME NEW o \in Orders, o \in Assigned(r), o \notin wanted
        PROVE  assignments'[o] = Unassigned
    BY <1>2, <1>save DEF Reservations
  <1>3. ASSUME NEW o \in Orders, o \notin wanted, o \notin Assigned(r)
        PROVE  orders'[o] = orders[o] /\ assignments'[o] = assignments[o]
    BY <1>3, <1>save DEF Reserved, Reservations
  <1>versions. \A o \in Orders : \/ orders'[o] = orders[o] /\ assignments'[o] = assignments[o]
                                 \/ orders'[o].version > orders[o].version
    BY <1>types, <1>save, SaveVersions DEF Versioned
  <1> HIDE DEF wanted
  <1>4. ASSUME NEW o \in Orders PROVE OrderHolds(o)'
    <2>1. CASE o \in wanted
      <3>1. routes'[r].status # "assente"
        BY <1>routes
      <3> QED
        BY <1>1, <2>1, <3>1 DEF OrderHolds
    <2>2. CASE o \in Assigned(r) /\ o \notin wanted
      BY <1>2, <2>2 DEF OrderHolds, Free, Unassigned
    <2>3. CASE o \notin wanted /\ o \notin Assigned(r)
      <3>1. orders'[o] = orders[o] /\ assignments'[o] = assignments[o] /\ assignments[o].route # r
        BY <1>3, <2>3 DEF Assigned
      <3> QED
        BY <1>types, <1>routes, <3>1 DEF OrderHolds, Free
    <2> QED
      BY <2>1, <2>2, <2>3
  <1>5. ASSUME NEW q \in Routes, routes[q].status # "assente", Untouched(q)'
        PROVE  /\ Untouched(q)
               /\ \A o \in Orders : assignments[o].route = q => assignments'[o].route = q
    <2>1. q # r
      BY <1>5, <1>save, <1>routes DEF Untouched
    <2>2. Untouched(q)
      BY <1>5, <1>save, <1>routes, <2>1 DEF Untouched
    <2>3. ASSUME NEW o \in Orders, assignments[o].route = q PROVE assignments'[o].route = q
      <3>1. o \notin Assigned(r) /\ assignments[o].route \notin {NoRoute, r}
        BY <2>1, <2>3, ConstantsAssumption DEF Assigned
      <3>2. o \notin wanted
        BY <1>1, <3>1
      <3> QED
        BY <1>3, <2>3, <3>1, <3>2
    <2> QED
      BY <2>2, <2>3
  <1>6. \A q \in Routes : routes[q].status # "assente" => routes'[q].status # "assente"
    BY <1>routes
  <1>7. SavedHolds'
    BY <1>types, <1>save, <1>versions, <1>5, <1>6, SavedKept
  <1>8. RequestsHold'
    <2>1. PICK next \in AfterSave(p, r) : requests' = [requests EXCEPT ![p] = next]
      BY <1>save DEF SaveRoute
    <2>2. requests[p].phase \in {"validated", "retry", "restore"}
      BY <1>save, <1>types DEF SaveRoute, Request
    <2>3. next = Idle \/ \E phase, kept, n : next = FollowUp(p, r, phase, kept, n)
      BY <2>2 DEF AfterSave
    <2>4. next.route \in {NoRoute, r}
      BY <2>3 DEF Idle, FollowUp
    <2>5. requests'[p].route \in {NoRoute, r} /\ \A q \in Planners \ {p} : requests'[q] = requests[q]
      BY <1>types, <2>1, <2>4
    <2>6. routes'[r].status # "assente"
      BY <1>routes
    <2>7. \A q \in Planners \ {p} :
            requests[q].route # NoRoute => routes'[requests[q].route].status # "assente"
      BY <1>6 DEF RetryInv, RequestsHold, FleetTypes, FleetTypeOK, TypeOK, Request
    <2> QED
      BY <2>5, <2>6, <2>7 DEF RequestsHold
  <1> QED
    BY <1>4, <1>7, <1>8 DEF RetryInv

(* The drafts are saved: what the plan distributes is reserved, and what   *)
(* it leaves out is ready and not changed.                                 *)
LEMMA SaveRetry ==
  ASSUME RetryInv, FleetTypes', NEW drafts, SaveDrafts(drafts), UNCHANGED requests
  PROVE  RetryInv'
  <1>types. /\ FleetTypes
            /\ \A o \in Orders : orders[o] \in Order /\ orders[o].version \in Nat
            /\ plan \in Plan
            /\ \A o \in Orders : plan.proposal[o] \in Resources \cup {NoResource}
    BY DEF RetryInv, FleetTypes, FleetTypeOK, TypeOK, Order, Plan, Proposals
  <1>plan. /\ plan'.route_ids = drafts
           /\ plan'.proposal = plan.proposal /\ plan'.validated = plan.validated
    BY <1>types, SavedPlan
  <1>routes. \A v \in Used(plan.proposal) : drafts[v] \in Routes /\ routes'[drafts[v]].status = "bozza"
    BY <1>types, SavedTables
  <1>1. ASSUME NEW o \in Orders, plan.proposal[o] = NoResource
        PROVE  /\ assignments'[o].route = NoRoute
               /\ orders'[o].version = plan.validated[o].version
               /\ orders'[o].version \in Nat
               /\ orders'[o].status = "pronto"
    <2>1. Plannable(o, NoRoute) /\ plan.validated[o].version = orders[o].version
      BY DEF SaveDrafts, Savable, Valid
    <2>2. orders'[o] = orders[o] /\ assignments'[o] = assignments[o]
      BY <1>1 DEF SaveDrafts
    <2> QED
      BY <1>types, <2>1, <2>2 DEF Plannable, Free
  <1>2. ASSUME NEW o \in Orders, plan.proposal[o] # NoResource
        PROVE  /\ plan.proposal[o] \in Used(plan.proposal)
               /\ assignments'[o].route = drafts[plan.proposal[o]]
               /\ orders'[o].status = "assegnato"
    <2>1. /\ orders'[o] = Moved(orders[o], "assegnato", "draft")
          /\ assignments'[o].route = drafts[plan.proposal[o]]
      BY <1>2 DEF SaveDrafts
    <2> QED
      BY <1>2, <1>types, <2>1, MovedFields DEF Used
  <1>3. ASSUME NEW o \in Orders PROVE OrderHolds(o)'
    BY <1>1, <1>2, <1>routes DEF OrderHolds, Free
  <1>4. ASSUME NEW o \in Orders, plan.proposal[o] = NoResource PROVE LeftOutHolds(o)'
    BY <1>1, <1>4, <1>plan DEF LeftOutHolds, Free
  <1>5. ASSUME NEW o \in Orders, plan.proposal[o] # NoResource
        PROVE  OnDraft(o, plan.route_ids[plan.proposal[o]])'
    BY <1>2, <1>5, <1>plan, <1>routes DEF OnDraft
  <1>6. Used(plan.proposal)' # {}
    <2>1. Used(plan.proposal) # {}
      BY DEF SaveDrafts, Savable
    <2> QED
      BY <2>1, <1>plan DEF Used
  <1>7. SavedHolds'
    BY <1>4, <1>5, <1>6, <1>plan DEF SavedHolds
  <1>8. RequestsHold'
    BY <1>types, SavedTables, RequestsHoldKept
  <1> QED
    BY <1>3, <1>7, <1>8 DEF RetryInv

(* The orders of the drafts are those assigned to a draft.                 *)
LEMMA GroupMembers ==
  \A o \in Orders :
    o \in UNION {Assigned(r) : r \in Drafts} <=> assignments[o].route \in Drafts
  BY DEF Assigned

(* The group leaves the drafts, programmed or released.                    *)
LEMMA GroupRetry ==
  ASSUME RetryInv, FleetTypes', NEW f \in Operators, ScheduleGroup(f) \/ ReleaseDrafts(f)
  PROVE  RetryInv'
  <1>types. /\ FleetTypes /\ Drafts \subseteq Routes /\ NoRoute \notin Drafts
            /\ \A o \in Orders : assignments[o].route \in Routes \cup {NoRoute}
            /\ \A o \in Orders : OrderHolds(o)
    BY DraftsAreRoutes DEF RetryInv, FleetTypes, FleetTypeOK, TypeOK, Assignment
  <1> DEFINE members == UNION {Assigned(r) : r \in Drafts}
  <1>members. \A o \in Orders : o \in members <=> assignments[o].route \in Drafts
    BY GroupMembers
  <1> HIDE DEF members
  <1>1. SavedHolds'
    BY <1>types, GroupScheduled, GroupReleased DEF SavedHolds
  <1>requests. RequestsHold'
    <2>1. UNCHANGED requests
      BY DEF ScheduleGroup, ReleaseDrafts
    <2>2. \A r \in Routes : routes[r].status # "assente" => routes'[r].status # "assente"
      <3>1. CASE ScheduleGroup(f)
        BY <1>types, <3>1, GroupScheduled DEF ScheduleGroup
      <3>2. CASE ReleaseDrafts(f)
        BY <1>types, <3>2, GroupReleased
      <3> QED
        BY <3>1, <3>2
    <2> QED
      BY <2>1, <2>2, RequestsHoldKept
  <1>2. CASE ScheduleGroup(f)
    <2>1. ASSUME NEW o \in Orders PROVE OrderHolds(o)'
      <3>1. assignments'[o] = assignments[o]
        BY <1>2 DEF ScheduleGroup
      <3>2. CASE assignments[o].route \in Drafts
        BY <1>2, <1>types, <3>1, <3>2, GroupScheduled DEF OrderHolds
      <3>3. CASE assignments[o].route \notin Drafts
        <4>1. orders'[o] = orders[o]
          BY <1>2, <1>members, <3>3 DEF ScheduleGroup, Scheduled, SyncOrders, members
        <4>2. assignments[o].route \in Routes =>
                routes'[assignments[o].route] = routes[assignments[o].route]
          BY <1>2, <3>3 DEF ScheduleGroup
        <4> QED
          BY <1>types, <3>1, <4>1, <4>2 DEF OrderHolds, Free
      <3> QED
        BY <3>2, <3>3
    <2> QED
      BY <1>1, <1>requests, <2>1 DEF RetryInv
  <1>3. CASE ReleaseDrafts(f)
    <2>1. ASSUME NEW o \in Orders PROVE OrderHolds(o)'
      <3>1. CASE assignments[o].route \in Drafts
        <4>1. assignments'[o] = Unassigned
          BY <1>3, <1>members, <3>1 DEF ReleaseDrafts, members
        <4> QED
          BY <4>1 DEF OrderHolds, Free, Unassigned
      <3>2. CASE assignments[o].route \notin Drafts
        <4>1. orders'[o] = orders[o] /\ assignments'[o] = assignments[o]
          BY <1>3, <1>members, <3>2 DEF ReleaseDrafts, SyncOrders, members
        <4>2. assignments[o].route \in Routes =>
                routes'[assignments[o].route] = routes[assignments[o].route]
          BY <1>3, <3>2 DEF ReleaseDrafts
        <4> QED
          BY <1>types, <4>1, <4>2 DEF OrderHolds, Free
      <3> QED
        BY <3>1, <3>2
    <2> QED
      BY <1>1, <1>requests, <2>1 DEF RetryInv
  <1> QED
    BY <1>2, <1>3

(* Every step keeps what a retry needs.                                    *)
LEMMA RetryStep == RetryInv /\ [FleetNext]_fleetVars => RetryInv'
  <1> SUFFICES ASSUME RetryInv, [FleetNext]_fleetVars PROVE RetryInv'
    OBVIOUS
  <1>types. FleetTypes /\ plan \in Plan /\ FleetTypes'
    BY FleetTypeStep DEF RetryInv, FleetTypes, FleetTypeOK
  <1>same. ASSUME UNCHANGED <<orders, assignments, routes, requests, plan, revised>> PROVE RetryInv'
    BY <1>same, <1>types
    DEF RetryInv, RequestsHold, OrderHolds, Free, SavedHolds, LeftOutHolds, OnDraft, Untouched
  <1>page. ASSUME UNCHANGED <<orders, assignments, routes, requests>>, plan'.status # "saved"
           PROVE  RetryInv'
    BY <1>page, <1>types DEF RetryInv, RequestsHold, OrderHolds, Free, SavedHolds
  <1>1. CASE LoadPage
    <2>1. plan'.status = "pagina"
      BY <1>1, <1>types DEF LoadPage, Plan
    <2> QED
      BY <1>1, <2>1, <1>page DEF LoadPage
  <1>2. ASSUME NEW proposal \in Proposals, CreatePreview(proposal) PROVE RetryInv'
    <2>1. plan'.status = "preview"
      BY <1>2, <1>types DEF CreatePreview, Plan
    <2> QED
      BY <1>2, <2>1, <1>page DEF CreatePreview
  <1>3. ASSUME NEW f \in Operators, NEW proposal \in Proposals, FinishRevision(f, proposal)
        PROVE  RetryInv'
    <2>1. plan'.status = "preview"
      BY <1>3, <1>types DEF FinishRevision, Plan
    <2> QED
      BY <1>3, <2>1, <1>page DEF FinishRevision
  <1>4. ASSUME NEW f \in Operators,
               \/ StartRevision(f) \/ FailRevision(f) \/ BeginProgram(f) \/ EnrichDrafts(f)
               \/ AnswerProgrammed(f) \/ FailProgram(f) \/ LeaveDrafts(f) \/ Crash(f)
        PROVE  RetryInv'
    BY <1>4, <1>same
    DEF StartRevision, FailRevision, BeginProgram, EnrichDrafts, AnswerProgrammed, FailProgram,
        LeaveDrafts, Crash
  <1>5. CASE Confirm
    BY <1>5, <1>types, SaveRetry DEF Confirm
  <1>6. ASSUME NEW f \in Operators, ConfirmDrafts(f) PROVE RetryInv'
    BY <1>6, <1>types, <1>same, SaveRetry DEF ConfirmDrafts
  <1>7. ASSUME NEW f \in Operators, ScheduleGroup(f) \/ ReleaseDrafts(f) PROVE RetryInv'
    BY <1>7, <1>types, GroupRetry
  <1>8. CASE DeskAlone
    BY <1>8, <1>types, DeskRetry
  <1>9. ASSUME NEW r \in Routes, ProgramRoute(r) \/ StartRoute(r) \/ CancelRoute(r),
               UNCHANGED <<plan, programs, revised, excused>>
        PROVE  RetryInv'
    BY <1>9, <1>types, RouteRetry
  <1>10. ASSUME NEW p \in Planners,
                \/ \E route \in Routes \cup {NoRoute}, stops \in RowSets, v \in Resources,
                      held \in BOOLEAN : ValidatePlan(p, route, stops, {v}, held)
                \/ AbandonPlan(p)
                \/ RereadRoute(p),
                UNCHANGED <<plan, programs, revised, excused>>
         PROVE  RetryInv'
    BY <1>10, <1>types, ReadRetry
  <1>11. ASSUME NEW p \in Planners, NEW r \in Routes, SaveAlone(p, r) PROVE RetryInv'
    BY <1>11, <1>types, AloneRetry
  <1>12. CASE UNCHANGED fleetVars
    BY <1>12, <1>same DEF fleetVars
  <1> QED
    BY <1>1, <1>2, <1>3, <1>4, <1>5, <1>6, <1>7, <1>8, <1>9, <1>10, <1>11, <1>12
    DEF FleetNext, Preview, Programming, Step, RoutesAlone

(* At first there is nothing to retry.                                     *)
LEMMA InitRetry == FleetInit => RetryInv
  BY InitFleetTypes
  DEF FleetInit, RetryInv, RequestsHold, Idle, OrderHolds, Free, Unassigned, SavedHolds

(* Two references with the same version and address are the same.          *)
LEMMA SameReference ==
  ASSUME NEW x \in [version : Nat, address : Addresses],
         NEW y \in [version : Nat, address : Addresses],
         x.version = y.version, x.address = y.address
  PROVE  x = y
  OBVIOUS

(* The release gives both copies of the references the versions that its   *)
(* orders have after it.                                                   *)
LEMMA RenewedFields ==
  ASSUME NEW references \in References, NEW table \in [Orders -> Order], NEW o \in Orders
  PROVE  /\ RenewedVersions(references, table)[o] \in [version : Nat, address : Addresses]
         /\ RenewedVersions(references, table)[o].version = table[o].version
         /\ RenewedVersions(references, table)[o].address = references[o].address
  <1>1. /\ table[o].version \in Nat
        /\ references[o] \in [version : Nat, address : Addresses]
    BY DEF Order, References
  <1> QED
    BY <1>1 DEF RenewedVersions

(* A plan that was released can be saved again.                            *)
LEMMA ReleasedIsSavable ==
  ASSUME RetryInv, NEW f \in Operators, ReleaseDrafts(f),
         \A o \in Orders : /\ plan.proposal[o] = NoResource =>
                                orders[o].version = plan.validated[o].version
                           /\ plan.configuration[o].address = plan.validated[o].address
  PROVE  Savable'
  <1> DEFINE members == UNION {Assigned(r) : r \in Drafts}
  <1>members. \A o \in Orders : o \in members <=> assignments[o].route \in Drafts
    BY GroupMembers
  <1> DEFINE synced == SyncOrders(orders, members, "cancelled")
             config == RenewedVersions(plan.configuration, synced)
             valid == RenewedVersions(plan.validated, synced)
  <1>types. /\ FleetTypes /\ plan \in Plan /\ TypeOK
            /\ NoRoute \notin Drafts
            /\ plan.configuration \in References /\ plan.validated \in References
            /\ plan.proposal \in Proposals
            /\ \A o \in Orders : orders[o] \in Order
            /\ \A o \in Orders : assignments[o].route \in Routes \cup {NoRoute}
            /\ \A o \in Orders : OrderHolds(o)
    BY DraftsAreRoutes
    DEF RetryInv, FleetTypes, FleetTypeOK, TypeOK, Plan, Order, Assignment
  <1>saved. /\ plan.status = "saved"
            /\ \A r \in Drafts : Untouched(r)
            /\ orders' = synced
            /\ assignments' = [o \in Orders |-> IF o \in members THEN Unassigned ELSE assignments[o]]
            /\ plan' = [plan EXCEPT !.status = "preview", !.route_ids = NoDrafts, !.version = @ + 1,
                                    !.configuration = config, !.validated = valid]
    BY DEF ReleaseDrafts
  <1>synced. synced \in [Orders -> Order]
    BY <1>types, SyncOrdersType DEF Phases, TypeOK
  <1>orders. \A o \in Orders :
               synced[o] = IF o \in members THEN Synced(orders[o], "cancelled") ELSE orders[o]
    BY DEF SyncOrders
  <1> HIDE DEF members, synced
  <1>rows. \A o \in Orders :
             /\ config[o] \in [version : Nat, address : Addresses]
             /\ valid[o] \in [version : Nat, address : Addresses]
             /\ config[o].version = synced[o].version /\ valid[o].version = synced[o].version
             /\ config[o].address = plan.configuration[o].address
             /\ valid[o].address = plan.validated[o].address
    BY <1>types, <1>synced, RenewedFields
  <1>domain. config = [o \in Orders |-> config[o]] /\ valid = [o \in Orders |-> valid[o]]
    BY DEF RenewedVersions
  <1> HIDE DEF config, valid
  <1>1. config = valid
    <2>1. \A o \in Orders : config[o].address = valid[o].address
      BY <1>rows
    <2>2. ASSUME NEW o \in Orders PROVE config[o] = valid[o]
      <3>1. /\ config[o] \in [version : Nat, address : Addresses]
            /\ valid[o] \in [version : Nat, address : Addresses]
            /\ config[o].version = valid[o].version
        BY <1>rows
      <3> QED
        BY <2>1, <3>1, SameReference
    <2> QED
      BY <1>domain, <2>2
  <1>2. /\ plan'.status = "preview" /\ plan'.proposal = plan.proposal
        /\ plan'.configuration = valid /\ plan'.validated = valid
    <2>1. \A a, b, n :
            LET next == [plan EXCEPT !.status = "preview", !.route_ids = NoDrafts, !.version = n,
                                     !.configuration = a, !.validated = b]
            IN /\ next.status = "preview" /\ next.proposal = plan.proposal
               /\ next.configuration = a /\ next.validated = b
      BY <1>types DEF Plan
    <2> QED
      BY <1>saved, <1>1, <2>1
  <1>3. Used(plan.proposal)' # {}
    <2>1. Used(plan.proposal) # {}
      BY <1>saved DEF RetryInv, SavedHolds
    <2> QED
      BY <1>2, <2>1 DEF Used
  <1>4. Refreshed(plan.configuration)' = plan'.validated
    <2>1. \A o \in Orders : plan'.configuration[o].version = orders'[o].version
      BY <1>2, <1>rows, <1>1, <1>saved
    <2>2. Refreshed(plan.configuration)' = [o \in Orders |-> plan'.configuration[o]]
      BY <2>1 DEF Refreshed
    <2> QED
      BY <1>2, <1>domain, <2>2
  <1>5. ASSUME NEW o \in Orders PROVE Plannable(o, NoRoute)'
    <2>1. CASE plan.proposal[o] = NoResource
      <3>1. Free(o) /\ orders[o].status = "pronto"
        BY <1>saved, <2>1 DEF RetryInv, SavedHolds, LeftOutHolds
      <3>2. o \notin members
        BY <1>types, <1>members, <3>1 DEF Free
      <3>3. orders'[o] = orders[o] /\ assignments'[o] = assignments[o]
        BY <1>saved, <1>orders, <3>2
      <3> QED
        BY <3>1, <3>3 DEF Plannable, Free
    <2>2. CASE plan.proposal[o] # NoResource
      <3> DEFINE r == plan.route_ids[plan.proposal[o]]
      <3>1. OnDraft(o, r)
        BY <1>saved, <2>2 DEF RetryInv, SavedHolds
      <3>2. plan.proposal[o] \in Resources
        BY <1>types, <2>2 DEF Proposals
      <3>3. r \in Drafts
        BY <3>1, <3>2, ConstantsAssumption DEF Drafts, OnDraft
      <3>4. assignments[o].route = r /\ routes[r].status = "bozza" /\ r # NoRoute
        BY <1>saved, <1>types, <3>1, <3>3 DEF OnDraft, Untouched
      <3>5. o \in members
        BY <1>members, <3>3, <3>4
      <3>6. orders[o].status = "assegnato"
        BY <1>types, <3>4 DEF OrderHolds, Free
      <3>7. Synced(orders[o], "cancelled").status = "pronto"
        BY <1>types, <3>6, SyncedStatus DEF Phases, Delivered, Target
      <3>8. orders'[o].status = "pronto" /\ assignments'[o] = Unassigned
        BY <1>saved, <1>orders, <3>5, <3>7
      <3> QED
        BY <3>8 DEF Plannable, Free, Unassigned
    <2> QED
      BY <2>1, <2>2
  <1>6. Valid(plan.validated)'
    BY <1>2, <1>5, <1>rows, <1>saved DEF Valid
  <1> QED
    BY <1>2, <1>3, <1>4, <1>6 DEF Savable

(* "failed_programming_releases_orders_and_can_retry": the released plan   *)
(* passes every check of the next save at once, whatever happened between  *)
(* the save and the release, unless an order that the plan leaves out or   *)
(* an address that the client sent had changed.                            *)
THEOREM ReleasedCanBeRetried == FleetSpec => ReleasedPlanCanBeRetried
  <1> DEFINE A == (plan.status = "saved" /\ plan'.status = "preview"
                    /\ \A o \in Orders : /\ plan.proposal[o] = NoResource =>
                                              orders[o].version = plan.validated[o].version
                                         /\ plan.configuration[o].address = plan.validated[o].address)
                    => Savable'
  <1>1. FleetInit => RetryInv
    BY InitRetry
  <1>2. RetryInv /\ [FleetNext]_fleetVars => RetryInv'
    BY RetryStep
  <1>3. RetryInv /\ [FleetNext]_fleetVars => [A]_fleetVars
    <2> SUFFICES ASSUME RetryInv, [FleetNext]_fleetVars,
                        plan.status = "saved", plan'.status = "preview",
                        \A o \in Orders : /\ plan.proposal[o] = NoResource =>
                                               orders[o].version = plan.validated[o].version
                                          /\ plan.configuration[o].address
                                               = plan.validated[o].address
                 PROVE  Savable'
      OBVIOUS
    <2>1. PICK f \in Operators : ScheduleGroup(f) \/ ReleaseDrafts(f)
      BY SavedPlanLeaves DEF RetryInv
    <2>2. ReleaseDrafts(f)
      BY <2>1, GroupScheduled DEF RetryInv
    <2> QED
      BY <2>2, ReleasedIsSavable
  <1> HIDE DEF A
  <1>4. FleetSpec => [][A]_fleetVars
    BY <1>1, <1>2, <1>3, PTL DEF FleetSpec
  <1> QED
    BY <1>4 DEF A, ReleasedPlanCanBeRetried

=============================================================================
