------------------------------ MODULE FleetPlan ------------------------------
(***************************************************************************)
(* One preview that distributes the ready orders over several vehicles,    *)
(* with everything the office does to it, on top of the orders and the     *)
(* routes of RouteOrders.                                                  *)
(*                                                                         *)
(* Programming the whole group takes three transactions: the drafts are    *)
(* saved, their times are updated with the traffic, and the group is       *)
(* scheduled.  A failure after the first is compensated by a fourth one,   *)
(* which releases the drafts.  Between any two of them the desk, the       *)
(* office and other requests on the same plan go on, and the process may   *)
(* stop.                                                                   *)
(*                                                                         *)
(* The plan distributes all of Orders, one order to a stop (grouping is    *)
(* the subject of RouteOrders).  Distances, times and loads only decide    *)
(* which proposal a computation returns and whether a step fails: any      *)
(* proposal may be returned and any step may fail.                         *)
(***************************************************************************)
EXTENDS RouteOrders

CONSTANTS
  Operators,      (* Requests on the plan that run at the same time.       *)
  NoResource,     (* The resource of a stop that is left out.              *)
  MaxPlanVersion  (* Bound of the model: a plan with this version is not   *)
                  (* revised any more.                                     *)

ASSUME FleetAssumption ==
  /\ NoResource \notin Resources
  /\ MaxPlanVersion \in Nat

VARIABLES
  plan,           (* The FleetPlan row, and before it the client's page.   *)
  programs,       (* What each request on the plan holds between steps.    *)
  revised,        (* Routes whose routing snapshot is not the first one.   *)
  excused         (* History: the drafts were asked for by an operator, or *)
                  (* a request was cut off by a stop of the process.       *)

fleetVars == <<orders, assignments, routes, usage, active, requests, overtaken,
               plan, programs, revised, excused>>

-----------------------------------------------------------------------------

(* "pagina" is a client page with its stops, before any preview of them. *)
PlanStatuses == {"assente", "pagina", "preview", "saved", "programmed"}

Proposals == [Orders -> Resources \cup {NoResource}]

(* configuration: the stops as the client sent them; validated: the stops  *)
(* as the distribution read them; route_ids: the draft of each resource.   *)
Plan == [status : PlanStatuses, version : Nat, configuration : References,
         validated : References, proposal : Proposals,
         route_ids : [Resources -> Routes \cup {NoRoute}]]

Program == [phase : {"idle", "distributing", "confirming", "saved", "enriched", "failed"},
            version : Nat, validated : References]

FleetTypeOK ==
  /\ TypeOK
  /\ plan \in Plan
  /\ programs \in [Operators -> Program]
  /\ revised \subseteq Routes
  /\ excused \in BOOLEAN

NoDrafts == [v \in Resources |-> NoRoute]

Resting == [phase |-> "idle", version |-> 0, validated |-> NoReferences]

Current == CurrentReferences({Orders})

-----------------------------------------------------------------------------
(* What the steps check.                                                   *)

(* refresh_stale for a new route: a stop whose order has a newer version   *)
(* is read again when the order can still be planned.                      *)
Refreshed(references) ==
  [o \in Orders |->
     IF references[o].version # orders[o].version /\ Plannable(o, NoRoute)
     THEN Current[o] ELSE references[o]]

(* validate_references for new routes. *)
Valid(references) ==
  \A o \in Orders : Plannable(o, NoRoute) /\ references[o].version = orders[o].version

Used(proposal) == {proposal[o] : o \in Orders} \ {NoResource}

Drafts == {plan.route_ids[v] : v \in Resources} \ {NoRoute}

(* Mutant: a draft that was recalculated alone still belongs to the group. *)
UntouchedStatus(r) == routes[r].status = "bozza"

(* A draft of the plan as the plan saved it. *)
Untouched(r) == routes[r].status = "bozza" /\ r \notin revised

(* The checks of confirm; they hold exactly when the drafts can be saved.  *)
Savable ==
  /\ plan.status = "preview"
  /\ Used(plan.proposal) # {}
  /\ Refreshed(plan.configuration) = plan.validated
  /\ Valid(plan.validated)

-----------------------------------------------------------------------------
(* The preview.                                                            *)

(* The client loads the ready orders into its page. *)
LoadPage ==
  /\ plan.status = "assente"
  /\ \A o \in Orders : Plannable(o, NoRoute)
  /\ plan' = [plan EXCEPT !.status = "pagina", !.configuration = Current]
  /\ UNCHANGED <<orders, assignments, routes, usage, active, requests, overtaken, programs, revised, excused>>

CreatePreview(proposal) ==
  /\ active
  /\ plan.status = "pagina"
  /\ Valid(Refreshed(plan.configuration))
  /\ plan' = [plan EXCEPT !.status = "preview", !.version = 1, !.proposal = proposal,
                          !.validated = Refreshed(plan.configuration)]
  /\ UNCHANGED <<orders, assignments, routes, usage, active, requests, overtaken, programs, revised, excused>>

(* A manual redistribution reads the plan, computes without a lock ...     *)
StartRevision(f) ==
  /\ active
  /\ programs[f].phase = "idle"
  /\ plan.status = "preview" /\ plan.version < MaxPlanVersion
  /\ Valid(Refreshed(plan.configuration))
  /\ programs' = [programs EXCEPT ![f] =
       [phase |-> "distributing", version |-> plan.version,
        validated |-> Refreshed(plan.configuration)]]
  /\ UNCHANGED <<orders, assignments, routes, usage, active, requests, overtaken, plan, revised, excused>>

(* ... and writes its result when nobody changed the plan meanwhile.       *)
FinishRevision(f, proposal) ==
  /\ programs[f].phase = "distributing"
  /\ plan.status = "preview" /\ plan.version = programs[f].version
  /\ plan' = [plan EXCEPT !.validated = programs[f].validated, !.proposal = proposal,
                          !.version = @ + 1]
  /\ programs' = [programs EXCEPT ![f] = Resting]
  /\ UNCHANGED <<orders, assignments, routes, usage, active, requests, overtaken, revised, excused>>

-----------------------------------------------------------------------------
(* Saving and programming the group.                                       *)

(* confirm: every route of the proposal becomes a draft that reserves its  *)
(* orders, in one transaction.                                             *)
SaveDrafts(drafts) ==
  LET planned == {o \in Orders : plan.proposal[o] # NoResource}
      created == {drafts[v] : v \in Used(plan.proposal)}
      StopsOf(v) == {{o} : o \in {q \in Orders : plan.proposal[q] = v}}
  IN /\ active /\ Savable
     /\ drafts \in [Resources -> Routes \cup {NoRoute}]
     /\ \A v \in Resources : drafts[v] = NoRoute <=> v \notin Used(plan.proposal)
     /\ \A v, w \in Used(plan.proposal) : v # w => drafts[v] # drafts[w]
     /\ \A r \in created : routes[r].status = "assente"
     /\ orders' = [o \in Orders |-> IF o \in planned
                                    THEN Moved(orders[o], "assegnato", "draft") ELSE orders[o]]
     /\ assignments' = [o \in Orders |->
          IF o \in planned
          THEN [route |-> drafts[plan.proposal[o]], key |-> {o},
                address |-> plan.validated[o].address]
          ELSE assignments[o]]
     /\ routes' = [r \in Routes |->
          IF r \in created
          THEN LET v == CHOOSE w \in Resources : drafts[w] = r
               IN [routes[r] EXCEPT !.status = "bozza", !.stops = StopsOf(v), !.uses = {v}]
          ELSE routes[r]]
     /\ plan' = [plan EXCEPT !.status = "saved", !.route_ids = drafts, !.version = @ + 1]

Allocations == [Resources -> Routes \cup {NoRoute}]

(* The operator saves the drafts.  On a plan that is saved or programmed   *)
(* already the same request answers with the plan and changes nothing.     *)
Confirm ==
  /\ plan.version < MaxPlanVersion
  /\ \E drafts \in Allocations : SaveDrafts(drafts)
  /\ excused' = TRUE
  /\ UNCHANGED <<usage, active, requests, overtaken, programs, revised>>

(* The operator programs the group; the version is the one on the page.    *)
BeginProgram(f) ==
  /\ active
  /\ programs[f].phase = "idle"
  /\ plan.status \in {"preview", "saved"} /\ plan.version < MaxPlanVersion
  /\ programs' = [programs EXCEPT ![f].phase = IF plan.status = "preview" THEN "confirming"
                                                                          ELSE "saved",
                                  ![f].version = plan.version]
  /\ UNCHANGED <<orders, assignments, routes, usage, active, requests, overtaken, plan, revised, excused>>

(* Mutant: the request goes on with the version that its client sent. *)
ConfirmedBefore(f, version) == [programs[f] EXCEPT !.phase = "saved"]

(* The request goes on with the version of the plan it has just confirmed. *)
Confirmed(f, version) == [programs[f] EXCEPT !.phase = "saved", !.version = version]

ConfirmDrafts(f) ==
  /\ programs[f].phase = "confirming"
  /\ \/ /\ plan.version = programs[f].version
        /\ \E drafts \in Allocations : SaveDrafts(drafts)
        /\ excused' = FALSE
     \/ /\ plan.status \in {"saved", "programmed"}
        /\ UNCHANGED <<orders, assignments, routes, plan, excused>>
  /\ programs' = [programs EXCEPT ![f] = Confirmed(f, plan'.version)]
  /\ UNCHANGED <<usage, active, requests, overtaken, revised>>

(* The traffic is read and the new times of the drafts are saved. *)
EnrichDrafts(f) ==
  /\ programs[f].phase = "saved"
  /\ plan.status = "saved" /\ plan.version = programs[f].version
  /\ \A r \in Drafts : Untouched(r)
  /\ programs' = [programs EXCEPT ![f].phase = "enriched"]
  /\ UNCHANGED <<orders, assignments, routes, usage, active, requests, overtaken, plan, revised, excused>>

(* Mutant: the second look at the drafts is left out. *)
StillTogetherOnce == TRUE

(* The drafts are checked again under the locks of the last transaction. *)
StillTogether == \A r \in Drafts : Untouched(r)

(* The orders of the group are scheduled with their routes. *)
Scheduled == SyncOrders(orders, UNION {Assigned(r) : r \in Drafts}, "scheduled")

ScheduleGroup(f) ==
  /\ active
  /\ programs[f].phase = "enriched"
  /\ plan.status # "programmed" /\ plan.version = programs[f].version
  /\ StillTogether
  /\ orders' = Scheduled
  /\ routes' = [r \in Routes |-> IF r \in Drafts THEN [routes[r] EXCEPT !.status = "programmato"]
                                                 ELSE routes[r]]
  /\ plan' = [plan EXCEPT !.status = "programmed", !.version = @ + 1]
  /\ programs' = [programs EXCEPT ![f] = Resting]
  /\ UNCHANGED <<assignments, usage, active, requests, overtaken, revised, excused>>

(* Another request programmed the group: this one answers with it. *)
AnswerProgrammed(f) ==
  /\ programs[f].phase \in {"saved", "enriched"} /\ plan.status = "programmed"
  /\ programs' = [programs EXCEPT ![f] = Resting]
  /\ UNCHANGED <<orders, assignments, routes, usage, active, requests, overtaken, plan, revised, excused>>

(* A step is refused or raises an error: a shift, a busy vehicle, a past   *)
(* departure, the provider, a changed plan.  Its transaction is undone.    *)
FailProgram(f) ==
  /\ programs[f].phase \in {"confirming", "saved", "enriched"}
  /\ programs' = [programs EXCEPT ![f].phase = "failed"]
  /\ UNCHANGED <<orders, assignments, routes, usage, active, requests, overtaken, plan, revised, excused>>

(* Mutant: the references keep the old versions. *)
RenewedNowhere(references, table) == references

(* release_failed_drafts writes the versions of the orders, and only them, *)
(* into the stops of the configuration and of the result.                  *)
RenewedVersions(references, table) ==
  [o \in Orders |-> [references[o] EXCEPT !.version = table[o].version]]

(* The compensation, in a transaction of its own. *)
ReleaseDrafts(f) ==
  /\ programs[f].phase = "failed"
  /\ plan.status = "saved" /\ plan.version = programs[f].version
  /\ \A r \in Drafts : Untouched(r)
  /\ LET members == UNION {Assigned(r) : r \in Drafts}
         synced == SyncOrders(orders, members, "cancelled")
     IN /\ orders' = synced
        /\ assignments' = [o \in Orders |-> IF o \in members THEN Unassigned ELSE assignments[o]]
        /\ routes' = [r \in Routes |-> IF r \in Drafts THEN [routes[r] EXCEPT !.status = "annullato"]
                                                       ELSE routes[r]]
        /\ plan' = [plan EXCEPT !.status = "preview", !.route_ids = NoDrafts, !.version = @ + 1,
                                !.configuration = RenewedVersions(@, synced),
                                !.validated = RenewedVersions(@, synced)]
  /\ programs' = [programs EXCEPT ![f] = Resting]
  /\ UNCHANGED <<usage, active, requests, overtaken, revised, excused>>

(* There is nothing to release: the plan is not saved, it changed, or a    *)
(* draft was taken over by the office.                                     *)
LeaveDrafts(f) ==
  /\ programs[f].phase = "failed"
  /\ \/ plan.status # "saved" \/ plan.version # programs[f].version
     \/ \E r \in Drafts : ~Untouched(r)
  /\ programs' = [programs EXCEPT ![f] = Resting]
  /\ UNCHANGED <<orders, assignments, routes, usage, active, requests, overtaken, plan, revised, excused>>

(* A revision is refused, and changes nothing. *)
FailRevision(f) ==
  /\ programs[f].phase = "distributing"
  /\ programs' = [programs EXCEPT ![f] = Resting]
  /\ UNCHANGED <<orders, assignments, routes, usage, active, requests, overtaken, plan, revised, excused>>

(* The process stops between two transactions of a request. *)
Crash(f) ==
  /\ programs[f].phase # "idle"
  /\ programs' = [programs EXCEPT ![f] = Resting]
  /\ excused' = TRUE
  /\ UNCHANGED <<orders, assignments, routes, usage, active, requests, overtaken, plan, revised>>

-----------------------------------------------------------------------------
(* Everything else that happens to the orders and to the drafts.           *)

(* A route of its own is computed, or recalculated with a row that may be  *)
(* older than the save, next to the group.  Saving over an existing route  *)
(* replaces its routing snapshot.                                          *)
SaveAlone(p, r) ==
  /\ SaveRoute(p, r)
  /\ revised' = IF requests[p].route = NoRoute THEN revised ELSE revised \cup {r}
  /\ UNCHANGED <<plan, programs, excused>>

DeskAlone == Desk /\ UNCHANGED <<plan, programs, revised, excused>>

RoutesAlone ==
  \/ /\ \/ \E r \in Routes : ProgramRoute(r) \/ StartRoute(r) \/ CancelRoute(r)
        \/ \E p \in Planners :
             \/ \E route \in Routes \cup {NoRoute}, stops \in RowSets, v \in Resources,
                   held \in BOOLEAN : ValidatePlan(p, route, stops, {v}, held)
             \/ AbandonPlan(p)
             \/ RereadRoute(p)
     /\ UNCHANGED <<plan, programs, revised, excused>>
  \/ \E p \in Planners, r \in Routes : SaveAlone(p, r)

-----------------------------------------------------------------------------

(* The plan is made of orders that are ready. *)
FleetInit ==
  /\ orders \in [Orders -> {[status |-> "pronto", delivery |-> "not_assigned", version |-> 2,
                             address |-> a, verified |-> TRUE] : a \in Addresses}]
  /\ assignments = [o \in Orders |-> Unassigned]
  /\ routes = [r \in Routes |-> [status |-> "assente", stops |-> {}, completed |-> {},
                                 missed |-> {}, uses |-> {}, started |-> FALSE]]
  /\ usage = {}
  /\ active = TRUE
  /\ requests = [p \in Planners |-> Idle]
  /\ overtaken = {}
  /\ plan = [status |-> "assente", version |-> 0, configuration |-> NoReferences,
             validated |-> NoReferences, proposal |-> [o \in Orders |-> NoResource],
             route_ids |-> NoDrafts]
  /\ programs = [f \in Operators |-> Resting]
  /\ revised = {}
  /\ excused = FALSE

Preview ==
  \/ LoadPage
  \/ \E proposal \in Proposals : CreatePreview(proposal)
  \/ \E f \in Operators : \/ StartRevision(f)
                          \/ \E proposal \in Proposals : FinishRevision(f, proposal)
                          \/ FailRevision(f)

(* The steps a request takes by itself once the operator has sent it. *)
Step(f) ==
  \/ ConfirmDrafts(f)
  \/ EnrichDrafts(f)
  \/ ScheduleGroup(f)
  \/ AnswerProgrammed(f)
  \/ FailProgram(f)
  \/ ReleaseDrafts(f)
  \/ LeaveDrafts(f)

Programming ==
  \/ Confirm
  \/ \E f \in Operators : BeginProgram(f) \/ Step(f) \/ Crash(f)

FleetNext == Preview \/ Programming \/ DeskAlone \/ RoutesAlone

(* A request runs to its end unless the process stops. *)
FleetFairness == \A f \in Operators : WF_fleetVars(Step(f))

FleetSpec == FleetInit /\ [][FleetNext]_fleetVars /\ FleetFairness

-----------------------------------------------------------------------------
(* What a step may never do.                                               *)

(* The route is still the draft that the plan saved. *)
AsSaved(r) == routes[r].status = "bozza" /\ r \notin revised

(* The plan, its routes and what the requests keep between transactions    *)
(* have their types, and no driver or vehicle is on two running routes,    *)
(* whether a route was started from the group or by the office alone,      *)
(* unless one of them was saved with a row read before it started.         *)
FleetRuns == FleetTypeOK /\ OneRunningRoutePerResource

(* The group is programmed as one: a route of a saved plan becomes         *)
(* "programmato" either alone, by the office, which leaves the plan as it  *)
(* is, or together with all the others, each exactly as it was saved.      *)
GroupIsProgrammedTogether ==
  [][(plan.status = "saved" /\ plan' # plan) =>
       \/ plan'.status = "preview"
       \/ /\ plan'.status = "programmed"
          /\ \A r \in Drafts : AsSaved(r) /\ routes'[r].status = "programmato"]_fleetVars

(* A failed programming never takes back a route that the office           *)
(* recalculated, programmed, started or cancelled after it was saved, and  *)
(* what it takes back is all free again: a plan is a preview only when no  *)
(* route of it is left.                                                    *)
ReleaseSparesTheOffice ==
  [][(plan.status = "saved" /\ plan'.status = "preview") =>
       /\ \A r \in Routes : IF r \in Drafts
                             THEN AsSaved(r) /\ routes'[r].status = "annullato"
                             ELSE routes'[r] = routes[r]
       /\ \A o \in Orders : assignments'[o].route \notin Drafts]_fleetVars

(* "failed_programming_releases_orders_and_can_retry": after the release   *)
(* the same preview can be saved again at once, unless the desk or another *)
(* route changed one of its orders, which the preview has to notice.       *)
ReleasedPlanCanBeRetried ==
  [][(plan.status = "saved" /\ plan'.status = "preview"
       /\ \A o \in Orders : /\ plan.proposal[o] = NoResource =>
                                 orders[o].version = plan.validated[o].version
                            /\ plan.configuration[o].address = plan.validated[o].address)
     => Savable']_fleetVars

(* Drafts that were saved only on the way to a programmed group do not     *)
(* stay: sooner or later the group is programmed or they are released,     *)
(* unless the process stopped or the office took one of them over.         *)
UnaskedDraftsDoNotStay ==
  (plan.status = "saved") ~>
    (plan.status # "saved" \/ excused \/ \E r \in Drafts : ~AsSaved(r))

=============================================================================
