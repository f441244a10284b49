------------------------------ MODULE MCPlanning ------------------------------
(* Instances, for TLC, of the modules about the plan of a day: the search   *)
(* of one route, the search of a fleet, the calculation of a preview, and   *)
(* what the office does with the preview.  They share no variable: in a     *)
(* behaviour one part takes all of the steps, and the others stay as they   *)
(* begin.                                                                   *)
EXTENDS FleetPlan, RouteSearch, FleetSearch, FleetProposal, TLC

CONSTANT Parts  (* The parts a run is about. *)

VARIABLE part

planningVars == <<part, fleetVars, routeVars, searchVars, proposalVars>>

Symmetry == Permutations(Orders) \cup Permutations(Routes) \cup Permutations(Resources)
              \cup Permutations(Operators) \cup Permutations(Planners) \cup Permutations(Addresses)

(* A route of its own carries one order, or goes to a customer without one. *)
OneStop == {{{}}} \cup {{{o}} : o \in Orders}

-----------------------------------------------------------------------------
(* Roads between the depot, 0, and three stops, one way longer than back.   *)

Roads == <<<<0, 2, 4, 4>>, <<4, 0, 2, 6>>, <<4, 4, 0, 2>>, <<2, 6, 4, 0>>>>

RoadsOf(n) == [ij \in (0 .. n) \X (0 .. n) |-> Roads[ij[1] + 1][ij[2] + 1]]

W(from, to) == [open |-> from, close |-> to]

-----------------------------------------------------------------------------
(* One route.                                                               *)

Call(windows, service) == [windows |-> windows, service |-> service]

Calls == {Call({}, 2), Call({W(4, 8)}, 2), Call({W(10, 20)}, 2), Call({W(2, 6), W(12, 16)}, 0)}

Task(stops, back, shift, breaks, movable) ==
  [stops |-> stops, km |-> RoadsOf(Len(stops)), min |-> RoadsOf(Len(stops)), back |-> back, leave |-> 0,
   shift |-> shift, breaks |-> breaks, limit |-> 40, movable |-> movable]

(* The same roads from the other end: the nearest stop is the last one. *)
Mirrored(t) ==
  LET Far(i) == IF i = 0 THEN 0 ELSE Len(t.stops) + 1 - i
      Seen(roads) == [ij \in DOMAIN roads |-> roads[<<Far(ij[1]), Far(ij[2])>>]]
  IN [t EXCEPT !.km = Seen(@), !.min = Seen(@)]

SomeTasks ==
  {Mirrored(Task(<<Call({W(4, 8)}, 2), c, Call({}, 2)>>, TRUE, <<0, 30>>, <<>>, TRUE)) : c \in Calls} \cup
  {Task(<<Call({W(10, 20)}, 2), Call({W(4, 8)}, 2), c>>, TRUE, <<0, 30>>, <<W(8, 10)>>, TRUE) : c \in Calls}
    \cup {Task(<<a, b>>, back, <<0, 20>>, breaks, movable) :
            a \in Calls, b \in Calls, back \in BOOLEAN, breaks \in {<<>>, <<W(4, 6), W(8, 10)>>},
            movable \in BOOLEAN}

-----------------------------------------------------------------------------
(* Fleets of two vehicles, chosen so that windows, breaks, capacity, gear   *)
(* and bookings each decide, that a delivery may fit nowhere, and that the  *)
(* traffic makes a division late which another division is not.             *)

Drop(windows, service, load, needs) ==
  [windows |-> windows, service |-> service, load |-> load, needs |-> needs]

Van(shift, breaks, gear, capacity, booked) ==
  [shift |-> shift, breaks |-> breaks, gear |-> gear, capacity |-> capacity, booked |-> booked]

FleetOf(stops, back, trucks) ==
  [stops |-> stops, km |-> RoadsOf(Len(stops)), min |-> RoadsOf(Len(stops)), back |-> back, leave |-> 0,
   trucks |-> trucks]

Lift == {"lift"}

SomeFleets == <<
  FleetOf(<<Drop({W(4, 10)}, 2, 1, {}), Drop({W(10, 16)}, 2, 1, Lift)>>, TRUE,
          <<Van(<<0, 24>>, <<W(8, 10)>>, {}, 2, {}), Van(<<0, 24>>, <<W(8, 10)>>, Lift, 2, {})>>),
  FleetOf(<<Drop({}, 2, 1, {}), Drop({W(4, 10)}, 2, 1, Lift), Drop({W(2, 6), W(14, 20)}, 2, 1, {})>>, TRUE,
          <<Van(<<0, 24>>, <<W(8, 10)>>, {}, 2, {}), Van(<<0, 24>>, <<W(8, 10)>>, {}, 2, {W(14, 20)})>>),
  FleetOf(<<Drop({}, 2, 1, {}), Drop({W(4, 10)}, 2, 2, Lift), Drop({W(2, 6)}, 0, 2, {})>>, TRUE,
          <<Van(<<0, 24>>, <<>>, Lift, 3, {}), Van(<<2, 20>>, <<W(8, 10)>>, {}, 3, {})>>),
  FleetOf(<<Drop({W(2, 8)}, 2, 1, {}), Drop({W(2, 8)}, 2, 1, {}), Drop({W(2, 8)}, 2, 1, {"zone"})>>, TRUE,
          <<Van(<<0, 16>>, <<>>, {}, 2, {}), Van(<<0, 16>>, <<W(6, 8)>>, {"zone"}, 1, {})>>),
  FleetOf(<<Drop({}, 2, 1, Lift), Drop({W(6, 12)}, 2, 1, {}), Drop({W(2, 8)}, 2, 1, {})>>, FALSE,
          <<Van(<<2, 12>>, <<>>, Lift, 1, {W(14, 18)}), Van(<<2, 16>>, <<W(8, 10)>>, {}, 2, {})>>),
  FleetOf(<<Drop({W(6, 12)}, 0, 2, Lift), Drop({W(8, 14)}, 2, 2, {}), Drop({W(10, 14)}, 2, 2, {})>>, TRUE,
          <<Van(<<0, 24>>, <<W(4, 6)>>, {}, 1, {}), Van(<<0, 20>>, <<>>, {}, 2, {})>>),
  FleetOf(<<Drop({W(10, 14)}, 2, 1, {}), Drop({W(2, 8)}, 0, 1, Lift), Drop({W(12, 20)}, 2, 2, {})>>, FALSE,
          <<Van(<<0, 16>>, <<>>, {}, 3, {}), Van(<<2, 14>>, <<W(6, 8)>>, Lift, 1, {W(14, 18)})>>),
  FleetOf(<<Drop({}, 2, 1, {}), Drop({W(10, 12)}, 2, 1, {})>>, TRUE,
          <<Van(<<>>, <<>>, {}, 2, {W(18, 22)})>>)
  >>

SomeAssignments == {<<>>, <<1, 2>>, <<1, 1>>, <<3, 1>>, <<1, 2, 1>>, <<1, 1, 1>>, <<0, 2, 2>>}

-----------------------------------------------------------------------------

(* A part that does not move begins with nothing to do. *)
NoRouteSearch ==
  /\ task = <<>> /\ margin = 0 /\ ranks = [o \in {<<>>} |-> <<>>]
  /\ tour = [phase |-> "asked", order |-> <<>>, used |-> 0]

NoFleetSearch ==
  /\ fleet = 1 /\ here = <<>> /\ strategy = "balanced" /\ phase = "asked"
  /\ floor = <<>> /\ best = <<>> /\ work = <<>> /\ astray = {}

NoProposal ==
  /\ asked = <<>> /\ pass = <<>> /\ stage = "begin" /\ book = <<>> /\ clocked = {}
  /\ division = <<>> /\ seed = <<>> /\ offer = <<>> /\ left = {} /\ kept = <<>> /\ first = <<>>

PlanningInit ==
  /\ part \in Parts
  /\ FleetInit
  /\ IF part = "route" THEN RouteSearchInit ELSE NoRouteSearch
  /\ IF part = "search" THEN SearchInit ELSE NoFleetSearch
  /\ IF part = "proposal" THEN ProposalInit ELSE NoProposal

(* A recalculation of the group's routes takes their orders out, or no      *)
(* route is without orders: the two parts of a run too large as one.        *)
FleetPart ==
  /\ part = "fleet" /\ FleetNext
  /\ \A p \in Planners : requests'[p].stops # {{}}
  /\ UNCHANGED <<part, routeVars, searchVars, proposalVars>>

RewritePart ==
  /\ part = "rewrite" /\ (Preview \/ Programming \/ RoutesAlone)
  /\ \A p \in Planners : requests'[p].phase # "idle" =>
       requests'[p].route # NoRoute /\ requests'[p].stops = {{}}
  /\ UNCHANGED <<part, routeVars, searchVars, proposalVars>>

RoutePart ==
  /\ part = "route" /\ RouteSearchNext
  /\ UNCHANGED <<part, fleetVars, searchVars, proposalVars>>

SearchPart ==
  /\ part = "search" /\ SearchNext
  /\ UNCHANGED <<part, fleetVars, routeVars, proposalVars>>

ProposalPart ==
  /\ part = "proposal" /\ ProposalNext
  /\ UNCHANGED <<part, fleetVars, routeVars, searchVars>>

PlanningNext == FleetPart \/ RewritePart \/ RoutePart \/ SearchPart \/ ProposalPart

PlanningSpec == PlanningInit /\ [][PlanningNext]_planningVars

==============================================================================
