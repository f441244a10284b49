----------------------------- MODULE FleetScores -----------------------------
(* How the plans of a fleet are compared: several drivers leave one depot   *)
(* with their vehicles, and a plan gives each of them an order of stops     *)
(* (app/services/fleet_planning.py, fleet_search.py, fleet_working_clock.py *)
(* and fleet_milp_solver.py).                                               *)
(*                                                                          *)
(* A fleet is a problem of RouteClock with its vehicles: "trucks", each     *)
(* with the shift and the breaks of its driver, its gear, its capacity and  *)
(* what is "booked" of the day.  A stop has also a load and what it         *)
(* "needs".  Gear is advice: a plan without it is worse, never forbidden.   *)
EXTENDS RouteClock

CONSTANTS
  Fleets,            (* Every fleet that is planned, by its number.          *)
  Strategies,        (* Of the operator: "efficient" or "balanced".          *)
  RefineStops        (* The stops up to which an order is exact: 8.          *)

(* What a fleet is made of.                                                 *)
IsCall(s) == IsStop(s) /\ DOMAIN s = {"windows", "service", "load", "needs"} /\ IsFiniteSet(s.needs)

(* The hours of a driver: the breaks in their order, apart, in the shift.   *)
IsSchedule(shift, breaks) ==
  /\ shift \in {<<>>} \cup (Nat \X Nat) /\ breaks \in Seq(WindowSet)
  /\ \A i, j \in DOMAIN breaks : i < j => breaks[i].close <= breaks[j].open
  /\ \A i \in DOMAIN breaks : breaks[i].open < breaks[i].close
  /\ shift # <<>> =>
       shift[1] <= shift[2] /\ \A i \in DOMAIN breaks : shift[1] <= breaks[i].open /\ breaks[i].close <= shift[2]

IsTruck(truck) ==
  /\ DOMAIN truck = {"shift", "breaks", "gear", "capacity", "booked"}
  /\ IsSchedule(truck.shift, truck.breaks)

IsFleet(f) ==
  /\ DOMAIN f = {"stops", "km", "min", "back", "leave", "trucks"}
  /\ Len(f.stops) \in Nat /\ DOMAIN f.stops = 1 .. Len(f.stops)
  /\ \A i \in DOMAIN f.stops : IsCall(f.stops[i])
  /\ f.km \in [Legs(Len(f.stops)) -> Nat] /\ f.min \in [Legs(Len(f.stops)) -> Nat] /\ f.leave \in Nat
  /\ Len(f.trucks) \in Nat /\ DOMAIN f.trucks = 1 .. Len(f.trucks)
  /\ \A t \in DOMAIN f.trucks : IsTruck(f.trucks[t])

ASSUME FleetsAssumption ==
  /\ \A f \in DOMAIN Fleets : IsFleet(Fleets[f]) /\ Fleets[f].trucks # <<>>
  /\ Strategies \subseteq {"efficient", "balanced"} /\ RefineStops \in Nat

Jobs(fleet) == 1 .. Len(fleet.stops)
Trucks(fleet) == 1 .. Len(fleet.trucks)

OrdersWithin(s) == UNION {OrdersOf(members) : members \in SUBSET s}

(* An order without some of its stops.                                      *)
LeftOver(order, removed) ==
  FoldLeft(LAMBDA some, job : IF job \in removed THEN some ELSE Append(some, job), <<>>, order)

Total(values) == FoldFunction(LAMBDA x, y : x + y, 0, values)

-----------------------------------------------------------------------------
(* One route.                                                               *)

(* The common departure, or the start of a shift that begins later.         *)
ResourceStart(fleet, t) ==
  LET shift == fleet.trucks[t].shift
  IN IF shift = <<>> THEN fleet.leave ELSE Greater(fleet.leave, shift[1])

(* Mutant: only midnight ends the work. *)
WorkLimitOfDay(fleet, t) == Greater(0, DayEnd - ResourceStart(fleet, t))

(* The time from a start before the next booking, or midnight: it is looked *)
(* for by halves.                                                           *)
FreeTime(booked, start) ==
  LET Free(length) == \A b \in booked : ~(start < b.close /\ b.open < start + length)
      near[at \in (0 .. DayEnd) \X (0 .. DayEnd)] ==
        LET middle == (at[1] + at[2] + 1) \div 2
        IN IF at[1] >= at[2] THEN at[1]
           ELSE IF Free(middle) THEN near[<<middle, at[2]>>] ELSE near[<<at[1], middle - 1>>]
  IN near[<<0, Greater(0, DayEnd - start)>>]

(* The time before another route of the driver or the vehicle, or midnight. *)
WorkLimit(fleet, t) == FreeTime(fleet.trucks[t].booked, ResourceStart(fleet, t))

(* The problem of one vehicle.                                              *)
Problem(fleet, t) ==
  LET truck == fleet.trucks[t]
  IN [stops |-> fleet.stops, km |-> fleet.km, min |-> fleet.min, back |-> fleet.back,
      leave |-> ResourceStart(fleet, t), shift |-> truck.shift, breaks |-> truck.breaks,
      limit |-> WorkLimit(fleet, t), movable |-> TRUE]

Load(fleet, order) == Total([i \in DOMAIN order |-> fleet.stops[order[i]].load])

(* The weight and the parcels depend on who is aboard, not on the order.    *)
MembershipCompatible(fleet, t, order) == Load(fleet, order) <= fleet.trucks[t].capacity

ScoreOf(fleet, t, order) ==
  IF MembershipCompatible(fleet, t, order) THEN Evaluate(Problem(fleet, t), order) ELSE NoScore

(* Vehicles that cannot be told apart share their evaluations.              *)
Signature(fleet, t) ==
  LET truck == fleet.trucks[t]
  IN <<truck.shift, truck.breaks, truck.gear, truck.capacity, WorkLimit(fleet, t)>>

Alias(fleet, t) == Least({u \in Trucks(fleet) : Signature(fleet, u) = Signature(fleet, t)})

(* The evaluations of a fleet: of every order on every vehicle.             *)
ScoresOf(fleet) ==
  [t \in Trucks(fleet) |-> [o \in OrdersWithin(Jobs(fleet)) \ {<<>>} |->
     ScoreOf(fleet, Alias(fleet, t), o)]]

Replay(scores, t, order) ==
  IF order = <<>> THEN [km |-> 0, minutes |-> 0, cost |-> 0, work |-> 0] ELSE scores[t][order]

-----------------------------------------------------------------------------
(* A plan: the order of each vehicle.                                       *)

Aboard(routes) == UNION {Range(routes[t]) : t \in DOMAIN routes}

Served(routes) == Total([t \in DOMAIN routes |-> Len(routes[t])])

(* No delivery twice, and every route is one its driver can work.           *)
ValidPlan(scores, routes) ==
  /\ Cardinality(Aboard(routes)) = Served(routes)
  /\ \A t \in DOMAIN routes : routes[t] # <<>> => scores[t][routes[t]] # NoScore

(* The gear that is missing.                                                *)
Mismatch(fleet, t, order) ==
  Total([i \in DOMAIN order |-> Cardinality(fleet.stops[order[i]].needs \ fleet.trucks[t].gear)])

(* Coverage first, then gear, then the strategy; "vehicles" is the          *)
(* objective of the older search.                                           *)
PlanKey(strategy, fleet, scores, routes) ==
  LET Sum(field) == Total([t \in Trucks(fleet) |-> Replay(scores, t, routes[t])[field]])
      works == [t \in Trucks(fleet) |-> Replay(scores, t, routes[t]).work]
      active == Cardinality({t \in Trucks(fleet) : routes[t] # <<>>})
  IN <<-Served(routes), Total([t \in Trucks(fleet) |-> Mismatch(fleet, t, routes[t])])>> \o
     CASE strategy = "balanced" -> <<-active, Greatest(Range(works)),
                                     Total([t \in Trucks(fleet) |-> works[t] * works[t]]),
                                     Total(works), Sum("km")>>
       [] strategy = "distance" -> <<Sum("km"), Sum("minutes"), active>>
       [] strategy = "efficient" -> <<Sum("cost"), Sum("km"), Sum("minutes"), active>>
       [] strategy = "vehicles" -> <<active, Sum("minutes"), Sum("km")>>

BookOf(fleet, scores, plans) ==
  [fleet |-> fleet, scores |-> scores, plans |-> plans,
   keys |-> [strategy \in Strategies \cup {"distance", "vehicles"} |->
               [routes \in plans |-> PlanKey(strategy, fleet, scores, routes)]]]

ScoredBook(fleet, scores) ==
  BookOf(fleet, scores, {p \in [Trucks(fleet) -> OrdersWithin(Jobs(fleet))] : ValidPlan(scores, p)})

(* Everything there is to know of a fleet, computed once.                   *)
Book(fleet) == ScoredBook(fleet, ScoresOf(fleet))

Better(book, strategy, a, b) == Before(book.keys[strategy][a], book.keys[strategy][b])

BetterOf(book, strategy, a, b) == IF Better(book, strategy, a, b) THEN a ELSE b

BestPlan(book, strategy, plans) ==
  CHOOSE a \in plans : \A b \in plans : ~Better(book, strategy, b, a)

Empty(book) == [t \in Trucks(book.fleet) |-> <<>>]

-----------------------------------------------------------------------------
(* The constructions, before any search.                                    *)

(* The places where a delivery can be inserted.                             *)
InsertedAt(book, routes, job) ==
  (UNION {{[routes EXCEPT ![t] = InsertAt(@, i, job)] : i \in 1 .. Len(routes[t]) + 1} : t \in DOMAIN routes})
    \cap book.plans

InsertKey(book, kind, old, new) ==
  LET t == CHOOSE u \in DOMAIN new : new[u] # old[u]
      s == [u \in DOMAIN new |-> Replay(book.scores, u, new[u])]
      was == Replay(book.scores, t, old[t])
      idle == Cardinality({u \in DOMAIN new \ {t} : new[u] = <<>>})
      active == Cardinality({u \in DOMAIN new : new[u] # <<>>})
  IN <<Total([u \in DOMAIN new |-> Mismatch(book.fleet, u, new[u])])>> \o
     CASE kind = "balanced" -> <<idle, Greatest({s[u].work : u \in DOMAIN new}),
                                 Total([u \in DOMAIN new |-> s[u].work * s[u].work]),
                                 s[t].work - was.work, s[t].km>>
       [] kind = "distance" -> <<Total([u \in DOMAIN new |-> s[u].km]),
                                 Total([u \in DOMAIN new |-> s[u].minutes]), active>>
       [] kind = "time" -> <<(IF old[t] = <<>> THEN 1 ELSE 0), s[t].minutes - was.minutes, s[t].km>>

(* Every delivery in its turn, where it costs least; it is left out if it   *)
(* fits nowhere.                                                            *)
Construct(book, kind, order) ==
  LET Insert(routes, job) ==
        LET found == InsertedAt(book, routes, job)
        IN IF found = {} THEN routes
           ELSE CHOOSE r \in found : \A q \in found :
                  ~Before(InsertKey(book, kind, routes, q), InsertKey(book, kind, routes, r))
  IN FoldLeft(Insert, Empty(book), order)

Close(s) == IF s.windows = {} THEN DayEnd ELSE Least({w.close : w \in s.windows})

(* The deliveries by their keys, of which no two are the same.              *)
Sorted(keys) ==
  [n \in DOMAIN keys |-> CHOOSE i \in DOMAIN keys :
     Cardinality({j \in DOMAIN keys : Before(keys[j], keys[i])}) = n - 1]

(* The order of the former construction, and the most urgent first.         *)
LegacyOrder(fleet) ==
  Sorted([i \in Jobs(fleet) |->
    <<(IF fleet.stops[i].needs # {} THEN 0 ELSE 1), (IF fleet.stops[i].windows # {} THEN 0 ELSE 1),
      -fleet.stops[i].load, i>>])

UrgencyOrder(fleet) ==
  Sorted([i \in Jobs(fleet) |->
    <<(IF "lift" \in fleet.stops[i].needs THEN 0 ELSE 1), Close(fleet.stops[i]),
      -fleet.stops[i].load, i>>])

Constructions(book) ==
  {Construct(book, kind, order) : kind \in {"balanced", "time"},
                                  order \in {LegacyOrder(book.fleet), UrgencyOrder(book.fleet)}}
    \cup {Construct(book, "distance", UrgencyOrder(book.fleet))}

-----------------------------------------------------------------------------
(* Two orders of the same stops on the same vehicle.                        *)
RouteKey(strategy, score) ==
  CASE strategy = "balanced" -> <<score.work, score.km>>
    [] strategy = "distance" -> <<score.km, score.minutes>>
    [] strategy = "efficient" -> <<score.cost, score.km, score.minutes>>

BestOrder(strategy, score, order) ==
  LET fit == {o \in DOMAIN score : score[o] # NoScore}
  IN IF fit = {} THEN order
     ELSE CHOOSE o \in fit : \A q \in fit : ~Before(RouteKey(strategy, score[q]), RouteKey(strategy, score[o]))

(* The last pass: the best order of each short route, its vehicle fixed.    *)
(* The prepared evaluation finds it; the whole one confirms it, or looks    *)
(* for it again.                                                            *)
RefineRoutes(strategy, fleet, scores, routes) ==
  LET Confirmed(t, fast, order) ==
        IF fast[order] = scores[t][order] THEN order
        ELSE BestOrder(strategy, [o \in DOMAIN fast |-> scores[t][o]], routes[t])
      Refined(t, fast) == Confirmed(t, fast, BestOrder(strategy, fast, routes[t]))
  IN [t \in DOMAIN routes |->
        IF Len(routes[t]) \in 1 .. RefineStops
        THEN Refined(t, [o \in OrdersOf(Range(routes[t])) |-> FixedRouteEvaluator(Problem(fleet, t), o)])
        ELSE routes[t]]

=============================================================================
