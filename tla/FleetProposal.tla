---------------------------- MODULE FleetProposal ----------------------------
(* One calculation of a preview (app/services/fleet_planning.py,            *)
(* traffic_correction.py, fleet_milp_solver.py, and what is asked of the    *)
(* engines in fleet_ortools.py and fleet_pyvrp.py).                         *)
(*                                                                          *)
(* The customers of another island are left out.  The others are divided    *)
(* by a search, or as the operator has assigned them; every engine may      *)
(* propose something better; the order of each route is refined, its        *)
(* departure moved, and the traffic asked for.  A route that is late with   *)
(* the traffic is ordered again; if that is not enough the whole division   *)
(* is made again with slower roads, and with windows and shifts that close  *)
(* earlier, for the search only.                                            *)
(*                                                                          *)
(* A search is what FleetSearch promises: a plan the drivers can work,      *)
(* never worse than the constructions.                                      *)
EXTENDS FleetScores

CONSTANTS
  Assignments,       (* What the operator may ask: <<>>, or the vehicle of   *)
                     (* each delivery, 0 for none.                           *)
  Islands,           (* The sets of deliveries that would need a ferry.      *)
  Rates,             (* The traffic: how many times longer the roads are.    *)
  Margin,            (* The smallest buffer of a window: 15 minutes.         *)
  WidestMargin       (* The largest: 45 minutes.                             *)

ASSUME PreviewAssumption == Rates \subseteq Nat /\ Margin \in Nat /\ WidestMargin \in Nat

VARIABLES
  asked,             (* The request: fleet, strategy, assignments, ferry.    *)
  pass,              (* The attempt: how it is tightened.                    *)
  stage,
  book,              (* Everything about the fleet of this attempt.          *)
  clocked,           (* The plans that work on the clock of the engines.     *)
  division,          (* What each vehicle carries, as it is decided.         *)
  seed,              (* The division that the recovery repairs.              *)
  offer,             (* The routes with their departure and their traffic.   *)
  left,              (* The deliveries that are reported as unassigned.      *)
  kept,              (* The best attempt: its offer and its "left".          *)
  first              (* History: the first attempt.                          *)

proposalVars == <<asked, pass, stage, book, clocked, division, seed, offer, left, kept, first>>

-----------------------------------------------------------------------------
(* What an attempt changes for the search.                                  *)

Loose == [rate |-> 1, buffer |-> 0, shift |-> 0]

Slower(roads, rate) == [leg \in DOMAIN roads |-> roads[leg] * rate]

ClosedEarlier(stop, minutes) ==
  [stop EXCEPT !.windows =
     {[w EXCEPT !.close = Smaller(@, Greater(@ - minutes, w.open + stop.service))] : w \in @}]

(* Never beyond the half of the shift, nor before the end of a break.       *)
ShortenedShift(truck, minutes) ==
  IF truck.shift = <<>> \/ minutes = 0 THEN truck
  ELSE LET half == truck.shift[1] + (truck.shift[2] - truck.shift[1]) \div 2
           ends == {p.close : p \in Range(truck.breaks)}
       IN [truck EXCEPT !.shift[2] = Greatest({@ - minutes, half} \cup ends)]

Tightened(fleet, how) ==
  [fleet EXCEPT !.min = Slower(@, how.rate),
                !.stops = [i \in DOMAIN @ |-> ClosedEarlier(@[i], how.buffer)],
                !.trucks = [t \in DOMAIN @ |-> ShortenedShift(@[t], how.shift)]]

(* The windows and the shifts of the customers and of the drivers again.    *)
(* The roads stay as slow as they were.                                     *)
Restored(fleet, how) == [fleet EXCEPT !.min = Slower(@, how.rate)]

-----------------------------------------------------------------------------
(* The request.                                                             *)

(* The deliveries that are searched, in their own numbers.                  *)
Reachable == LeftOver([i \in Jobs(Fleets[asked.fleet]) |-> i], asked.ferry)

Subset(fleet, jobs) ==
  LET n == Len(jobs)
      Old(i) == IF i = 0 THEN 0 ELSE jobs[i]
      Part(roads) == [ij \in (0 .. n) \X (0 .. n) |-> roads[<<Old(ij[1]), Old(ij[2])>>]]
  IN [fleet EXCEPT !.stops = [i \in 1 .. n |-> @[jobs[i]]], !.km = Part(@), !.min = Part(@)]

(* The fleet as it was asked, without the customers beyond the sea.         *)
Requested == Subset(Fleets[asked.fleet], Reachable)

Strategy == asked.strategy

Manual == asked.assignments # <<>>

Chosen == [i \in DOMAIN Reachable |-> asked.assignments[Reachable[i]]]

ProposalInit ==
  /\ asked \in {a \in [fleet : DOMAIN Fleets, strategy : Strategies, assignments : Assignments, ferry : Islands] :
                  /\ a.ferry \subseteq Jobs(Fleets[a.fleet])
                  /\ a.assignments # <<>> =>
                       Len(a.assignments) = Len(Fleets[a.fleet].stops)}
  /\ pass = Loose /\ stage = "begin" /\ book = <<>> /\ clocked = {}
  /\ division = <<>> /\ seed = <<>> /\ offer = <<>> /\ left = {} /\ kept = <<>> /\ first = <<>>

(* The engines know no breaks: they see the hours of a driver as a clock    *)
(* that stops (fleet_working_clock.py), and each stop by its domain there.  *)
Clocked(fleet) ==
  LET Works(t, order) ==
        order = <<>> \/ /\ MembershipCompatible(fleet, t, order)
                        /\ WorkingSchedule(Problem(fleet, t), order) # NoSchedule
      works == [t \in Trucks(fleet) |-> {o \in OrdersWithin(Jobs(fleet)) : Works(t, o)}]
  IN {p \in [Trucks(fleet) -> OrdersWithin(Jobs(fleet))] :
        /\ \A t \in DOMAIN p : p[t] \in works[t]
        /\ Cardinality(Aboard(p)) = Served(p)}

(* The addresses are verified, the work limits and the matrix are read;     *)
(* nothing is left when every customer is beyond the sea.                   *)
Begin ==
  /\ stage = "begin"
  /\ IF Reachable = <<>>
     THEN /\ stage' = "answered" /\ kept' = [offer |-> <<>>, left |-> {}]
          /\ UNCHANGED <<book, clocked>>
     ELSE /\ stage' = "divide" /\ book' = Book(Tightened(Requested, pass))
          /\ clocked' = Clocked(Tightened(Requested, pass)) /\ UNCHANGED kept
  /\ UNCHANGED <<asked, pass, division, seed, offer, left, first>>

-----------------------------------------------------------------------------
(* The division.                                                            *)

Members(t) == LeftOver([i \in DOMAIN Chosen |-> i], {i \in DOMAIN Chosen : Chosen[i] # t})

(* A delivery for a vehicle that does not exist is refused; a long route is *)
(* put in some order, which must be possible.                               *)
Assign ==
  /\ stage = "divide" /\ Manual
  /\ division' \in {p \in [Trucks(book.fleet) -> OrdersWithin(Jobs(book.fleet))] : \A t \in DOMAIN p :
                  IF Len(Members(t)) > RefineStops THEN Range(p[t]) = Range(Members(t)) ELSE p[t] = Members(t)}
  /\ left' = {i \in DOMAIN Chosen : Chosen[i] = 0}
  /\ stage' = IF \/ \E i \in DOMAIN Chosen : Chosen[i] \notin {0} \cup Trucks(book.fleet)
                 \/ \E t \in DOMAIN division' : Len(division'[t]) > RefineStops /\ book.scores[t][division'[t]] = NoScore
              THEN "refused" ELSE "refine"
  /\ UNCHANGED <<asked, pass, book, clocked, seed, offer, kept, first>>

(* What FleetSearch may find.                                               *)
FoundUnder(strategy) ==
  LET floor == BestPlan(book, strategy, Constructions(book))
  IN {p \in book.plans : ~Better(book, strategy, floor, p)}

Search ==
  /\ stage = "divide" /\ ~Manual
  /\ stage' = IF Strategy = "efficient" THEN "distance" ELSE "recover"
  /\ division' \in FoundUnder(Strategy)
  /\ UNCHANGED <<asked, pass, book, clocked, seed, offer, left, kept, first>>

(* The same search by distance alone; the better plan stays.                *)
SearchDistance ==
  /\ stage = "distance" /\ stage' = "recover"
  /\ \E other \in FoundUnder("distance") : division' = BetterOf(book, Strategy, other, division)
  /\ UNCHANGED <<asked, pass, book, clocked, seed, offer, left, kept, first>>

Serviceable ==
  {i \in Jobs(book.fleet) : \E t \in Trucks(book.fleet) : MembershipCompatible(book.fleet, t, <<i>>)}

(* Nothing that fits a vehicle is left out, or the plan is proven the best. *)
SkipRecovery ==
  /\ stage = "recover" /\ stage' = "refine"
  /\ UNCHANGED <<asked, pass, book, clocked, division, seed, offer, left, kept, first>>

(* Otherwise the other strategy is searched; what is shorter is repaired.   *)
SearchAlternate ==
  /\ stage = "recover" /\ Served(division) < Cardinality(Serviceable)
  /\ \E other \in FoundUnder(IF Strategy = "efficient" THEN "balanced" ELSE "efficient") :
       /\ division' = BetterOf(book, Strategy, other, division)
       /\ seed' = BetterOf(book, "efficient", other, division)
  /\ stage' = IF Served(division') < Cardinality(Serviceable) THEN "repair" ELSE "refine"
  /\ UNCHANGED <<asked, pass, book, clocked, offer, left, kept, first>>

(* The deliveries with an instant to be served at, on some vehicle.         *)
Possible ==
  {i \in Serviceable : \E t \in Trucks(book.fleet) :
     MembershipCompatible(book.fleet, t, <<i>>) /\ ServiceDomain(Problem(book.fleet, t), i) # {}}

(* A delivery that is left out goes on a vehicle together with one of       *)
(* another vehicle, and one of its own goes there.                          *)
PairExchanges(routes) ==
  {p \in book.plans :
     /\ Served(p) = Served(routes) + 1 /\ Aboard(routes) \subseteq Aboard(p)
     /\ \E t, u \in DOMAIN routes :
          /\ t # u /\ \A v \in DOMAIN routes \ {t, u} : p[v] = routes[v]
          /\ Cardinality(Range(p[u]) \ Range(routes[u])) = 1
          /\ Cardinality(Range(routes[u]) \ Range(p[u])) = 1}

PairExchangeRepair ==
  /\ stage = "repair" /\ Served(seed) < Cardinality(Possible)
  /\ \E p \in PairExchanges(seed) : seed' = BetterOf(book, Strategy, p, seed)
  /\ UNCHANGED <<asked, pass, stage, book, clocked, division, offer, left, kept, first>>

(* The solver proposes only a division of all that is possible; it is       *)
(* evaluated again with the calendar.                                       *)
SolveFleetMilp ==
  /\ stage = "repair" /\ Served(seed) < Cardinality(Possible)
  /\ \E p \in clocked :
       /\ Aboard(p) = Possible
       /\ seed' = IF ValidPlan(book.scores, p) THEN BetterOf(book, Strategy, p, seed) ELSE seed
  /\ UNCHANGED <<asked, pass, stage, book, clocked, division, offer, left, kept, first>>

EndRecovery ==
  /\ stage = "repair" /\ stage' = "refine"
  /\ division' = BetterOf(book, Strategy, seed, division)
  /\ UNCHANGED <<asked, pass, book, clocked, seed, offer, left, kept, first>>

-----------------------------------------------------------------------------
(* The last pass and the engines.                                           *)

(* A group of the operator that cannot be worked in any order is refused.   *)
RefineAll ==
  /\ stage = "refine"
  /\ division' = RefineRoutes(Strategy, book.fleet, book.scores, division)
  /\ stage' = IF \E t \in DOMAIN division' : division'[t] # <<>> /\ book.scores[t][division'[t]] = NoScore THEN "refused"
              ELSE IF Manual THEN "time" ELSE "engines"
  /\ UNCHANGED <<asked, pass, book, clocked, seed, offer, left, kept, first>>

(* OR-Tools or PyVRP, which may also fail: a proposal is evaluated with the *)
(* calendar, refined, and taken if it is better.                            *)
Improve(proposal) ==
  /\ stage = "engines" /\ proposal \in clocked
  /\ LET refined == RefineRoutes(Strategy, book.fleet, book.scores, proposal)
     IN division' = IF ValidPlan(book.scores, proposal) THEN BetterOf(book, Strategy, refined, division) ELSE division
  /\ UNCHANGED <<asked, pass, stage, book, clocked, seed, offer, left, kept, first>>

EndEngines ==
  /\ stage = "engines" /\ stage' = "time"
  /\ left' = Jobs(book.fleet) \ Aboard(division)
  /\ UNCHANGED <<asked, pass, book, clocked, division, seed, offer, kept, first>>

-----------------------------------------------------------------------------
(* The times and the traffic.                                               *)

Final == Restored(Requested, pass)

Stands(t, route) == Evaluate(At(Problem(Final, t), route.leave), route.order) # NoScore

Timed(p, order) ==
  [order |-> order, leave |-> IF Evaluate(p, order) = NoScore THEN p.leave ELSE LaterDeparture(p, order, TRUE),
   factor |-> 1, late |-> 0, lateness |-> 0, worst |-> 0, overtime |-> 0, updated |-> FALSE]

Standing(routes) == [t \in {u \in DOMAIN routes : Stands(u, routes[u])} |-> routes[t]]

(* The true windows again, and the departure that avoids the waits; a route *)
(* without an evaluation is not shown.                                      *)
TimeAll ==
  /\ stage = "time" /\ stage' = "traffic"
  /\ offer' = Standing([t \in {u \in DOMAIN division : division[u] # <<>>} |->
                         Timed(Problem(Final, t), division[t])])
  /\ UNCHANGED <<asked, pass, book, clocked, division, seed, left, kept, first>>

(* A route with the traffic; without a provider it stays as it is.          *)
Retimed(p, route, timed) ==
  LET Late(i) == EvaluateFixedSequence([p EXCEPT !.back = FALSE], SubSeq(route.order, 1, i), FALSE).late
  IN [route EXCEPT !.updated = TRUE, !.late = timed.broken, !.lateness = timed.late,
        !.worst = Greatest({Late(i) - Late(i - 1) : i \in DOMAIN route.order}),
        !.overtime = IF p.shift = <<>> THEN 0 ELSE Greater(0, route.leave + timed.minutes - p.shift[2])]

Slowed(t, route, rate) == At(Problem([Requested EXCEPT !.min = Slower(@, rate)], t), route.leave)

PreviewTraffic(t, route, rate) ==
  IF rate = 0 THEN route
  ELSE Retimed(Slowed(t, route, rate), route,
               EvaluateFixedSequence(Slowed(t, route, rate), route.order, FALSE))

Troubled(route) == route.late > 0 \/ route.overtime > 0

Delay(routes) ==
  LET Sum(field) == Total([t \in DOMAIN routes |-> routes[t][field]])
  IN <<Sum("late") + Cardinality({t \in DOMAIN routes : routes[t].overtime > 0}), Sum("lateness") + Sum("overtime")>>

(* How much longer the roads are than they were thought, rounded up.        *)
TravelFactor(rate) ==
  IF rate <= pass.rate THEN 1 ELSE Smaller(3, (rate + pass.rate - 1) \div pass.rate)

(* The best order with the roads so slow, from the same departure.          *)
ReorderedFor(t, route, factor) ==
  LET p == At(Problem([Final EXCEPT !.min = Slower(@, factor)], t), route.leave)
      key == [o \in OrdersOf(Range(route.order)) |-> SolutionKey(EvaluateFixedSequence(p, o, FALSE))]
  IN {o \in DOMAIN key : Len(o) > RefineStops \/ \A q \in DOMAIN key : ~Before(key[q], key[o])}

LessLate(new, known) == IF new.updated /\ Before(Delay(<<new>>), Delay(<<known>>)) THEN new ELSE known

AnotherOrder(t, route, known, again) ==
  {IF o = route.order \/ ~Stands(t, [route EXCEPT !.order = o]) THEN known
   ELSE LessLate(PreviewTraffic(t, [known EXCEPT !.order = o, !.updated = FALSE], again), known) :
     o \in ReorderedFor(t, route, known.factor)}

(* Late with the traffic: another order, shown if it is less late.          *)
SecondPass(t, route, timed, factor, again) ==
  IF ~timed.updated \/ ~Troubled(timed) \/ factor = 1 THEN {timed}
  ELSE AnotherOrder(t, route, [timed EXCEPT !.factor = factor], again)

OneOfEach(shown) ==
  {r \in [DOMAIN shown -> UNION Range(shown)] : \A t \in DOMAIN shown : r[t] \in shown[t]}

TrafficAll ==
  /\ stage = "traffic" /\ stage' = "judge"
  /\ \E rate \in [DOMAIN offer -> Rates], again \in Rates :
       offer' \in OneOfEach([t \in DOMAIN offer |->
         SecondPass(t, offer[t], PreviewTraffic(t, offer[t], rate[t]), TravelFactor(rate[t]), again)])
  /\ UNCHANGED <<asked, pass, book, clocked, division, seed, left, kept, first>>

-----------------------------------------------------------------------------
(* Whether to divide again.                                                 *)

ReplanBuffer(routes) ==
  LET worst == Greatest({0} \cup {routes[t].worst : t \in DOMAIN routes})
  IN IF \A t \in DOMAIN routes : routes[t].late = 0 THEN 0 ELSE Smaller(WidestMargin, Greater(Margin, worst))

ShiftBuffer(routes) ==
  LET extra == Greatest({0} \cup {routes[t].overtime : t \in DOMAIN routes})
  IN IF extra = 0 THEN 0 ELSE Smaller(WidestMargin, extra + Margin)

OnTime(routes) == \A t \in DOMAIN routes : ~Troubled(routes[t])

(* What the second pass of the late routes took the roads for.              *)
MostFactor(routes) ==
  Greatest({1} \cup {routes[t].factor : t \in {u \in DOMAIN routes : Troubled(routes[u])}})

This == [offer |-> offer, left |-> left]

OrdersOfOffer(routes) == [t \in DOMAIN routes |-> routes[t].order]

(* The first attempt: if it is late, the division is made again with the    *)
(* true windows first.  What the operator has assigned is not.              *)
JudgeFirst ==
  /\ stage = "judge" /\ first = <<>>
  /\ kept' = This /\ first' = This
  /\ IF Manual \/ OnTime(offer) THEN stage' = "answered" /\ UNCHANGED pass
     ELSE /\ stage' = "begin"
          /\ pass' = [rate |-> MostFactor(offer), buffer |-> 0, shift |-> ShiftBuffer(offer)]
  /\ UNCHANGED <<asked, book, clocked, division, seed, offer, left>>

(* Mutant: the new division is taken when it is less late, whatever it      *)
(* serves.                                                                  *)
ImprovedAnyhow(now, before) == Before(Delay(now.offer), Delay(before.offer))

(* Fewer delays count before the distance, and the served before both.      *)
Improved(now, before) ==
  /\ DOMAIN now.offer # {} /\ \A t \in DOMAIN now.offer : now.offer[t].updated
  /\ Served(OrdersOfOffer(now.offer)) >= Served(OrdersOfOffer(before.offer))
  /\ Before(Delay(now.offer), Delay(before.offer))

(* Then with windows that close earlier, if that is not enough.             *)
JudgeAgain ==
  /\ stage = "judge" /\ first # <<>>
  /\ kept' = IF Improved(This, kept) THEN This ELSE kept
  /\ LET next == ReplanBuffer(first.offer)
     IN IF OnTime(kept'.offer) \/ pass.buffer = next
        THEN stage' = "answered" /\ UNCHANGED pass
        ELSE stage' = "begin" /\ pass' = [pass EXCEPT !.buffer = next]
  /\ UNCHANGED <<asked, book, clocked, division, seed, offer, left, first>>

ProposalNext ==
  \/ Begin \/ Assign \/ Search \/ SearchDistance \/ SkipRecovery \/ SearchAlternate
  \/ PairExchangeRepair \/ SolveFleetMilp \/ EndRecovery \/ RefineAll \/ EndEngines
  \/ stage = "engines" /\ \E proposal \in clocked : Improve(proposal)
  \/ TimeAll \/ TrafficAll \/ JudgeFirst \/ JudgeAgain

-----------------------------------------------------------------------------

(* The answer in the numbers of the request, with those beyond the sea.     *)
LeftOut == {Reachable[i] : i \in kept.left} \cup asked.ferry

(* Mutant: the numbers within the searched deliveries are not translated. *)
StopIndexesOfSearch(t) == kept.offer[t].order

StopIndexes(t) == [i \in DOMAIN kept.offer[t].order |-> Reachable[kept.offer[t].order[i]]]

(* Every delivery of the request is in one route, once, or among the        *)
(* unassigned, never in both: neither the search with narrower windows, nor *)
(* the engines, nor a new order make one disappear.  A delivery the         *)
(* operator has assigned is on the vehicle it was assigned to.              *)
EveryStopIsAnsweredFor ==
  stage = "answered" =>
    LET shown == [t \in DOMAIN kept.offer |-> StopIndexes(t)]
    IN /\ Cardinality(Aboard(shown)) = Served(shown)
       /\ Aboard(shown) \cap LeftOut = {}
       /\ Aboard(shown) \cup LeftOut = Jobs(Fleets[asked.fleet])
       /\ Manual => \A t \in DOMAIN shown : \A job \in Range(shown[t]) : asked.assignments[job] = t

(* A route that was ordered again after the traffic is compared with the    *)
(* time that was left from the first departure, not from its own: it may    *)
(* run into the next booking.                                               *)
OrderedAgain(t) == offer[t].order # division[t]

EndsBeforeBookings(t, minutes) ==
  \A b \in Requested.trucks[t].booked :
    ~(ResourceStart(Requested, t) < b.close /\ b.open < offer[t].leave + minutes)

MinutesOf(t) == EvaluateFixedSequence(At(Problem(Final, t), offer[t].leave), offer[t].order, TRUE).minutes

(* A route that is proposed can be worked from its departure, with the true *)
(* windows and the true shift, before the next booking; and the engines may *)
(* propose exactly what the calendar accepts, although they see the day     *)
(* without its breaks.                                                      *)
OfferCanBeWorked ==
  /\ stage \in {"traffic", "judge"} =>
       \A t \in DOMAIN offer :
         /\ offer[t].leave >= ResourceStart(Requested, t)
         /\ MembershipCompatible(Requested, t, offer[t].order) /\ Stands(t, offer[t])
         /\ OrderedAgain(t) \/ EndsBeforeBookings(t, MinutesOf(t))
  /\ book # <<>> => clocked = book.plans

(* What docs/fleet-adaptive-upgrade.md:30-32 says of every itinerary that   *)
(* is accepted: it is over before the other routes of its driver and of its *)
(* vehicle.                                                                 *)
OffersEndBeforeBookings ==
  stage = "judge" => \A t \in DOMAIN offer : EndsBeforeBookings(t, MinutesOf(t))

(* Dividing again never serves fewer deliveries nor makes them later.       *)
ReplanIsNoWorse ==
  stage = "answered" /\ first # <<>> =>
    /\ Served(OrdersOfOffer(kept.offer)) >= Served(OrdersOfOffer(first.offer))
    /\ ~Before(Delay(first.offer), Delay(kept.offer))

=============================================================================
