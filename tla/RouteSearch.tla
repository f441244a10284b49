----------------------------- MODULE RouteSearch -----------------------------
(* The order of the stops of one route (app/optimizer.py,                   *)
(* app/services/optimizer_search.py).  A short route is searched            *)
(* exhaustively.  A longer one keeps a floor, what the older search finds,  *)
(* and looks for better orders under a budget of evaluations; an external   *)
(* engine may propose one more; the departure is then moved later.          *)
(*                                                                          *)
(* The evaluation of every order is computed once, in "ranks"; which of the *)
(* neighbours is tried next, and when a local search stops, is left open.   *)
EXTENDS RouteClock

CONSTANTS
  Tasks,             (* The problems a user may ask, records of RouteClock.  *)
  Margins,           (* How much earlier the windows close while searching.  *)
  ExactStops,        (* The stops up to which the search is exhaustive: 8.   *)
  Candidates,        (* The budget of evaluations of the longer search.      *)
  Rounds             (* The rounds of one descent: 3 in the code.            *)

ASSUME TasksAssumption ==
  /\ \A p \in Tasks : IsProblem(p)
  /\ Margins \subseteq Nat /\ Candidates \in Nat

VARIABLES
  task,              (* The problem, with the true windows.                  *)
  margin,            (* The margin of this search.                           *)
  ranks,             (* The key of every order, under the searched windows.  *)
  tour               (* The search: a record.                                *)

routeVars == <<task, margin, ranks, tour>>

Visits(p) == 1 .. Len(p.stops)

Operator(p) == [i \in Visits(p) |-> i]

(* A window closes earlier, with room for the unloading; one that has no    *)
(* room already stays.                                                      *)
Buffered(p, minutes) ==
  LET Early(stop, w) ==
        [w EXCEPT !.close = Smaller(@, Greater(@ - minutes, w.open + stop.service))]
      Narrow(stop) == [stop EXCEPT !.windows = {Early(stop, w) : w \in stop.windows}]
  IN [p EXCEPT !.stops = [i \in DOMAIN p.stops |-> Narrow(p.stops[i])]]

Sought == Buffered(task, margin)

Improves(a, b) == Before(ranks[a], ranks[b])

Best(a, b) == IF Improves(a, b) THEN a ELSE b

BestOf(orders) == CHOOSE o \in orders : \A q \in orders : ~Improves(q, o)

-----------------------------------------------------------------------------
(* The older search.                                                        *)

(* The next stop of the first order: feasible, then near, then soon.        *)
GreedySequence(p) ==
  LET Key(run, stop) ==
        LET ev == EvaluateCandidate(run.at + p.min[<<run.place, stop>>], p.stops[stop])
        IN <<(IF ev.feasible THEN 0 ELSE 1), p.km[<<run.place, stop>>], ev.start, stop>>
      Choose(run, left) == CHOOSE s \in left : \A q \in left : ~Before(Key(run, q), Key(run, s))
      Leave(run, stop) ==
        [at |-> EvaluateCandidate(run.at + p.min[<<run.place, stop>>], p.stops[stop]).start
                  + p.stops[stop].service, place |-> stop]
      grow[k \in 0 .. Len(p.stops)] ==
        IF k = 0 THEN [order |-> <<>>, run |-> [at |-> p.leave, place |-> 0]]
        ELSE LET last == grow[k - 1]
                 next == Choose(last.run, Visits(p) \ Range(last.order))
             IN [order |-> Append(last.order, next), run |-> Leave(last.run, next)]
  IN grow[Len(p.stops)].order

Swapped(o) == {[o EXCEPT ![i] = o[j], ![j] = o[i]] : i, j \in DOMAIN o}

Spans(o) == {ij \in (1 .. Len(o)) \X (1 .. Len(o)) : ij[1] <= ij[2]}

Reversed(o) ==
  {SubSeq(o, 1, ij[1] - 1) \o Reverse(SubSeq(o, ij[1], ij[2])) \o SubSeq(o, ij[2] + 1, Len(o)) :
     ij \in Spans(o)}

(* A block of stops at another place.                                       *)
Relocated(o) ==
  UNION {LET rest == SubSeq(o, 1, ij[1] - 1) \o SubSeq(o, ij[2] + 1, Len(o))
         IN {SubSeq(rest, 1, k) \o SubSeq(o, ij[1], ij[2]) \o SubSeq(rest, k + 1, Len(rest)) :
               k \in 0 .. Len(rest)} : ij \in Spans(o)}

Moves(o) == (Swapped(o) \cup Reversed(o) \cup Relocated(o)) \ {o}

(* The earliest end of each set of stops with its last stop, by the drives  *)
(* alone: a witness for each last stop, or none.                            *)
FallbackOrders(p) ==
  LET Extend(from, stop) ==
        LET ev == EarliestFeasibleCandidate(from.at + p.min[<<from.place, stop>>], p.stops[stop])
        IN IF ev.feasible THEN {[at |-> ev.start + p.stops[stop].service, place |-> stop,
                                 order |-> Append(from.order, stop)]} ELSE {}
      Soonest(found) == IF found = {} THEN {} ELSE
                        {CHOOSE f \in found : \A g \in found : f.at <= g.at}
      reach[s \in SUBSET Visits(p)] ==
        [last \in s |->
           IF s = {last} THEN Extend([at |-> p.leave, place |-> 0, order |-> <<>>], last)
           ELSE Soonest(UNION {Extend(f, last) : f \in UNION {reach[s \ {last}][q] : q \in s \ {last}}})]
  IN {f.order : f \in UNION {reach[Visits(p)][last] : last \in Visits(p)}}

Feasible(o) == ranks[o][1] = 0

(* Only when the search found no feasible order.                            *)
FeasibleFallback(o) ==
  IF Feasible(o) THEN o ELSE BestOf({o} \cup FallbackOrders(Sought))

-----------------------------------------------------------------------------

RouteSearchInit ==
  /\ task \in Tasks
  /\ margin \in Margins
  /\ ranks = [o \in OrdersOf(Visits(task)) |->
                SolutionKey(EvaluateFixedSequence(Buffered(task, margin), o, FALSE))]
  /\ tour = [phase |-> "asked", order |-> Operator(task), floor |-> <<>>, leave |-> task.leave,
             current |-> <<>>, start |-> <<>>, seeds |-> <<>>, turn |-> 0, round |-> 0,
             used |-> 0, until |-> 0]

Long == Len(task.stops) > ExactStops

(* Every order of a short route is evaluated.                               *)
SearchAll ==
  /\ tour.phase = "asked" /\ ~Long
  /\ LET best == FeasibleFallback(BestOf(DOMAIN ranks))
     IN tour' = [tour EXCEPT !.phase = "found", !.order = best, !.floor = best]
  /\ UNCHANGED <<task, margin, ranks>>

Climb ==
  /\ tour.phase = "asked" /\ Long
  /\ LET greedy == GreedySequence(Sought)
     IN tour' = [tour EXCEPT !.phase = "climbing", !.order = greedy, !.current = greedy]
  /\ UNCHANGED <<task, margin, ranks>>

(* A swap, a reversal or a relocation is kept if it is better.              *)
ClimbTo(o) ==
  /\ tour.phase = "climbing" /\ o \in Moves(tour.current) /\ Improves(o, tour.current)
  /\ tour' = [tour EXCEPT !.current = o]
  /\ UNCHANGED <<task, margin, ranks>>

(* The older search again, from the order of the user or a reversed one.    *)
ClimbAgain(o) ==
  /\ tour.phase = "climbing" /\ o \in {Operator(task), Reverse(GreedySequence(Sought))}
  /\ tour' = [tour EXCEPT !.order = Best(tour.current, tour.order), !.current = o]
  /\ UNCHANGED <<task, margin, ranks>>

(* Mutant: the order of the user is not compared. *)
FixFloorUnasked ==
  /\ tour.phase = "climbing"
  /\ LET floor == FeasibleFallback(Best(tour.current, tour.order))
     IN tour' = [tour EXCEPT !.phase = "seeding", !.order = floor, !.floor = floor]
  /\ UNCHANGED <<task, margin, ranks>>

(* The floor: never worse than the order of the user.                       *)
FixFloor ==
  /\ tour.phase = "climbing"
  /\ LET floor == FeasibleFallback(Best(Operator(task), Best(tour.current, tour.order)))
     IN tour' = [tour EXCEPT !.phase = "seeding", !.order = floor, !.floor = floor]
  /\ UNCHANGED <<task, margin, ranks>>

-----------------------------------------------------------------------------
(* The budgeted search.                                                     *)

(* The partial schedules of a seed by windows are paid for too.             *)
SeedCosts(n) == {1} \cup {c \in {(n * (n + 1)) \div 2 + 1} : c <= (Candidates - tour.used) \div 2}

(* CandidateBudget: an evaluation is refused once the budget is used.       *)
Affords(cost) == tour.used + cost <= Candidates

(* Whatever a construction makes by itself, the nearest stop or the         *)
(* cheapest insertion first: an order of all the stops.                     *)
SeedOrders == DOMAIN ranks

(* A seed is an order that no other seed was.                               *)
AddSeed(o) ==
  /\ tour.phase = "seeding" /\ o \in SeedOrders \ Range(tour.seeds)
  /\ \E cost \in SeedCosts(Len(o)) :
       /\ Affords(cost)
       /\ tour' = [tour EXCEPT !.seeds = Append(@, o), !.used = @ + cost, !.order = Best(o, @)]
  /\ UNCHANGED <<task, margin, ranks>>

(* Each seed has its share of what is left.                                 *)
Share(turn) == tour.used + (Candidates - tour.used) \div (Len(tour.seeds) - turn + 1)

TakeSeed(turn) ==
  [tour EXCEPT !.phase = "descending", !.turn = turn, !.round = 1, !.start = tour.seeds[turn],
               !.current = tour.seeds[turn], !.until = Share(turn)]

Settle(o) ==
  [tour EXCEPT !.phase = "found", !.order = IF Improves(o, tour.floor) THEN o ELSE tour.floor]

Descend ==
  /\ tour.phase = "seeding"
  /\ tour' = IF tour.seeds = <<>> THEN Settle(tour.order) ELSE TakeSeed(1)
  /\ UNCHANGED <<task, margin, ranks>>

(* The moves of a round leave from its first order; the best is kept.       *)
TryMove(o) ==
  /\ tour.phase = "descending" /\ o \in Moves(tour.start)
  /\ tour.used < tour.until
  /\ tour' = [tour EXCEPT !.used = @ + 1, !.current = Best(o, @)]
  /\ UNCHANGED <<task, margin, ranks>>

EndRound ==
  /\ tour.phase = "descending"
  /\ Improves(tour.current, tour.start) /\ tour.round < Rounds
  /\ tour' = [tour EXCEPT !.start = tour.current, !.round = @ + 1]
  /\ UNCHANGED <<task, margin, ranks>>

EndSeed ==
  /\ tour.phase = "descending"
  /\ LET best == Best(tour.current, tour.order)
     IN tour' = IF tour.turn < Len(tour.seeds)
                THEN [TakeSeed(tour.turn + 1) EXCEPT !.order = best] ELSE Settle(best)
  /\ UNCHANGED <<task, margin, ranks>>

-----------------------------------------------------------------------------

(* An external engine proposes an order, of all the stops or not; a short   *)
(* route does not ask it.                                                   *)
OrtoolsSingle(o) ==
  /\ tour.phase = "found"
  /\ tour' = [tour EXCEPT !.phase = "ordered",
                          !.order = IF Long /\ o \in DOMAIN ranks THEN Best(o, @) ELSE @]
  /\ UNCHANGED <<task, margin, ranks>>

(* The departure, on the true windows.                                      *)
Depart ==
  /\ tour.phase = "ordered"
  /\ tour' = [tour EXCEPT !.phase = "timed",
                          !.leave = IF task.movable THEN LaterDeparture(task, tour.order, FALSE) ELSE @]
  /\ UNCHANGED <<task, margin, ranks>>

RouteSearchNext ==
  \/ SearchAll \/ Climb \/ FixFloor \/ Descend \/ EndRound \/ EndSeed \/ Depart
  \/ \E o \in DOMAIN ranks :
       ClimbTo(o) \/ ClimbAgain(o) \/ AddSeed(o) \/ TryMove(o) \/ OrtoolsSingle(o)
  \/ OrtoolsSingle(<<>>)

-----------------------------------------------------------------------------

Found == tour.phase \in {"found", "ordered", "timed"}

(* A stop is neither lost nor repeated, whatever the seeds and the engine   *)
(* proposed.                                                                *)
EveryStopOnce == tour.order \in DOMAIN ranks

(* The proposed order is never worse than the floor, nor the floor than the *)
(* order the user wrote.                                                    *)
FloorIsKept ==
  Found => ~Improves(tour.floor, tour.order) /\ ~Improves(Operator(task), tour.floor)

BudgetIsKept == tour.used <= Candidates

(* A short route has the best order there is.                               *)
ShortIsBest == Found /\ ~Long => \A o \in DOMAIN ranks : ~Improves(o, tour.order)

(* Without breaks, a feasible order is found if there is one.               *)
FeasibleIsFound ==
  Found /\ task.breaks = <<>> /\ (\E o \in DOMAIN ranks : Feasible(o)) => Feasible(tour.order)

(* A search keeps every stop, is never worse than the order of the user     *)
(* and than the older search, and stays within its budget, whichever seeds, *)
(* moves and engine orders come in whichever order.                         *)
RouteIsSearched ==
  EveryStopOnce /\ FloorIsKept /\ BudgetIsKept /\ ShortIsBest /\ FeasibleIsFound

(* The hours a route was compared by are the hours its driver works: the    *)
(* departure it is proposed with breaks no window and keeps the return.     *)
WorkIsWorked ==
  task.movable =>
    LET asked == EvaluateFixedSequence(task, tour.order, FALSE)
        moved == EvaluateFixedSequence(At(task, tour.leave), tour.order, FALSE)
    IN asked.violations = 0 =>
         /\ moved.violations = 0 /\ moved.minutes = asked.work
         /\ tour.leave + moved.minutes <= task.leave + asked.minutes

(* The starts of an unloading that the engines may use are the instants at  *)
(* which it is not interrupted and keeps a window.                          *)
DomainIsExact ==
  LET Kept(stop, t) ==
        /\ ServiceReady(t, stop.service, task.breaks) = t /\ t + stop.service <= Horizon(task)
        /\ stop.windows = {} \/ \E w \in stop.windows : w.open <= t /\ t + stop.service <= w.close
  IN \A i \in Visits(task) :
       ServiceDomain(task, i) =
         IF task.shift # <<>> /\ task.leave < task.shift[1] THEN {}
         ELSE {WorkingClock(t, task.breaks, task.leave) :
                 t \in {x \in task.leave .. Horizon(task) : Kept(task.stops[i], x)}}

(* Without shift and breaks the score alone is the canonical evaluation.    *)
ScoresAgree ==
  LET plain == [task EXCEPT !.shift = <<>>, !.breaks = <<>>]
  IN RouteEvaluator(plain, tour.order) = EvaluateFixedSequence(plain, tour.order, FALSE)

(* The compiled evaluation and the working clock of the engines accept the  *)
(* same orders as the canonical evaluation, and end them at the same time.  *)
ClocksAgree ==
  LET canonical == Evaluate(task, tour.order)
      engine == WorkingSchedule(task, tour.order)
  IN /\ FixedRouteEvaluator(task, tour.order) = canonical
     /\ (engine = NoSchedule) <=> (canonical = NoScore)
     /\ canonical # NoScore =>
          engine = WorkingClock(task.leave + canonical.minutes, task.breaks, task.leave)

(* Every clock of the planner tells the same hours, and they are the hours  *)
(* the driver works: a route that one evaluation accepts is not impossible, *)
(* or of another length, for the next one.                                  *)
HoursAreWorked == tour.phase = "timed" => WorkIsWorked /\ DomainIsExact /\ ClocksAgree /\ ScoresAgree

=============================================================================
