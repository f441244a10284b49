----------------------------- MODULE RouteClock -----------------------------
(* The arithmetic of one route: a driver who leaves the depot, drives,      *)
(* waits for a customer to open, unloads, takes the fixed breaks of the     *)
(* shift and comes back (app/services/driver_schedule.py, app/optimizer.py, *)
(* app/services/fleet_working_clock.py, fleet_route_evaluator.py).          *)
(*                                                                          *)
(* Times are whole numbers of half steps of the data: every time of a       *)
(* problem is even, and the odd numbers stand for the margin (1e-7 of a     *)
(* minute) that keeps an unloading without duration out of a break.         *)
(*                                                                          *)
(* A problem is a record: "stops", the windows and the unloading time of    *)
(* each stop; "km" and "min", the road from a place to another (0 is the    *)
(* depot); "back", whether the route returns; "leave", the departure;       *)
(* "shift", empty or the start and the end; "breaks", in their order;       *)
(* "limit", the time before the next booking; "movable", whether the        *)
(* departure may move.                                                      *)
EXTENDS Integers, Sequences, FiniteSets, SequencesExt, FiniteSetsExt, Functions

CONSTANTS
  Grid,              (* The grid of later departures: 5 minutes in the code. *)
  DayEnd             (* Midnight.                                            *)

ASSUME GridAssumption == Grid \in Nat \ {0} /\ Grid % 2 = 0 /\ DayEnd \in Nat

(* What a problem is made of: a stop may be without windows, a driver       *)
(* without shift.                                                           *)
WindowSet == [open : Nat, close : Nat]

IsStop(s) ==
  /\ {"windows", "service"} \subseteq DOMAIN s
  /\ s.windows \in SUBSET WindowSet /\ IsFiniteSet(s.windows) /\ s.service \in Nat

Legs(n) == (0 .. n) \X (0 .. n)

Fields == {"stops", "km", "min", "back", "leave", "shift", "breaks", "limit", "movable"}

IsProblem(p) ==
  /\ DOMAIN p = Fields
  /\ Len(p.stops) \in Nat /\ DOMAIN p.stops = 1 .. Len(p.stops)
  /\ \A i \in DOMAIN p.stops : IsStop(p.stops[i])
  /\ p.km \in [Legs(Len(p.stops)) -> Nat] /\ p.min \in [Legs(Len(p.stops)) -> Nat]
  /\ p.leave \in Nat /\ p.breaks \in Seq(WindowSet)
  /\ p.shift \in {<<>>} \cup (Nat \X Nat)

Greater(a, b) == IF a < b THEN b ELSE a
Smaller(a, b) == IF a < b THEN a ELSE b

Least(s) == CHOOSE x \in s : \A y \in s : x <= y
Greatest(s) == CHOOSE x \in s : \A y \in s : x >= y

-----------------------------------------------------------------------------
(* Breaks.                                                                  *)

Drive(trip, pause) ==
  IF trip.done \/ pause.close <= trip.at THEN trip
  ELSE IF trip.at + trip.left <= pause.open THEN [trip EXCEPT !.done = TRUE]
  ELSE [at |-> Greater(trip.at, pause.close),
        left |-> trip.left - Greater(0, pause.open - trip.at), done |-> FALSE]

(* When a drive of this duration ends: it stops at a break and goes on.     *)
TravelEnd(start, duration, breaks) ==
  LET trip == FoldLeft(Drive, [at |-> start, left |-> duration, done |-> FALSE], breaks)
  IN trip.at + trip.left

Hits(at, duration, pause) ==
  at < pause.close /\ (at >= pause.open \/ at + duration > pause.open)

(* Mutant: an unloading that begins before a break is not moved. *)
ServiceReadyCut(start, duration, breaks) ==
  FoldLeft(LAMBDA at, pause : IF at < pause.close /\ at >= pause.open THEN pause.close ELSE at,
           start, breaks)

(* An unloading is not interrupted: it waits for the end of the break.      *)
ServiceReady(start, duration, breaks) ==
  FoldLeft(LAMBDA at, pause : IF Hits(at, duration, pause) THEN pause.close ELSE at,
           start, breaks)

DriveBack(pause, trip) ==
  IF trip.done \/ trip.at <= pause.open THEN trip
  ELSE IF trip.at < pause.close THEN [trip EXCEPT !.at = pause.open]
  ELSE IF trip.left <= trip.at - pause.close THEN [trip EXCEPT !.done = TRUE]
  ELSE [at |-> pause.open, left |-> trip.left - (trip.at - pause.close), done |-> FALSE]

LatestTravelStart(deadline, duration, breaks) ==
  LET trip == FoldRight(DriveBack, breaks, [at |-> deadline, left |-> duration, done |-> FALSE])
  IN trip.at - trip.left

LatestServiceStart(deadline, duration, breaks) ==
  FoldRight(LAMBDA pause, at :
              IF Hits(at, duration, pause)
              THEN pause.open - duration - (IF duration = 0 THEN 1 ELSE 0) ELSE at,
            breaks, deadline - duration)

(* The time worked until an instant: the breaks are taken out of the clock. *)
Elapsed(clock, breaks) ==
  clock - FoldLeft(LAMBDA sum, pause :
                     IF clock > pause.open
                     THEN sum + Greater(0, Smaller(clock, pause.close) - pause.open)
                     ELSE sum, 0, breaks)

WorkingClock(clock, breaks, start) == Elapsed(clock, breaks) - Elapsed(start, breaks)

OutsideShift(p, start, end) == p.shift # <<>> /\ (start < p.shift[1] \/ end > p.shift[2])

-----------------------------------------------------------------------------
(* One stop.                                                                *)

Fits(at, service, window) == Greater(at, window.open) + service <= window.close

(* A feasible window is compared by its start; an impossible one by the     *)
(* weight of its delay.                                                     *)
WindowKey(at, service, window) ==
  LET start == Greater(at, window.open)
      late == start + service - window.close
  IN IF Fits(at, service, window) THEN <<0, start, window.close>>
     ELSE <<1, (IF at < window.open THEN 100000 + 20 * late ELSE 80000 + 25 * late), window.close>>

Before(a, b) ==
  \E i \in 1 .. Len(a) : a[i] < b[i] /\ \A j \in 1 .. i - 1 : a[j] = b[j]

BestWindow(at, service, windows) ==
  CHOOSE w \in windows : \A v \in windows : ~Before(WindowKey(at, service, v), WindowKey(at, service, w))

Within(at, service, w) ==
  [feasible |-> Fits(at, service, w), start |-> Greater(at, w.open), close |-> w.close,
   warned |-> ~Fits(at, service, w) \/ at < w.open]

EvaluateCandidate(at, stop) ==
  IF stop.windows = {} THEN [feasible |-> TRUE, start |-> at, close |-> -1, warned |-> FALSE]
  ELSE IF \A w \in stop.windows : w.close < at
  THEN [feasible |-> FALSE, start |-> at, warned |-> TRUE, close |-> Greatest({w.close : w \in stop.windows})]
  ELSE Within(at, stop.service, BestWindow(at, stop.service, {w \in stop.windows : at <= w.close}))

EarliestFeasibleCandidate(at, stop) ==
  IF \E w \in stop.windows : Fits(at, stop.service, w)
  THEN Within(at, stop.service,
              BestWindow(at, stop.service, {w \in stop.windows : Fits(at, stop.service, w)}))
  ELSE EvaluateCandidate(at, stop)

Appoint(earliest, at, stop) ==
  IF earliest THEN EarliestFeasibleCandidate(at, stop) ELSE EvaluateCandidate(at, stop)

AppointAgain(earliest, ev, ready, stop) == IF ready = ev.start THEN ev ELSE Appoint(earliest, ready, stop)

(* The service after the breaks it would meet: it is asked again from the   *)
(* end of a break, at most once more than there are breaks.                 *)
Service(arrival, stop, breaks, earliest) ==
  FoldLeft(LAMBDA ev, k : AppointAgain(earliest, ev, ServiceReady(ev.start, stop.service, breaks), stop),
           Appoint(earliest, arrival, stop), [k \in 1 .. Len(breaks) + 1 |-> k])

(* A wait for an opening; a break alone is not one.                         *)
OpeningWait(wait, start, windows) == IF \E w \in windows : w.open = start THEN wait ELSE 0

-----------------------------------------------------------------------------
(* A later departure.                                                       *)

(* The deadline for leaving the place before a stop that must be left by    *)
(* "latest"; -1 if the stop has no window left.                             *)
LeaveBefore(p, from, stop, latest) ==
  LET s == p.stops[stop]
      starts == IF s.windows = {} THEN {LatestServiceStart(latest, s.service, p.breaks)}
                ELSE {LatestServiceStart(Smaller(latest, w.close), s.service, p.breaks) : w \in
                        {x \in s.windows : LatestServiceStart(Smaller(latest, x.close), s.service, p.breaks) >= x.open}}
  IN IF starts = {} THEN -1
     ELSE LatestTravelStart(Greatest(starts), p.min[<<from, stop>>], p.breaks)

Place(order, i) == IF i = 0 THEN 0 ELSE order[i]

(* The part of the opening waits that a later departure removes, on the     *)
(* grid: a pass backwards from the return.                                  *)
RealizableSlack(p, order, start, end, waits) ==
  LET n == Len(order)
      home == IF p.back THEN LatestTravelStart(end, p.min[<<order[n], 0>>], p.breaks) ELSE end
      leave[i \in 0 .. n] ==
        IF i = n THEN home
        ELSE IF leave[i + 1] < 0 THEN -1
        ELSE LeaveBefore(p, Place(order, i), order[i + 1], leave[i + 1])
      free == Smaller(waits, Greater(0, leave[0] - start))
  IN IF n = 0 \/ waits < Grid \/ ~p.movable \/ leave[0] < 0 THEN 0 ELSE (free \div Grid) * Grid

-----------------------------------------------------------------------------
(* A whole route.                                                           *)

Unloaded(p, run, stop, arrival, ev) ==
  LET s == p.stops[stop]
      wait == Greater(0, ev.start - arrival)
  IN [at |-> ev.start + s.service, place |-> stop, km |-> run.km + p.km[<<run.place, stop>>],
      wait |-> run.wait + wait, opening |-> run.opening + OpeningWait(wait, ev.start, s.windows),
      late |-> run.late + (IF ev.close < 0 THEN 0 ELSE Greater(0, ev.start + s.service - ev.close)),
      broken |-> run.broken + (IF ev.feasible THEN 0 ELSE 1),
      warned |-> run.warned + (IF ev.warned THEN 1 ELSE 0)]

Reached(p, earliest, run, stop, arrival) ==
  Unloaded(p, run, stop, arrival, Service(arrival, p.stops[stop], p.breaks, earliest))

Visit(p, earliest, run, stop) ==
  Reached(p, earliest, run, stop, TravelEnd(run.at, p.min[<<run.place, stop>>], p.breaks))

AtDepot(p) == [at |-> p.leave, place |-> 0, km |-> 0, wait |-> 0, opening |-> 0, late |-> 0,
               broken |-> 0, warned |-> 0]

(* The road back to the depot, of a route that returns.                     *)
Back(p, order, run) ==
  IF p.back /\ order # <<>>
  THEN [run EXCEPT !.at = TravelEnd(@, p.min[<<run.place, 0>>], p.breaks), !.km = @ + p.km[<<run.place, 0>>]]
  ELSE run

RouteCost(km, work) == 2 * km + work

Report(p, run, violations, slack) ==
  LET minutes == run.at - p.leave
  IN [km |-> run.km, minutes |-> minutes, wait |-> run.wait, late |-> run.late, warned |-> run.warned,
      violations |-> violations, broken |-> run.broken, slack |-> slack, work |-> minutes - slack,
      cost |-> RouteCost(run.km, minutes - slack)]

Judged(p, order, run, violations) ==
  Report(p, run, violations,
         IF violations > 0 THEN 0 ELSE RealizableSlack(p, order, p.leave, run.at, run.opening))

Returned(p, order, run) ==
  Judged(p, order, run, run.broken + (IF OutsideShift(p, p.leave, run.at) THEN 1 ELSE 0))

(* The canonical evaluation of an order: its distance, its duration, its    *)
(* violations and the time its driver works.                                *)
EvaluateFixedSequence(p, order, earliest) ==
  Returned(p, order,
           Back(p, order, FoldLeft(LAMBDA run, stop : Visit(p, earliest, run, stop), AtDepot(p), order)))

(* The evaluation of the longer search, for a driver without shift and      *)
(* breaks: the score alone, where every wait is for an opening.             *)
RouteEvaluator(p, order) ==
  LET Next(run, stop) ==
        LET arrival == run.at + p.min[<<run.place, stop>>]
        IN Unloaded(p, run, stop, arrival, EvaluateCandidate(arrival, p.stops[stop]))
      run == FoldLeft(Next, AtDepot(p), order)
      home == IF p.back /\ order # <<>>
              THEN [run EXCEPT !.at = @ + p.min[<<run.place, 0>>], !.km = @ + p.km[<<run.place, 0>>]]
              ELSE run
  IN Judged(p, order, [home EXCEPT !.opening = home.wait], home.broken)

(* Feasible first, then by cost; an impossible route by its delay.          *)
SolutionKey(r) ==
  IF r.violations > 0
  THEN <<1, r.late, r.violations,
         200000 * r.violations + 10 * r.minutes + 3 * (r.wait \div 2) + 50 * r.warned + 2 * r.km, 0, 0>>
  ELSE <<0, r.cost, r.km, r.minutes, r.wait, r.warned>>

At(p, start) == [p EXCEPT !.leave = start, !.movable = FALSE]

KeepsReturn(base, shift, moved) ==
  /\ moved.violations = 0 /\ moved.late = 0
  /\ shift + moved.minutes <= base.minutes
  /\ moved.minutes < base.minutes

(* The slack if the same order works from there, otherwise half of it, and  *)
(* so on.                                                                   *)
Later(p, order, earliest, base) ==
  LET try[shift \in 0 .. base.slack] ==
        IF shift < Grid THEN p.leave
        ELSE IF KeepsReturn(base, shift, EvaluateFixedSequence(At(p, p.leave + shift), order, earliest))
        THEN p.leave + shift
        ELSE try[(shift \div (2 * Grid)) * Grid]
  IN IF base.violations > 0 THEN p.leave ELSE try[(base.slack \div Grid) * Grid]

(* The departure a route is proposed with.                                  *)
LaterDeparture(p, order, earliest) ==
  Later(p, order, earliest, EvaluateFixedSequence(p, order, earliest))

NoScore == [km |-> -1]

Accepted(p, r) ==
  IF r.violations > 0 \/ r.minutes > p.limit THEN NoScore
  ELSE [km |-> r.km, minutes |-> r.minutes, cost |-> r.cost, work |-> r.work]

(* The evaluation of a fleet search: earliest windows, and no answer for a  *)
(* route that breaks a rule or meets the next booking.                      *)
Evaluate(p, order) == Accepted(p, EvaluateFixedSequence(p, order, TRUE))

UnlessBroken(next) == IF next.broken > 0 THEN NoScore ELSE next

ReturnedCompiled(p, order, run) ==
  LET work == run.at - p.leave - RealizableSlack(p, order, p.leave, run.at, run.opening)
  IN IF (p.shift # <<>> /\ run.at > p.shift[2]) \/ run.at - p.leave > p.limit THEN NoScore
     ELSE [km |-> run.km, minutes |-> run.at - p.leave, cost |-> RouteCost(run.km, work), work |-> work]

(* The compiled evaluation of the last refinement: it stops at the first    *)
(* violation and builds no details.                                         *)
FixedRouteEvaluator(p, order) ==
  LET Next(run, stop) == IF run = NoScore THEN NoScore ELSE UnlessBroken(Visit(p, TRUE, run, stop))
      Finish(run) == IF run = NoScore THEN NoScore ELSE ReturnedCompiled(p, order, Back(p, order, run))
  IN IF p.shift # <<>> /\ p.leave < p.shift[1] THEN NoScore
     ELSE Finish(FoldLeft(Next, AtDepot(p), order))

-----------------------------------------------------------------------------
(* The starts of an unloading on the working clock, for the engines that    *)
(* know no breaks.                                                          *)

Horizon(p) ==
  Smaller(DayEnd, Smaller(p.leave + p.limit, IF p.shift # <<>> THEN p.shift[2] ELSE DayEnd))

(* The spells of work between the breaks, each with whether a break ends it. *)
Spells(p) ==
  LET horizon == Horizon(p)
      Cut(cut, pause) ==
        IF pause.close <= cut.at \/ pause.open > horizon THEN cut
        ELSE [at |-> Greater(cut.at, pause.close),
              spells |-> IF pause.open > cut.at
                         THEN cut.spells \cup {<<cut.at, Smaller(pause.open, horizon), TRUE>>}
                         ELSE cut.spells]
      last == FoldLeft(Cut, [at |-> p.leave, spells |-> {}], p.breaks)
  IN last.spells \cup (IF last.at <= horizon THEN {<<last.at, horizon, FALSE>>} ELSE {})

ServiceDomain(p, stop) ==
  LET horizon == Horizon(p)
      s == p.stops[stop]
      windows == IF s.windows = {} THEN {[open |-> p.leave, close |-> horizon]} ELSE s.windows
      Low(spell, w) == Greater(spell[1], Greater(w.open, p.leave))
      High(spell, w) ==
        LET high == Smaller(spell[2], Smaller(w.close, horizon)) - s.service
        IN IF s.service = 0 /\ spell[3] /\ high >= spell[2] THEN spell[2] - 1 ELSE high
  IN IF (p.shift # <<>> /\ p.leave < p.shift[1]) \/ horizon < p.leave THEN {}
     ELSE UNION {WorkingClock(Low(sw[1], sw[2]), p.breaks, p.leave)
                   .. WorkingClock(High(sw[1], sw[2]), p.breaks, p.leave) :
                 sw \in {x \in Spells(p) \X windows : Low(x[1], x[2]) <= High(x[1], x[2])}}

(* An order on the working clock, as the solvers see it: the drives add up,  *)
(* and each unloading begins at the first instant of its domain.            *)
NoSchedule == -1

WorkingSchedule(p, order) ==
  LET Next(run, stop) ==
        LET after == {t \in ServiceDomain(p, stop) : t >= run.at + p.min[<<run.place, stop>>]}
        IN IF run.at = NoSchedule \/ after = {} THEN [run EXCEPT !.at = NoSchedule]
           ELSE [at |-> Least(after) + p.stops[stop].service, place |-> stop]
      last == FoldLeft(Next, [at |-> 0, place |-> 0], order)
      end == last.at + (IF p.back THEN p.min[<<last.place, 0>>] ELSE 0)
  IN IF last.at = NoSchedule \/ end > WorkingClock(Horizon(p), p.breaks, p.leave) THEN NoSchedule ELSE end

-----------------------------------------------------------------------------

OrdersOf(s) == {o \in [1 .. Cardinality(s) -> s] : Range(o) = s}

=============================================================================
