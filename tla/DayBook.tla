------------------------------ MODULE DayBook ------------------------------
(***************************************************************************)
(* When the routes of a company occupy its drivers and vehicles.           *)
(*                                                                         *)
(* A route is saved, programmed, timed again with new traffic, started,    *)
(* closed and cancelled by requests that run at the same time.             *)
(* Programming compares it with the other bookings under the locks of the  *)
(* company, the route and its crew.  A recalculation compares before it    *)
(* takes the lock, and new traffic compares nothing.                       *)
(*                                                                         *)
(* Time is a number of slots since the first day.  Orders, stops and the   *)
(* way a route is computed are left out: a computation may return any      *)
(* length.                                                                 *)
(***************************************************************************)
EXTENDS Naturals, FiniteSets

CONSTANTS
  BookedRoutes,     (* RoutePlan rows that may ever be created.            *)
  Crew,             (* Drivers and vehicles.                               *)
  Bookers,          (* Requests that compute or refresh at a time.         *)
  NewRoute,         (* The route_id of a request for a new route.          *)
  DaySlots,         (* Slots of a day.                                     *)
  Drafts,           (* Bound: what a computation may return.               *)
  Lengths,          (* Bound: how long a route may take with traffic.      *)
  Moments           (* Bound: when something happens.                      *)

VARIABLES
  book,             (* RoutePlan rows.                                     *)
  booker,           (* What each request holds.                            *)
  now,              (* The clock.                                          *)
  loose             (* History: routes whose times or crew were written    *)
                    (* while they were booked, without the comparison that*)
                    (* programming makes, or after it found a conflict.    *)

dayVars == <<book, booker, now, loose>>

-----------------------------------------------------------------------------

Open == {"bozza", "programmato"}

(* What a computation decides about a route. *)
Times == [day : Nat, start : 0..(DaySlots - 1), length : Lengths, crew : SUBSET Crew]

ASSUME DayBookAssumption ==
  /\ NewRoute \notin BookedRoutes
  /\ DaySlots \in Nat
  /\ Lengths \subseteq 1..(DaySlots - 1) /\ Drafts \subseteq Times /\ Drafts # {}
  /\ Moments \subseteq Nat

SomeTimes == CHOOSE x \in Drafts : TRUE

(* "timed": the traffic result is the one of the present stops; "began" is *)
(* started_at.                                                             *)
BookedRoute ==
  [status : {"assente", "bozza", "programmato", "in_corso", "completato", "annullato"},
   times : Times, timed : BOOLEAN, began : Nat]

(* "seen" is the status of the route row the session may still hold;       *)
(* "answered" says that traffic was calculated since the request was made. *)
Booker ==
  [phase : {"idle", "compared", "refreshing"}, route : BookedRoutes \cup {NewRoute},
   times : Times, seen : {"bozza", "programmato"}, answered : BOOLEAN]

Free == [phase |-> "idle", route |-> NewRoute, times |-> SomeTimes, seen |-> "bozza",
         answered |-> FALSE]

DayBookTypeOK ==
  /\ book \in [BookedRoutes -> BookedRoute]
  /\ booker \in [Bookers -> Booker]
  /\ now \in Nat
  /\ loose \subseteq BookedRoutes

Today == now \div DaySlots

StartsAt(x) == x.day * DaySlots + x.start

(* The stored return is a time of day: one before the departure is meant   *)
(* for the next day.                                                       *)
Returns(x) ==
  LET back == (x.start + x.length) % DaySlots IN
  x.day * DaySlots + back + (IF back < x.start THEN DaySlots ELSE 0)

(* Half-open intervals; a running route lasts from its real start, as long *)
(* as it was planned, and at least until now.                              *)
BusyFrom(p) == IF p.status = "in_corso" THEN p.began ELSE StartsAt(p.times)
BusyUntil(p) ==
  IF p.status # "in_corso" THEN Returns(p.times)
  ELSE IF p.began + p.times.length > now THEN p.began + p.times.length ELSE now + 1

(* Mutant: only routes of the same day are candidates. *)
CandidatesToday(r, x) ==
  {s \in BookedRoutes \ {r} : /\ book[s].status \in {"programmato", "in_corso"}
                              /\ book[s].times.day = x.day}

(* Running routes of any day, programmed ones of the day and the one       *)
(* before.                                                                 *)
Candidates(r, x) ==
  {s \in BookedRoutes \ {r} :
     \/ book[s].status = "in_corso"
     \/ book[s].status = "programmato" /\ x.day \in {book[s].times.day, book[s].times.day + 1}}

(* The bookings that a route r with the times x would collide with. *)
Conflicts(r, x) ==
  {s \in Candidates(r, x) :
     /\ x.crew \cap book[s].times.crew # {}
     /\ StartsAt(x) < BusyUntil(book[s])
     /\ BusyFrom(book[s]) < StartsAt(x) + x.length}

Booked(r) == book[r].status \in {"programmato", "in_corso"}

(* Every refresh that waits for route r learns of a result. *)
Told(r) ==
  [q \in Bookers |-> IF booker[q].phase = "refreshing" /\ booker[q].route = r
                       THEN [booker[q] EXCEPT !.answered = TRUE] ELSE booker[q]]

-----------------------------------------------------------------------------
(* A route is computed, compared with the bookings and saved.              *)

(* optimize (a new route) and recalculate-manual. *)
CompareBookings(q, r, x) ==
  /\ booker[q].phase = "idle" /\ x.day >= Today
  /\ r # NewRoute => book[r].status \in Open
  /\ Conflicts(r, x) = {}
  /\ booker' = [booker EXCEPT ![q] =
       [Free EXCEPT !.phase = "compared", !.route = r, !.times = x,
                    !.seen = IF r = NewRoute THEN "bozza" ELSE book[r].status]]
  /\ UNCHANGED <<book, now, loose>>

(* save_route_result: the row keeps the status it has, and the times are   *)
(* no longer those of any traffic.                                         *)
SaveRoute(q, r) ==
  LET x == booker[q].times IN
  /\ booker[q].phase = "compared"
  /\ IF booker[q].route = NewRoute THEN book[r].status = "assente"
     ELSE r = booker[q].route /\ Open \cap {booker[q].seen, book[r].status} # {}
  /\ book' = [book EXCEPT ![r] =
       [@ EXCEPT !.times = x, !.timed = FALSE,
                 !.status = IF book[r].status = "assente" THEN "bozza" ELSE book[r].status]]
  /\ loose' = IF Booked(r) THEN loose \cup {r} ELSE loose
  /\ booker' = [booker EXCEPT ![q] = Free]
  /\ UNCHANGED now

(* The request is refused, or ends without saving. *)
Abandon(q) ==
  /\ booker[q].phase # "idle"
  /\ booker' = [booker EXCEPT ![q] = Free]
  /\ UNCHANGED <<book, now, loose>>

-----------------------------------------------------------------------------
(* Programming and traffic.                                                *)

(* "the longer ETA conflicts with a booking" *)
FitsWith(r, x) == Conflicts(r, x) = {}

(* program_route and the programming of a group: the route is compared as  *)
(* it is, gets the times of the traffic unless it has them, and is         *)
(* compared again.  The times stay when they collide.                      *)
ProgramRoute(r, length) ==
  LET x == [book[r].times EXCEPT !.length = length] IN
  /\ book[r].status \in Open /\ book[r].times.day >= Today
  /\ Conflicts(r, book[r].times) = {}
  /\ book[r].timed => length = book[r].times.length
  /\ book' = [book EXCEPT ![r] =
       [@ EXCEPT !.times = x, !.timed = TRUE,
                 !.status = IF FitsWith(r, x) THEN "programmato" ELSE book[r].status]]
  /\ loose' = IF FitsWith(r, x) THEN loose \ {r}
              ELSE IF Booked(r) THEN loose \cup {r} ELSE loose
  /\ booker' = IF book[r].timed THEN booker ELSE Told(r)
  /\ UNCHANGED now

AskTraffic(q, r) ==
  /\ booker[q].phase = "idle" /\ book[r].status \in Open
  /\ booker' = [booker EXCEPT ![q] = [Free EXCEPT !.phase = "refreshing", !.route = r]]
  /\ UNCHANGED <<book, now, loose>>

(* "coalesce requests that overlap a saved result" *)
Coalesced(q) == book[booker[q].route].timed /\ booker[q].answered

RefreshTraffic(q, length) ==
  LET r == booker[q].route IN
  /\ booker[q].phase = "refreshing" /\ book[r].status \in Open
  /\ IF Coalesced(q) THEN /\ booker' = [booker EXCEPT ![q] = Free]
                          /\ UNCHANGED <<book, loose>>
     ELSE /\ book' = [book EXCEPT ![r] = [@ EXCEPT !.times.length = length, !.timed = TRUE]]
          /\ loose' = IF Booked(r) THEN loose \cup {r} ELSE loose
          /\ booker' = [Told(r) EXCEPT ![q] = Free]
  /\ UNCHANGED now

-----------------------------------------------------------------------------
(* Execution.                                                              *)

(* The first action of a portal, or closing the route from the office. *)
BeginRoute(r) ==
  /\ book[r].status \in Open /\ book[r].times.day <= Today
  /\ \A s \in BookedRoutes \ {r} :
       book[s].status = "in_corso" => book[r].times.crew \cap book[s].times.crew = {}
  /\ book' = [book EXCEPT ![r] = [@ EXCEPT !.status = "in_corso", !.began = now]]
  /\ UNCHANGED <<booker, now, loose>>

CloseBooking(r) ==
  /\ book[r].status = "in_corso"
  /\ book' = [book EXCEPT ![r].status = "completato"]
  /\ UNCHANGED <<booker, now, loose>>

CallOff(r) ==
  /\ book[r].status \in Open \cup {"in_corso"}
  /\ book' = [book EXCEPT ![r].status = "annullato"]
  /\ UNCHANGED <<booker, now, loose>>

Tick ==
  /\ \E t \in Moments : t > now /\ now' = t
  /\ UNCHANGED <<book, booker, loose>>

-----------------------------------------------------------------------------

DayBookInit ==
  /\ book = [r \in BookedRoutes |->
              [status |-> "assente", times |-> SomeTimes, timed |-> FALSE, began |-> 0]]
  /\ booker = [q \in Bookers |-> Free]
  /\ now = 0 /\ loose = {}

DayBookNext ==
  \/ \E q \in Bookers :
       \/ \E r \in BookedRoutes \cup {NewRoute}, x \in Drafts : CompareBookings(q, r, x)
       \/ \E r \in BookedRoutes : SaveRoute(q, r) \/ AskTraffic(q, r)
       \/ \E length \in Lengths : RefreshTraffic(q, length)
       \/ Abandon(q)
  \/ \E r \in BookedRoutes :
       \/ \E length \in Lengths : ProgramRoute(r, length)
       \/ BeginRoute(r) \/ CloseBooking(r) \/ CallOff(r)
  \/ Tick

DayBookSpec == DayBookInit /\ [][DayBookNext]_dayVars

-----------------------------------------------------------------------------

(* Two bookings of one driver or vehicle on one day do not overlap, in     *)
(* whatever order they were saved, timed and programmed, unless one of     *)
(* them was recalculated or timed again after it had been programmed.      *)
BookingsAreApart ==
  \A r, s \in BookedRoutes \ loose :
    LET p == book[r].times  o == book[s].times IN
    /\ r # s /\ book[r].status = "programmato" /\ book[s].status = "programmato"
    /\ p.day = o.day /\ p.crew \cap o.crew # {}
    => Returns(p) <= StartsAt(o) \/ Returns(o) <= StartsAt(p)

(* A route that was programmed after one of the day before knows how far   *)
(* that one runs into its own day.                                         *)
NightIsSeen ==
  [][\A r, s \in BookedRoutes :
       /\ r # s /\ book[s].status = "programmato" /\ book[s].times.day + 1 = book'[r].times.day
       /\ book[r].status = "bozza" /\ book'[r].status = "programmato"
       /\ book'[r].times.crew \cap book[s].times.crew # {}
       => Returns(book[s].times) <= StartsAt(book'[r].times)]_dayVars

(* A driver and a vehicle are never promised to two routes at once, within  *)
(* a day and over midnight, however far a night runs into the next day.     *)
BookingsAreKept == []BookingsAreApart /\ NightIsSeen

=============================================================================
