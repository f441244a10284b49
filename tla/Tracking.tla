------------------------------ MODULE Tracking ------------------------------
(***************************************************************************)
(* The position of a running route, as the office and the customers see it.*)
(*                                                                         *)
(* Devices upload positions while routes are started, delivered, closed    *)
(* and given to another driver.  An upload reads the route, locks the      *)
(* driver, then the route, and writes; a start locks the route, then the   *)
(* driver.  The network delays, repeats and reorders the uploads.          *)
(*                                                                         *)
(* Time is counted in minutes, so 90 s are more than one and less than two.*)
(* Coordinates are left out; the stops of a route are counted.             *)
(***************************************************************************)
EXTENDS Naturals

CONSTANTS
  Trips, NoTrip,     (* Routes, and none.                                  *)
  Pilots, NoPilot,   (* Drivers, and the driver of a route without one.    *)
  Uploads,           (* Requests that carry a position at a time.          *)
  FirstStops,        (* How many stops the routes may have.                *)
  KeptMinutes,       (* 24 hours, in minutes of the model.                 *)
  MaxMinutes         (* Bound: the clock.                                  *)

ASSUME TrackingAssumption ==
  /\ NoPilot \notin Pilots /\ NoTrip \notin Trips
  /\ FirstStops \subseteq Nat \ {0}
  /\ KeptMinutes \in Nat /\ MaxMinutes \in Nat

VARIABLES
  trip,              (* Routes: status, driver, open stops.                *)
  position,          (* RoutePosition rows.                                *)
  upload,            (* What each upload holds.                            *)
  starting,          (* The start that holds the lock of the company.      *)
  minute             (* The clock.                                         *)

trackingVars == <<trip, position, upload, starting, minute>>

-----------------------------------------------------------------------------

Fresh == 1           (* FRESH_SECONDS = 90 *)
EtaEvery == 2        (* ETA_SECONDS = 120 *)

Trip == [status : {"programmato", "in_corso", "chiuso"}, driver : Pilots \cup {NoPilot},
         stops : Nat]

NoPosition == [driver |-> NoPilot, captured |-> 0, received |-> 0, asked |-> 0, etaFrom |-> 0,
               etaStop |-> 0, stored |-> FALSE]

(* The ETA is for the stop with that many stops to go, none for 0. *)
Position == [driver : Pilots \cup {NoPilot}, captured : Nat, received : Nat, asked : Nat,
             etaFrom : Nat, etaStop : Nat, stored : BOOLEAN]

(* "clears" are the routes whose position of the same driver is deleted.   *)
Upload == [phase : {"idle", "read", "driver", "trip"}, trip : Trips \cup {NoTrip}, driver : Pilots \cup {NoPilot},
           captured : Nat, clears : SUBSET Trips]

Resting == [phase |-> "idle", trip |-> NoTrip, driver |-> NoPilot, captured |-> 0, clears |-> {}]

TrackingTypeOK ==
  /\ trip \in [Trips -> Trip]
  /\ position \in [Trips -> Position]
  /\ upload \in [Uploads -> Upload]
  /\ starting \subseteq Trips
  /\ minute \in 0..MaxMinutes
  /\ \A r \in Trips : ~position[r].stored => position[r] = NoPosition

(* Row locks: an upload holds its driver, then also its route. *)
DriverHeld(d) == \E u \in Uploads : upload[u].phase \in {"driver", "trip"} /\ upload[u].driver = d
TripHeld(r) ==
  \/ \E u \in Uploads : upload[u].phase = "trip" /\ upload[u].trip = r
  \/ r \in starting

Rests(u) == upload' = [upload EXCEPT ![u] = Resting]

-----------------------------------------------------------------------------
(* An upload.                                                              *)

(* The portals of the driver and of the operator find the route; the       *)
(* position may be an old one.                                             *)
ReadTrip(u, r, at) ==
  /\ upload[u].phase = "idle" /\ at <= minute /\ minute <= at + Fresh
  /\ upload' = [upload EXCEPT ![u] =
       [phase |-> "read", trip |-> r, driver |-> trip[r].driver, captured |-> at, clears |-> {}]]
  /\ UNCHANGED <<trip, position, starting, minute>>

LockPilot(u) ==
  /\ upload[u].phase = "read"
  /\ upload[u].driver # NoPilot => ~DriverHeld(upload[u].driver)
  /\ upload' = [upload EXCEPT ![u].phase = "driver"]
  /\ UNCHANGED <<trip, position, starting, minute>>

(* "Refresh after locking: an upload racing with completion cannot revive  *)
(* tracking."                                                              *)
StillRuns(u) ==
  /\ trip[upload[u].trip].status = "in_corso"
  /\ trip[upload[u].trip].driver = upload[u].driver

(* Positions of the same driver on other routes, when this route gets a    *)
(* new row.                                                                *)
Elsewhere(u) ==
  LET r == upload[u].trip  d == upload[u].driver IN
  IF d = NoPilot \/ (position[r].stored /\ position[r].driver = d) THEN {}
  ELSE {s \in Trips \ {r} : position[s].stored /\ position[s].driver = d}

LockTrip(u) ==
  /\ upload[u].phase = "driver" /\ ~TripHeld(upload[u].trip)
  /\ IF StillRuns(u) THEN upload' = [upload EXCEPT ![u].phase = "trip", ![u].clears = Elsewhere(u)]
     ELSE Rests(u)
  /\ UNCHANGED <<trip, position, starting, minute>>

(* Mutant: only the rate of the uploads is limited. *)
ThrottledByRate(row, at, soon) == row.received = minute /\ soon

(* Not newer than the stored one, or less than 20 s after it. *)
Throttled(row, at, soon) == at <= row.captured \/ (row.received = minute /\ soon)

(* "Bound even failed attempts": the ETA to the next stop is asked for at  *)
(* most every 120 s, and forgotten when the attempt fails.                 *)
Asked(row, at, stop, found) ==
  IF row.stored /\ minute - row.asked < EtaEvery THEN row
  ELSE [row EXCEPT !.asked = minute, !.etaFrom = IF found THEN at ELSE 0,
                   !.etaStop = IF found THEN stop ELSE 0]

(* The row is written and committed, or the position is refused. *)
RecordPosition(u, soon, found) ==
  LET r == upload[u].trip  d == upload[u].driver  at == upload[u].captured
      row == IF position[r].driver = d THEN position[r] ELSE NoPosition
      new == [Asked(row, at, trip[r].stops, found) EXCEPT
                !.driver = d, !.captured = at, !.received = minute, !.stored = TRUE] IN
  /\ upload[u].phase = "trip"
  /\ IF minute - at > Fresh \/ (row.stored /\ Throttled(row, at, soon))
       THEN position' = position
     ELSE position' = [s \in Trips |->
            IF s = r THEN new ELSE IF s \in upload[u].clears THEN NoPosition ELSE position[s]]
  /\ Rests(u)
  /\ UNCHANGED <<trip, starting, minute>>

(* The request fails, or the database ends a deadlock by failing it. *)
AbandonUpload(u) ==
  /\ upload[u].phase # "idle"
  /\ Rests(u)
  /\ UNCHANGED <<trip, position, starting, minute>>

-----------------------------------------------------------------------------
(* The route meanwhile.                                                    *)

(* start_route_usage: "Lock order: company -> route -> driver/vehicle ->   *)
(* orders."  An upload locks its driver before its route: when the two     *)
(* wait for each other the database fails one: AbandonUpload, FailStart.   *)
LockForStart(r) ==
  /\ starting = {} /\ trip[r].status = "programmato" /\ ~TripHeld(r)
  /\ starting' = {r}
  /\ UNCHANGED <<trip, position, upload, minute>>

StartTrip(r) ==
  LET d == trip[r].driver IN
  /\ r \in starting
  /\ d # NoPilot => ~DriverHeld(d)
  /\ trip' = IF d # NoPilot /\ \E s \in Trips : trip[s].status = "in_corso" /\ trip[s].driver = d
               THEN trip ELSE [trip EXCEPT ![r].status = "in_corso"]
  /\ starting' = {}
  /\ UNCHANGED <<position, upload, minute>>

FailStart(r) ==
  /\ r \in starting
  /\ starting' = {}
  /\ UNCHANGED <<trip, position, upload, minute>>

(* Mutant: the position is hidden, not deleted. *)
ClosedHiding(r) == [position EXCEPT ![r].stored = FALSE]

(* clear_position, in the transaction that closes the route. *)
Closed(r) == [position EXCEPT ![r] = NoPosition]

(* A delivery is completed or missed; the last one completes the route. *)
DeliverNext(r) ==
  /\ trip[r].status = "in_corso" /\ trip[r].stops > 0 /\ ~TripHeld(r) /\ starting = {}
  /\ trip' = [trip EXCEPT ![r].stops = @ - 1, ![r].status = IF trip[r].stops = 1 THEN "chiuso" ELSE @]
  /\ position' = IF trip[r].stops = 1 THEN Closed(r) ELSE position
  /\ UNCHANGED <<upload, starting, minute>>

(* The office completes or cancels the route. *)
EndTrip(r) ==
  /\ trip[r].status = "in_corso" /\ ~TripHeld(r) /\ starting = {}
  /\ trip' = [trip EXCEPT ![r].status = "chiuso"]
  /\ position' = Closed(r)
  /\ UNCHANGED <<upload, starting, minute>>

(* A route is saved with another driver; a recalculation whose row is kept *)
(* by the session does so even if it has been started since.               *)
GiveTrip(r, d) ==
  /\ trip[r].status # "chiuso" /\ d # trip[r].driver /\ ~TripHeld(r) /\ starting = {}
  /\ trip' = [trip EXCEPT ![r].driver = d]
  /\ UNCHANGED <<position, upload, starting, minute>>

(* The daily cleanup takes no lock of a route, so an upload that waits to  *)
(* write a row that is gone is left to AbandonUpload.                      *)
CleanupPositions ==
  LET old == {r \in Trips : position[r].stored /\
                (trip[r].status # "in_corso" \/ position[r].received + KeptMinutes < minute)} IN
  /\ old # {} /\ \A u \in Uploads : upload[u].phase # "trip"
  /\ position' = [r \in Trips |-> IF r \in old THEN NoPosition ELSE position[r]]
  /\ UNCHANGED <<trip, upload, starting, minute>>

MinutePasses ==
  /\ minute < MaxMinutes /\ minute' = minute + 1
  /\ UNCHANGED <<trip, position, upload, starting>>

-----------------------------------------------------------------------------

TrackingInit ==
  /\ trip \in [Trips -> [status : {"programmato"}, driver : Pilots \cup {NoPilot}, stops : FirstStops]]
  /\ position = [r \in Trips |-> NoPosition]
  /\ upload = [u \in Uploads |-> Resting]
  /\ starting = {} /\ minute = 0

TrackingNext ==
  \/ \E u \in Uploads :
       \/ \E r \in Trips, at \in 0..MaxMinutes : ReadTrip(u, r, at)
       \/ LockPilot(u) \/ LockTrip(u) \/ AbandonUpload(u)
       \/ \E soon, found \in BOOLEAN : RecordPosition(u, soon, found)
  \/ \E r \in Trips :
       \/ LockForStart(r) \/ StartTrip(r) \/ FailStart(r)
       \/ DeliverNext(r) \/ EndTrip(r)
       \/ \E d \in Pilots \cup {NoPilot} : GiveTrip(r, d)
  \/ CleanupPositions
  \/ MinutePasses

TrackingSpec == TrackingInit /\ [][TrackingNext]_trackingVars

-----------------------------------------------------------------------------

(* Tracking ends with the route: whatever upload was on its way when it    *)
(* was completed, cancelled or had its last stop delivered, there is no    *)
(* position of a route that is not running.                                *)
PositionsEndWithTheRoute == \A r \in Trips : position[r].stored => trip[r].status = "in_corso"

(* A driver is in one place: uploads for two routes that have the same     *)
(* driver never store two positions of him, which the unique key of the    *)
(* table would turn into an error.                                         *)
DriverIsInOnePlace ==
  \A r, s \in Trips :
    position[r].stored /\ position[s].stored /\ position[r].driver # NoPilot
      /\ position[r].driver = position[s].driver => r = s

(* A delayed or repeated upload never moves a position back in time.       *)
PositionMovesForward ==
  [][\A r \in Trips :
       position[r].stored /\ position'[r].stored /\ position[r].driver = position'[r].driver
         => position'[r].captured >= position[r].captured]_trackingVars

(* The ETA that is stored is the answer of the last attempt: an attempt    *)
(* that failed, whose position is more recent, leaves none.                *)
EtaIsOfLastAttempt ==
  \A r \in Trips : position[r].stored /\ position[r].etaStop # 0 =>
    position[r].etaFrom + Fresh >= position[r].asked

(* What the office and the customers see of a driver is of the route that  *)
(* he is on, of one place, and never an estimate for an earlier one.       *)
PositionsFollowTheRoute == PositionsEndWithTheRoute /\ DriverIsInOnePlace /\ EtaIsOfLastAttempt

(* What is shown of a driver is where he is, and where he is moves on.      *)
PositionsAreTrue == []PositionsFollowTheRoute /\ PositionMovesForward

=============================================================================
