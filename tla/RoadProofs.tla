----------------------------- MODULE RoadProofs -----------------------------
(***************************************************************************)
(* Theorems about a route on its day: the links of its customers, the      *)
(* position of its driver and the bookings of its crew.  The invariants    *)
(* that a run checks on a small instance hold for every set of routes,     *)
(* drivers, requests and links, and for every calendar.                    *)
(***************************************************************************)
EXTENDS MCRoad, TLAPS

-----------------------------------------------------------------------------
(* Links: the invariant.                                                   *)

(* A row of a link is one of the present deliveries, lasts as long as the  *)
(* present day of the route says and was given out for what its delivery   *)
(* delivers.                                                               *)
RowsHold ==
  \A d \in DeliveryIds : link[d] # NoRow =>
    /\ link[d].selector \in Selectors /\ goods[d] # NoGoods
    /\ link[d].until = Expiry(round.day)
    /\ given.for[link[d].selector] = goods[d]

(* The link that was asked for last is there, and works. *)
LastHolds ==
  given.last # NoLink =>
    \E d \in DeliveryIds :
      link[d].selector = given.last /\ Lives(d) /\ Shareable(d)

LinkInv == TrackingLinksTypeOK /\ RowsHold /\ LastHolds

(* What the variables of a link are, field by field.                       *)
LEMMA LinkTypes ==
  ASSUME TrackingLinksTypeOK
  PROVE  /\ round.day \in 0..LastDay /\ day \in 0..LastDay /\ LastDay \in Nat /\ ShareDays \in Nat
         /\ round = [status |-> round.status, day |-> round.day]
         /\ given = [for |-> given.for, last |-> given.last]
         /\ given.for \in [Selectors -> Goods \cup {NoGoods}]
         /\ given.last \in Selectors \cup {NoLink}
         /\ \A d \in DeliveryIds : /\ goods[d] \in Goods \cup {NoGoods}
                                  /\ link[d].selector \in Selectors \cup {NoLink}
                                  /\ link[d].until \in Nat
  BY TrackingLinksAssumption DEF TrackingLinksTypeOK

(* The row of no link is no row.                                           *)
LEMMA NoRowFields ==
  /\ NoRow \in [selector : Selectors \cup {NoLink}, until : Nat]
  /\ NoRow.selector = NoLink /\ NoRow.until = 0
  BY DEF NoRow

(* An answer that names a selector, or none, leaves the history as it is.  *)
LEMMA AnsweredFields ==
  ASSUME TrackingLinksTypeOK, NEW selector \in Selectors \cup {NoLink}, given' = Answered(selector)
  PROVE  /\ given' \in [for : [Selectors -> Goods \cup {NoGoods}], last : Selectors \cup {NoLink}]
         /\ given'.for = given.for /\ given'.last = selector
  BY DEF TrackingLinksTypeOK, Answered

(* Every step keeps the rows of links in agreement with the route.         *)
LEMMA LinkStep == LinkInv /\ [TrackingLinksNext]_linkVars => LinkInv'
  <1> SUFFICES ASSUME LinkInv, [TrackingLinksNext]_linkVars PROVE LinkInv'
    OBVIOUS
  <1> USE DEF LinkInv
  <1>n. NoLink \in Selectors \cup {NoLink} /\ NoGoods \notin Goods /\ NoLink \notin Selectors
    BY TrackingLinksAssumption
  <1>q. given'.last = NoLink => LastHolds'
    BY DEF LastHolds
  <1>1. CASE UNCHANGED linkVars
    BY <1>1 DEF linkVars, TrackingLinksTypeOK, RowsHold, LastHolds, Lives, Shareable, Expiry
  <1>2. ASSUME NEW new \in [DeliveryIds -> Goods \cup {NoGoods}], NEW on \in 0..LastDay,
               SaveRound(new, on)
        PROVE  LinkInv'
    <2>1. /\ round' = [round EXCEPT !.day = on] /\ goods' = new /\ given' = Answered(NoLink)
          /\ link' = [d \in DeliveryIds |-> NoRow] /\ UNCHANGED <<offered, day>>
      BY <1>2 DEF SaveRound, LinksRevoked
    <2>2. TrackingLinksTypeOK'
      BY <1>n, <2>1, NoRowFields, AnsweredFields DEF TrackingLinksTypeOK
    <2>3. RowsHold'
      BY <2>1 DEF RowsHold
    <2> QED
      BY <1>n, <1>q, <2>1, <2>2, <2>3, AnsweredFields
  <1>3. ASSUME NEW d \in DeliveryIds, ShareAgain(d) PROVE LinkInv'
    <2>1. /\ Shareable(d) /\ Lives(d) /\ given' = Answered(link[d].selector)
          /\ UNCHANGED <<round, goods, link, offered, day>>
      BY <1>3 DEF ShareAgain
    <2>2. /\ given' \in [for : [Selectors -> Goods \cup {NoGoods}], last : Selectors \cup {NoLink}]
          /\ given'.for = given.for /\ given'.last = link[d].selector
      BY <2>1, LinkTypes, AnsweredFields
    <2>3. TrackingLinksTypeOK'
      BY <2>1, <2>2 DEF TrackingLinksTypeOK
    <2>4. RowsHold'
      BY <2>1, <2>2 DEF RowsHold, Expiry
    <2>5. LastHolds'
      BY <2>1, <2>2 DEF LastHolds, Lives, Shareable
    <2> QED
      BY <2>3, <2>4, <2>5
  <1>4. ASSUME NEW d \in DeliveryIds, NEW selector \in Selectors, ShareDelivery(d, selector)
        PROVE  LinkInv'
    <2> DEFINE row == [selector |-> selector, until |-> Expiry(round.day)]
    <2>1. /\ Shareable(d) /\ ~Lives(d) /\ Expiry(round.day) > day
          /\ given.for[selector] = NoGoods
          /\ link' = [link EXCEPT ![d] = row]
          /\ given' = [for |-> [given.for EXCEPT ![selector] = goods[d]], last |-> selector]
          /\ UNCHANGED <<round, goods, offered, day>>
      BY <1>4 DEF ShareDelivery
    <2>2. Expiry(round.day) \in Nat /\ Expiry(round.day) > 0 /\ day \in Nat
      BY <2>1, LinkTypes DEF Expiry
    <2>3. /\ row \in [selector : Selectors \cup {NoLink}, until : Nat]
          /\ row.selector = selector /\ row.until = Expiry(round.day) /\ row # NoRow
      BY <1>n, <2>2, NoRowFields
    <2> HIDE DEF row
    <2>4. link'[d] = row /\ \A e \in DeliveryIds \ {d} : link'[e] = link[e]
      BY <2>1 DEF TrackingLinksTypeOK
    <2>5. /\ given' \in [for : [Selectors -> Goods \cup {NoGoods}], last : Selectors \cup {NoLink}]
          /\ given'.last = selector /\ given'.for[selector] = goods[d]
          /\ \A s \in Selectors \ {selector} : given'.for[s] = given.for[s]
      BY <2>1, LinkTypes
    <2>6. TrackingLinksTypeOK'
      <3>1. link' \in [DeliveryIds -> [selector : Selectors \cup {NoLink}, until : Nat]]
        BY <2>1, <2>3 DEF TrackingLinksTypeOK
      <3>2. \A e \in DeliveryIds : link'[e] # NoRow => link'[e].selector # NoLink /\ link'[e].until > 0
        BY <1>n, <2>2, <2>3, <2>4 DEF TrackingLinksTypeOK
      <3> QED
        BY <2>1, <2>5, <3>1, <3>2 DEF TrackingLinksTypeOK
    <2>7. RowsHold'
      <3>1. goods[d] # NoGoods
        BY <2>1 DEF Shareable
      <3>2. ASSUME NEW e \in DeliveryIds \ {d}, link[e] # NoRow
            PROVE  given'.for[link[e].selector] = goods[e] /\ link[e].selector \in Selectors
        BY <2>1, <2>5, <3>2 DEF RowsHold
      <3> QED
        BY <2>1, <2>3, <2>4, <2>5, <3>1, <3>2 DEF RowsHold, Expiry
    <2>8. LastHolds'
      <3>1. Lives(d)' /\ Shareable(d)'
        BY <2>1, <2>3, <2>4 DEF Lives, Shareable, NoRow
      <3> QED
        BY <2>3, <2>4, <2>5, <3>1 DEF LastHolds
    <2> QED
      BY <2>6, <2>7, <2>8
  <1>5. ASSUME NEW d \in DeliveryIds, RevokeLink(d) PROVE LinkInv'
    <2>1. /\ link' = [link EXCEPT ![d] = NoRow] /\ given' = Answered(NoLink)
          /\ UNCHANGED <<round, goods, offered, day>>
      BY <1>5 DEF RevokeLink
    <2>2. \A e \in DeliveryIds : link'[e] = link[e] \/ link'[e] = NoRow
      BY <2>1 DEF TrackingLinksTypeOK
    <2>3. TrackingLinksTypeOK'
      <3>1. link' \in [DeliveryIds -> [selector : Selectors \cup {NoLink}, until : Nat]]
        BY <2>1, NoRowFields DEF TrackingLinksTypeOK
      <3> QED
        BY <1>n, <2>1, <2>2, <3>1, AnsweredFields DEF TrackingLinksTypeOK
    <2>4. RowsHold'
      BY <1>n, <2>1, <2>2, AnsweredFields DEF RowsHold, Expiry
    <2> QED
      BY <1>n, <1>q, <2>1, <2>3, <2>4, AnsweredFields
  <1>6. ASSUME NEW status \in {"programmato", "in_corso", "completato", "annullato"}, RoundGoesOn(status)
        PROVE  LinkInv'
    <2>1. /\ round' = [round EXCEPT !.status = status] /\ given' = Answered(NoLink)
          /\ UNCHANGED <<goods, link, offered, day>>
      BY <1>6 DEF RoundGoesOn
    <2>2. TrackingLinksTypeOK' /\ round'.day = round.day
      BY <1>n, <2>1, AnsweredFields DEF TrackingLinksTypeOK
    <2>3. RowsHold'
      BY <1>n, <2>1, <2>2, AnsweredFields DEF RowsHold, Expiry
    <2> QED
      BY <1>n, <1>q, <2>1, <2>2, <2>3, AnsweredFields
  <1>7. CASE ChangeOffer \/ NextDay
    <2>1. /\ UNCHANGED <<round, goods, link>> /\ given' = Answered(NoLink)
          /\ offered' \in BOOLEAN /\ day' \in 0..LastDay
      <3>1. offered' \in BOOLEAN
        BY <1>7 DEF ChangeOffer, NextDay, TrackingLinksTypeOK
      <3>2. day' \in 0..LastDay
        BY <1>7, LinkTypes DEF ChangeOffer, NextDay
      <3> QED
        BY <1>7, <3>1, <3>2 DEF ChangeOffer, NextDay
    <2>2. TrackingLinksTypeOK'
      BY <1>n, <2>1, AnsweredFields DEF TrackingLinksTypeOK
    <2>3. RowsHold'
      BY <1>n, <2>1, AnsweredFields DEF RowsHold, Expiry
    <2> QED
      BY <1>n, <1>q, <2>1, <2>2, <2>3, AnsweredFields
  <1> QED
    BY <1>1, <1>2, <1>3, <1>4, <1>5, <1>6, <1>7 DEF TrackingLinksNext

(* No link is given out at first.                                          *)
LEMMA LinkBegins == TrackingLinksInit => LinkInv
  BY TrackingLinksAssumption, NoRowFields
     DEF TrackingLinksInit, LinkInv, TrackingLinksTypeOK, RowsHold, LastHolds

(* Whatever happens to a route, its day and its deliveries, a link opens   *)
(* what it was given out for when it is given out, and never anything else *)
(* or for longer than the week after the route (delivery_tracking.py).     *)
THEOREM LinksFollow == TrackingLinksSpec => []LinksFollowTheirRound
  <1>1. TrackingLinksInit => LinkInv
    BY LinkBegins
  <1>2. LinkInv => LinksFollowTheirRound
    <2> SUFFICES ASSUME LinkInv PROVE LinksFollowTheirRound
      OBVIOUS
    <2> USE DEF LinkInv
    <2>1. \A d \in DeliveryIds : link[d].selector \in Selectors => link[d] # NoRow
      BY NoRowFields, TrackingLinksAssumption
    <2>2. LinkShowsItsDelivery
      BY <2>1 DEF LinkShowsItsDelivery, Opens, Rows, RowsHold
    <2>3. GivenLinkOpens
      <3> SUFFICES ASSUME given.last # NoLink PROVE Opens(given.last) # {}
        BY DEF GivenLinkOpens
      <3>1. PICK d \in DeliveryIds : link[d].selector = given.last /\ Lives(d) /\ Shareable(d)
        BY DEF LastHolds
      <3>2. d \in Opens(given.last)
        BY <3>1 DEF Opens, Rows, Lives, Shareable
      <3> QED
        BY <3>2
    <2>4. LinkEndsWithItsRound
      <3> SUFFICES ASSUME NEW s \in Selectors, NEW d \in Opens(s) PROVE day < Expiry(round.day)
        BY DEF LinkEndsWithItsRound
      <3>1. d \in DeliveryIds /\ link[d].selector = s /\ link[d].until > day
        BY DEF Opens, Rows
      <3>2. link[d].until = Expiry(round.day) /\ link[d].until \in Nat /\ day \in Nat
        BY <2>1, <3>1, LinkTypes DEF RowsHold
      <3> QED
        BY <3>1, <3>2
    <2> QED
      BY <2>2, <2>3, <2>4 DEF LinksFollowTheirRound
  <1> QED
    BY <1>1, <1>2, LinkStep, PTL DEF TrackingLinksSpec

-----------------------------------------------------------------------------
(* Positions: the invariant.                                               *)

InTrip(u) == upload[u].phase = "trip"
HoldsPilot(u) == upload[u].phase \in {"driver", "trip"} /\ upload[u].driver # NoPilot

(* An upload is about a route; while it holds the route, that one runs.    *)
UploadsHoldRoutes ==
  \A u \in Uploads :
    /\ upload[u].phase # "idle" => upload[u].trip \in Trips
    /\ InTrip(u) => trip[upload[u].trip].status = "in_corso"

(* No two uploads hold one driver.                                         *)
PilotsAreHeldOnce ==
  \A u, w \in Uploads :
    HoldsPilot(u) /\ HoldsPilot(w) /\ upload[u].driver = upload[w].driver => u = w

(* What an upload will delete are all the other positions of its driver:   *)
(* nobody has written one since it looked.                                 *)
ClearsAreComplete ==
  \A u \in Uploads : InTrip(u) /\ upload[u].driver # NoPilot =>
    \A r \in Trips \ {upload[u].trip} :
      position[r].stored /\ position[r].driver = upload[u].driver => r \in upload[u].clears

PositionInv ==
  /\ TrackingTypeOK /\ UploadsHoldRoutes /\ PilotsAreHeldOnce /\ ClearsAreComplete
  /\ PositionsFollowTheRoute

(* What the variables of tracking are, field by field.                     *)
LEMMA TrackingTypes ==
  ASSUME TrackingTypeOK
  PROVE  /\ minute \in Nat /\ MaxMinutes \in Nat /\ Fresh \in Nat
         /\ \A r \in Trips : /\ trip[r] \in Trip /\ trip[r].stops \in Nat
                             /\ trip[r].driver \in Pilots \cup {NoPilot}
                             /\ position[r] \in Position /\ position[r].captured \in Nat
                             /\ position[r].received \in Nat /\ position[r].asked \in Nat
                             /\ position[r].etaFrom \in Nat /\ position[r].etaStop \in Nat
         /\ \A u \in Uploads : /\ upload[u] \in Upload /\ upload[u].captured \in Nat
                               /\ upload[u].driver \in Pilots \cup {NoPilot}
                               /\ upload[u].clears \subseteq Trips
                               /\ upload[u].phase \in {"idle", "read", "driver", "trip"}
                               /\ upload[u].trip \in Trips \cup {NoTrip}
  <1>1. minute \in Nat /\ MaxMinutes \in Nat /\ Fresh \in Nat
    BY TrackingAssumption DEF TrackingTypeOK, Fresh
  <1>2. \A r \in Trips : trip[r] \in Trip /\ position[r] \in Position
    BY DEF TrackingTypeOK
  <1>3. \A u \in Uploads : upload[u] \in Upload
    BY DEF TrackingTypeOK
  <1> QED
    BY <1>1, <1>2, <1>3 DEF Trip, Position, Upload

(* Neither a row that is gone nor an upload that rests holds anything.     *)
LEMMA NothingFields ==
  /\ NoPosition \in Position /\ ~NoPosition.stored /\ NoPosition.etaStop = 0
  /\ Resting \in Upload /\ Resting.phase = "idle"
  BY DEF NoPosition, Position, Resting, Upload

(* What a step may do that writes no position.                             *)
Uploading(u) ==
  /\ upload'[u] \in Upload
  /\ upload'[u].phase # "idle" => upload'[u].trip \in Trips
  /\ InTrip(u)' => trip[upload'[u].trip].status = "in_corso"
  /\ \A w \in Uploads \ {u} : upload'[w] = upload[w]
  /\ HoldsPilot(u)' => \A w \in Uploads \ {u} :
       ~(HoldsPilot(w) /\ upload[w].driver = upload'[u].driver)
  /\ InTrip(u)' /\ upload'[u].driver # NoPilot => \A r \in Trips \ {upload'[u].trip} :
       position[r].stored /\ position[r].driver = upload'[u].driver => r \in upload'[u].clears

(* An upload goes on, and nobody writes.                                   *)
LEMMA UploadGoesOn ==
  ASSUME PositionInv, NEW u \in Uploads, Uploading(u), upload' \in [Uploads -> Upload],
         UNCHANGED <<trip, position, starting, minute>>
  PROVE  PositionInv'
  <1> USE DEF PositionInv
  <1>1. TrackingTypeOK'
    BY DEF TrackingTypeOK
  <1>2. UploadsHoldRoutes'
    BY DEF UploadsHoldRoutes, Uploading, InTrip
  <1>3. PilotsAreHeldOnce'
    BY DEF PilotsAreHeldOnce, Uploading, HoldsPilot
  <1>4. ClearsAreComplete'
    BY DEF ClearsAreComplete, Uploading, InTrip
  <1>5. PositionsFollowTheRoute'
    BY DEF PositionsFollowTheRoute, PositionsEndWithTheRoute, DriverIsInOnePlace, EtaIsOfLastAttempt,
           Fresh
  <1> QED
    BY <1>1, <1>2, <1>3, <1>4, <1>5

(* The route changes and positions go, while nobody who uploads holds it.  *)
PositionsOnlyGo ==
  /\ UNCHANGED upload /\ starting' \subseteq Trips /\ minute' \in 0..MaxMinutes
  /\ trip' \in [Trips -> Trip] /\ position' \in [Trips -> Position]
  /\ \A r \in Trips : position'[r] = position[r] \/ position'[r] = NoPosition
  /\ \A r \in Trips : trip[r].status = "in_corso" =>
       \/ trip'[r].status = "in_corso"
       \/ ~TripHeld(r) /\ position'[r] = NoPosition

(* Rows that are deleted disturb nothing.                                  *)
LEMMA RowsOnlyGo ==
  ASSUME PositionInv, PositionsOnlyGo
  PROVE  PositionInv'
  <1> USE DEF PositionInv, PositionsOnlyGo
  <1>1. TrackingTypeOK'
    BY DEF TrackingTypeOK
  <1>2. UploadsHoldRoutes'
    BY DEF UploadsHoldRoutes, InTrip, TripHeld
  <1>3. PilotsAreHeldOnce'
    BY DEF PilotsAreHeldOnce, HoldsPilot
  <1>4. ClearsAreComplete'
    BY NothingFields DEF ClearsAreComplete, InTrip
  <1>5. PositionsEndWithTheRoute'
    BY NothingFields DEF PositionsFollowTheRoute, PositionsEndWithTheRoute
  <1>6. DriverIsInOnePlace'
    BY NothingFields DEF PositionsFollowTheRoute, DriverIsInOnePlace
  <1>7. EtaIsOfLastAttempt'
    BY NothingFields DEF PositionsFollowTheRoute, EtaIsOfLastAttempt, Fresh
  <1> QED
    BY <1>1, <1>2, <1>3, <1>4, <1>5, <1>6, <1>7 DEF PositionsFollowTheRoute

(* Every step of an upload before it writes.                               *)
LEMMA UploadSteps ==
  ASSUME PositionInv, NEW u \in Uploads,
         \/ \E r \in Trips, at \in 0..MaxMinutes : ReadTrip(u, r, at)
         \/ LockPilot(u) \/ LockTrip(u) \/ AbandonUpload(u)
  PROVE  PositionInv'
  <1> USE DEF PositionInv
  <1>u. upload \in [Uploads -> Upload] /\ UNCHANGED <<trip, position, starting, minute>>
    BY DEF TrackingTypeOK, ReadTrip, LockPilot, LockTrip, AbandonUpload
  <1>1. ASSUME NEW new \in Upload, upload' = [upload EXCEPT ![u] = new]
        PROVE  /\ upload' \in [Uploads -> Upload] /\ upload'[u] = new
               /\ \A w \in Uploads \ {u} : upload'[w] = upload[w]
    BY <1>1, <1>u
  <1>2. ASSUME NEW r \in Trips, NEW at \in 0..MaxMinutes, ReadTrip(u, r, at) PROVE PositionInv'
    <2> DEFINE new == [phase |-> "read", trip |-> r, driver |-> trip[r].driver, captured |-> at,
                       clears |-> {}]
    <2>1. upload' = [upload EXCEPT ![u] = new]
      BY <1>2 DEF ReadTrip
    <2>2. new \in Upload /\ new.phase = "read" /\ new.trip = r
      BY TrackingTypes DEF Upload
    <2> HIDE DEF new
    <2>3. Uploading(u) /\ upload' \in [Uploads -> Upload]
      BY <1>1, <2>1, <2>2 DEF Uploading, InTrip, HoldsPilot
    <2> QED
      BY <1>u, <2>3, UploadGoesOn
  <1>3. CASE Rests(u)
    <2>1. Uploading(u) /\ upload' \in [Uploads -> Upload]
      BY <1>1, <1>3, NothingFields DEF Uploading, InTrip, HoldsPilot, Rests
    <2> QED
      BY <1>u, <2>1, UploadGoesOn
  <1>4. CASE LockPilot(u)
    <2> DEFINE new == [upload[u] EXCEPT !.phase = "driver"]
    <2>1. /\ upload' = [upload EXCEPT ![u] = new] /\ upload[u].phase = "read"
          /\ upload[u].driver # NoPilot => ~DriverHeld(upload[u].driver)
      BY <1>4 DEF LockPilot
    <2>2. /\ new \in Upload /\ new.phase = "driver" /\ new.trip = upload[u].trip
          /\ new.driver = upload[u].driver
      BY TrackingTypes DEF Upload
    <2> HIDE DEF new
    <2>3. upload[u].trip \in Trips
      BY <2>1 DEF UploadsHoldRoutes
    <2>4. Uploading(u) /\ upload' \in [Uploads -> Upload]
      BY <1>1, <2>1, <2>2, <2>3 DEF Uploading, InTrip, HoldsPilot, DriverHeld
    <2> QED
      BY <1>u, <2>4, UploadGoesOn
  <1>5. CASE LockTrip(u) /\ StillRuns(u)
    <2> DEFINE new == [upload[u] EXCEPT !.phase = "trip", !.clears = Elsewhere(u)]
    <2>1. /\ upload' = [upload EXCEPT ![u] = new] /\ upload[u].phase = "driver"
          /\ trip[upload[u].trip].status = "in_corso"
      BY <1>5 DEF LockTrip, StillRuns
    <2>2. Elsewhere(u) \subseteq Trips
      BY DEF Elsewhere
    <2>3. /\ new \in Upload /\ new.phase = "trip" /\ new.trip = upload[u].trip
          /\ new.driver = upload[u].driver /\ new.clears = Elsewhere(u)
      BY <2>2, TrackingTypes DEF Upload
    <2> HIDE DEF new
    <2>4. upload[u].trip \in Trips
      BY <2>1 DEF UploadsHoldRoutes
    <2>5. ASSUME upload[u].driver # NoPilot, NEW r \in Trips \ {upload[u].trip},
                 position[r].stored, position[r].driver = upload[u].driver
          PROVE  r \in Elsewhere(u)
      BY <2>4, <2>5 DEF Elsewhere, PositionsFollowTheRoute, DriverIsInOnePlace
    <2>6. ASSUME upload[u].driver # NoPilot, NEW w \in Uploads \ {u}, HoldsPilot(w)
          PROVE  upload[w].driver # upload[u].driver
      BY <2>1, <2>6 DEF PilotsAreHeldOnce, HoldsPilot
    <2>7. upload' \in [Uploads -> Upload] /\ upload'[u] = new
          /\ \A w \in Uploads \ {u} : upload'[w] = upload[w]
      BY <1>1, <2>1, <2>3
    <2>8. Uploading(u)
      BY <2>1, <2>3, <2>4, <2>5, <2>6, <2>7 DEF Uploading, InTrip, HoldsPilot
    <2> QED
      BY <1>u, <2>7, <2>8, UploadGoesOn
  <1> QED
    BY <1>2, <1>3, <1>4, <1>5 DEF LockTrip, AbandonUpload

(* The route goes on, and positions are deleted.                           *)
LEMMA RouteSteps ==
  ASSUME PositionInv,
         \/ \E r \in Trips :
              \/ LockForStart(r) \/ StartTrip(r) \/ FailStart(r)
              \/ DeliverNext(r) \/ EndTrip(r)
              \/ \E d \in Pilots \cup {NoPilot} : GiveTrip(r, d)
         \/ CleanupPositions
         \/ MinutePasses
  PROVE  PositionInv'
  <1>t. /\ trip \in [Trips -> Trip] /\ position \in [Trips -> Position] /\ starting \subseteq Trips
        /\ minute \in 0..MaxMinutes /\ TrackingTypeOK
    BY DEF PositionInv, TrackingTypeOK
  <1>1. ASSUME NEW r \in Trips, NEW new \in Trip, trip' = [trip EXCEPT ![r] = new]
        PROVE  /\ trip' \in [Trips -> Trip] /\ trip'[r] = new
               /\ \A s \in Trips \ {r} : trip'[s] = trip[s]
    BY <1>1, <1>t
  <1>2. ASSUME NEW r \in Trips, position' = Closed(r)
        PROVE  /\ position' \in [Trips -> Position] /\ position'[r] = NoPosition
               /\ \A s \in Trips \ {r} : position'[s] = position[s]
    BY <1>2, <1>t, NothingFields DEF Closed
  <1>3. ASSUME NEW r \in Trips, LockForStart(r) \/ FailStart(r) PROVE PositionInv'
    BY <1>t, <1>3, RowsOnlyGo DEF LockForStart, FailStart, PositionsOnlyGo
  <1>4. CASE MinutePasses
    <2>1. minute' \in 0..MaxMinutes
      BY <1>t, <1>4, TrackingAssumption DEF MinutePasses
    <2> QED
      BY <1>t, <1>4, <2>1, RowsOnlyGo DEF MinutePasses, PositionsOnlyGo
  <1>5. CASE CleanupPositions
    <2> DEFINE old == {r \in Trips : position[r].stored /\
                         (trip[r].status # "in_corso" \/ position[r].received + KeptMinutes < minute)}
    <2>1. /\ position' = [r \in Trips |-> IF r \in old THEN NoPosition ELSE position[r]]
          /\ UNCHANGED <<trip, upload, starting, minute>>
      BY <1>5 DEF CleanupPositions
    <2> HIDE DEF old
    <2>2. position' \in [Trips -> Position]
      BY <1>t, <2>1, NothingFields
    <2>3. \A r \in Trips : position'[r] = position[r] \/ position'[r] = NoPosition
      BY <2>1
    <2> QED
      BY <1>t, <2>1, <2>2, <2>3, RowsOnlyGo DEF PositionsOnlyGo
  <1>6. ASSUME NEW r \in Trips, StartTrip(r) PROVE PositionInv'
    <2> DEFINE new == [trip[r] EXCEPT !.status = "in_corso"]
    <2>1. /\ trip' = trip \/ trip' = [trip EXCEPT ![r] = new]
          /\ starting' = {} /\ UNCHANGED <<position, upload, minute>>
      BY <1>6 DEF StartTrip
    <2>2. new \in Trip /\ new.status = "in_corso"
      BY <1>t DEF Trip
    <2> HIDE DEF new
    <2>3. /\ trip' \in [Trips -> Trip]
          /\ \A s \in Trips : trip[s].status = "in_corso" => trip'[s].status = "in_corso"
      BY <1>t, <1>1, <2>1, <2>2
    <2> QED
      BY <1>t, <2>1, <2>3, RowsOnlyGo DEF PositionsOnlyGo
  <1>7. ASSUME NEW r \in Trips, DeliverNext(r) PROVE PositionInv'
    <2> DEFINE new == [trip[r] EXCEPT !.stops = @ - 1,
                                      !.status = IF trip[r].stops = 1 THEN "chiuso" ELSE @]
    <2>1. /\ trip[r].stops > 0 /\ ~TripHeld(r)
          /\ trip' = [trip EXCEPT ![r].stops = @ - 1,
                                  ![r].status = IF trip[r].stops = 1 THEN "chiuso" ELSE @]
          /\ position' = IF trip[r].stops = 1 THEN Closed(r) ELSE position
          /\ UNCHANGED <<upload, starting, minute>>
      BY <1>7 DEF DeliverNext
    <2>2. trip' = [trip EXCEPT ![r] = new]
      BY <1>t, <2>1 DEF Trip
    <2>3. trip[r].stops \in Nat /\ trip[r].stops - 1 \in Nat
      BY <1>t, <2>1, TrackingTypes
    <2>4. new \in Trip /\ new.status = IF trip[r].stops = 1 THEN "chiuso" ELSE trip[r].status
      BY <1>t, <2>3 DEF Trip
    <2> HIDE DEF new
    <2>5. /\ trip' \in [Trips -> Trip] /\ trip'[r] = new
          /\ \A s \in Trips \ {r} : trip'[s] = trip[s]
      BY <1>1, <2>2, <2>4
    <2>6. /\ position' \in [Trips -> Position]
          /\ trip[r].stops = 1 => position'[r] = NoPosition
          /\ \A s \in Trips : position'[s] = position[s] \/ position'[s] = NoPosition
      BY <1>t, <1>2, <2>1
    <2>7. \A s \in Trips : trip[s].status = "in_corso" =>
            \/ trip'[s].status = "in_corso"
            \/ ~TripHeld(s) /\ position'[s] = NoPosition
      BY <2>1, <2>4, <2>5, <2>6
    <2> QED
      BY <1>t, <2>1, <2>5, <2>6, <2>7, RowsOnlyGo DEF PositionsOnlyGo
  <1>8. ASSUME NEW r \in Trips, EndTrip(r) PROVE PositionInv'
    <2> DEFINE new == [trip[r] EXCEPT !.status = "chiuso"]
    <2>1. /\ ~TripHeld(r) /\ trip' = [trip EXCEPT ![r] = new] /\ position' = Closed(r)
          /\ UNCHANGED <<upload, starting, minute>>
      BY <1>8 DEF EndTrip
    <2>2. new \in Trip
      BY <1>t DEF Trip
    <2> HIDE DEF new
    <2>3. trip' \in [Trips -> Trip] /\ \A s \in Trips \ {r} : trip'[s] = trip[s]
      BY <1>1, <2>1, <2>2
    <2>4. /\ position' \in [Trips -> Position] /\ position'[r] = NoPosition
          /\ \A s \in Trips \ {r} : position'[s] = position[s]
      BY <1>2, <2>1
    <2> QED
      BY <1>t, <2>1, <2>3, <2>4, RowsOnlyGo DEF PositionsOnlyGo
  <1>9. ASSUME NEW r \in Trips, NEW d \in Pilots \cup {NoPilot}, GiveTrip(r, d) PROVE PositionInv'
    <2> DEFINE new == [trip[r] EXCEPT !.driver = d]
    <2>1. trip' = [trip EXCEPT ![r] = new] /\ UNCHANGED <<position, upload, starting, minute>>
      BY <1>9 DEF GiveTrip
    <2>2. new \in Trip /\ new.status = trip[r].status
      BY <1>t DEF Trip
    <2> HIDE DEF new
    <2>3. trip' \in [Trips -> Trip] /\ \A s \in Trips : trip'[s].status = trip[s].status
      BY <1>1, <2>1, <2>2
    <2> QED
      BY <1>t, <2>1, <2>3, RowsOnlyGo DEF PositionsOnlyGo
  <1> QED
    BY <1>3, <1>4, <1>5, <1>6, <1>7, <1>8, <1>9

(* What an upload writes: the route's driver, a position that is recent,   *)
(* and an estimate that is not older than its last attempt.                *)
Writes(u, new) ==
  LET r == upload[u].trip IN
  /\ new \in Position /\ new.stored /\ new.driver = upload[u].driver
  /\ new.captured = upload[u].captured
  /\ position[r].stored /\ position[r].driver = new.driver => new.captured > position[r].captured
  /\ new.etaStop # 0 => new.etaFrom + Fresh >= new.asked
  /\ position' = [s \in Trips |-> IF s = r THEN new
                                  ELSE IF s \in upload[u].clears THEN NoPosition ELSE position[s]]

(* What a recorded position changes.                                       *)
LEMMA PositionWritten ==
  ASSUME PositionInv, NEW u \in Uploads, NEW soon \in BOOLEAN, NEW found \in BOOLEAN,
         RecordPosition(u, soon, found)
  PROVE  /\ InTrip(u) /\ Rests(u) /\ UNCHANGED <<trip, starting, minute>>
         /\ position' = position \/ \E new : Writes(u, new)
  <1> DEFINE r == upload[u].trip
             d == upload[u].driver
             at == upload[u].captured
             row == IF position[r].driver = d THEN position[r] ELSE NoPosition
             asked == Asked(row, at, trip[r].stops, found)
             new == [asked EXCEPT !.driver = d, !.captured = at, !.received = minute, !.stored = TRUE]
  <1>1. InTrip(u) /\ Rests(u) /\ UNCHANGED <<trip, starting, minute>>
    BY DEF RecordPosition, InTrip
  <1>2. \/ position' = position
        \/ /\ ~(minute - at > Fresh \/ (row.stored /\ Throttled(row, at, soon)))
           /\ position' = [s \in Trips |-> IF s = r THEN new
                             ELSE IF s \in upload[u].clears THEN NoPosition ELSE position[s]]
    BY DEF RecordPosition
  <1>3. r \in Trips /\ TrackingTypeOK
    BY <1>1 DEF PositionInv, UploadsHoldRoutes, InTrip
  <1>4. /\ at \in Nat /\ minute \in Nat /\ trip[r].stops \in Nat /\ d \in Pilots \cup {NoPilot}
        /\ position[r] \in Position
    BY <1>3, TrackingTypes
  <1>5. /\ row \in Position /\ (row.stored => row = position[r])
        /\ position[r].stored /\ position[r].driver = d => row = position[r]
    BY <1>4, NothingFields
  <1>6. row.stored /\ row.etaStop # 0 => row.etaFrom + Fresh >= row.asked
    BY <1>3, <1>5 DEF PositionInv, PositionsFollowTheRoute, EtaIsOfLastAttempt
  <1> HIDE DEF row
  <1> SUFFICES ASSUME ~(minute - at > Fresh \/ (row.stored /\ Throttled(row, at, soon)))
               PROVE  /\ new \in Position /\ new.stored /\ new.driver = d /\ new.captured = at
                      /\ row.stored => new.captured > row.captured
                      /\ new.etaStop # 0 => new.etaFrom + Fresh >= new.asked
    <2>1. new \in Position /\ new.stored /\ new.driver = d /\ new.captured = at
          /\ (row.stored => new.captured > row.captured)
          /\ (new.etaStop # 0 => new.etaFrom + Fresh >= new.asked)
          /\ position' = [s \in Trips |-> IF s = r THEN new
                             ELSE IF s \in upload[u].clears THEN NoPosition ELSE position[s]]
          => Writes(u, new)
      <3> HIDE DEF new
      <3> QED
        BY <1>5 DEF Writes
    <2> HIDE DEF new
    <2> QED
      BY <1>1, <1>2, <2>1
  <1>7. at + Fresh >= minute
    BY <1>4 DEF Fresh
  <1>8. row.stored => at > row.captured
    BY <1>4, <1>5 DEF Throttled, Position
  <1>9. asked \in Position /\ (asked.etaStop # 0 => asked.etaFrom + Fresh >= asked.asked)
    <2>1. CASE row.stored /\ minute - row.asked < EtaEvery
      <3>1. asked = row
        BY <2>1 DEF Asked
      <3> QED
        BY <1>5, <1>6, <2>1, <3>1
    <2>2. CASE ~(row.stored /\ minute - row.asked < EtaEvery)
      <3> DEFINE from == IF found THEN at ELSE 0
                 stop == IF found THEN trip[r].stops ELSE 0
      <3>1. asked = [row EXCEPT !.asked = minute, !.etaFrom = from, !.etaStop = stop]
        BY <2>2 DEF Asked
      <3>2. from \in Nat /\ stop \in Nat /\ (stop # 0 => from = at)
        BY <1>4
      <3> HIDE DEF from, stop
      <3>3. /\ asked \in Position /\ asked.asked = minute
            /\ asked.etaStop = stop /\ asked.etaFrom = from
        BY <1>4, <1>5, <3>1, <3>2 DEF Position
      <3> QED
        BY <1>7, <3>2, <3>3
    <2> QED
      BY <2>1, <2>2
  <1> HIDE DEF asked
  <1>10. /\ new \in Position /\ new.stored /\ new.driver = d /\ new.captured = at
         /\ new.etaStop = asked.etaStop /\ new.etaFrom = asked.etaFrom /\ new.asked = asked.asked
    BY <1>4, <1>9 DEF Position
  <1> QED
    BY <1>8, <1>9, <1>10

(* The write of an upload.                                                 *)
LEMMA RecordSteps ==
  ASSUME PositionInv, NEW u \in Uploads, NEW soon \in BOOLEAN, NEW found \in BOOLEAN,
         RecordPosition(u, soon, found)
  PROVE  PositionInv'
  <1> USE DEF PositionInv
  <1>1. /\ InTrip(u) /\ UNCHANGED <<trip, starting, minute>>
        /\ upload' \in [Uploads -> Upload] /\ upload'[u].phase = "idle"
        /\ \A w \in Uploads \ {u} : upload'[w] = upload[w]
    BY PositionWritten, NothingFields DEF Rests, TrackingTypeOK
  <1>2. CASE position' = position
    <2>1. Uploading(u)
      BY <1>1, NothingFields, PositionWritten DEF Uploading, InTrip, HoldsPilot, Rests, TrackingTypeOK
    <2> QED
      BY <1>1, <1>2, <2>1, UploadGoesOn
  <1>3. ASSUME NEW new, Writes(u, new) PROVE PositionInv'
    <2> DEFINE r == upload[u].trip
    <2>1. /\ new \in Position /\ new.stored /\ new.driver = upload[u].driver
          /\ new.etaStop # 0 => new.etaFrom + Fresh >= new.asked
      BY <1>3 DEF Writes
    <2>2. r \in Trips /\ trip[r].status = "in_corso"
      BY <1>1 DEF UploadsHoldRoutes, InTrip
    <2>3. /\ position' \in [Trips -> Position] /\ position'[r] = new
          /\ \A s \in Trips \ {r} :
               position'[s] = IF s \in upload[u].clears THEN NoPosition ELSE position[s]
      BY <1>3, <2>1, <2>2, NothingFields DEF Writes, TrackingTypeOK
    <2>4. TrackingTypeOK'
      BY <1>1, <2>1, <2>3, NothingFields DEF TrackingTypeOK
    <2>5. UploadsHoldRoutes' /\ PilotsAreHeldOnce'
      BY <1>1 DEF UploadsHoldRoutes, PilotsAreHeldOnce, InTrip, HoldsPilot
    <2>6. ClearsAreComplete'
      <3> SUFFICES ASSUME NEW w \in Uploads, InTrip(w)', upload'[w].driver # NoPilot,
                          NEW s \in Trips \ {upload'[w].trip},
                          position'[s].stored, position'[s].driver = upload'[w].driver
                   PROVE  s \in upload'[w].clears
        BY DEF ClearsAreComplete
      <3>1. w # u /\ upload'[w] = upload[w]
        BY <1>1 DEF InTrip
      <3>2. upload[w].driver # upload[u].driver
        BY <1>1, <3>1 DEF PilotsAreHeldOnce, HoldsPilot, InTrip
      <3>3. position'[s] = position[s]
        BY <2>1, <2>3, <3>1, <3>2, NothingFields
      <3> QED
        BY <3>1, <3>3 DEF ClearsAreComplete, InTrip
    <2>7. PositionsEndWithTheRoute'
      BY <1>1, <2>2, <2>3, NothingFields DEF PositionsFollowTheRoute, PositionsEndWithTheRoute
    <2>8. \A s \in Trips \ {r} :
            position'[s].stored /\ upload[u].driver # NoPilot => position'[s].driver # upload[u].driver
      BY <1>1, <2>3, NothingFields DEF ClearsAreComplete, InTrip
    <2>9. DriverIsInOnePlace'
      BY <2>1, <2>2, <2>3, <2>8, NothingFields DEF PositionsFollowTheRoute, DriverIsInOnePlace
    <2>10. EtaIsOfLastAttempt'
      BY <2>1, <2>2, <2>3, NothingFields DEF PositionsFollowTheRoute, EtaIsOfLastAttempt, Fresh
    <2> QED
      BY <2>4, <2>5, <2>6, <2>7, <2>9, <2>10 DEF PositionsFollowTheRoute
  <1> QED
    BY <1>2, <1>3, PositionWritten

(* Every step keeps the invariant.                                         *)
LEMMA PositionStep == PositionInv /\ [TrackingNext]_trackingVars => PositionInv'
  <1> SUFFICES ASSUME PositionInv, [TrackingNext]_trackingVars PROVE PositionInv'
    OBVIOUS
  <1>1. CASE UNCHANGED trackingVars
    BY <1>1 DEF trackingVars, PositionInv, TrackingTypeOK, UploadsHoldRoutes, PilotsAreHeldOnce,
       ClearsAreComplete, PositionsFollowTheRoute, PositionsEndWithTheRoute, DriverIsInOnePlace,
       EtaIsOfLastAttempt, InTrip, HoldsPilot
  <1>2. ASSUME NEW u \in Uploads, NEW soon \in BOOLEAN, NEW found \in BOOLEAN,
               RecordPosition(u, soon, found)
        PROVE  PositionInv'
    BY <1>2, RecordSteps
  <1>3. ASSUME NEW u \in Uploads,
               \/ \E r \in Trips, at \in 0..MaxMinutes : ReadTrip(u, r, at)
               \/ LockPilot(u) \/ LockTrip(u) \/ AbandonUpload(u)
        PROVE  PositionInv'
    BY <1>3, UploadSteps
  <1> QED
    BY <1>1, <1>2, <1>3, RouteSteps DEF TrackingNext

(* A position that is written again for the same driver is a later one.    *)
LEMMA ForwardStep ==
  ASSUME PositionInv, [TrackingNext]_trackingVars, NEW r \in Trips,
         position[r].stored, position'[r].stored, position[r].driver = position'[r].driver
  PROVE  position'[r].captured >= position[r].captured
  <1> SUFFICES ASSUME position'[r] # position[r]
               PROVE  position'[r].captured >= position[r].captured
    BY TrackingTypes DEF PositionInv
  <1>1. ASSUME NEW u \in Uploads, NEW new, Writes(u, new)
        PROVE  position'[r].captured >= position[r].captured
    <2>1. upload[u].trip = r => position'[r] = new
      BY <1>1 DEF Writes
    <2>2. upload[u].trip # r => position'[r] = NoPosition
      BY <1>1 DEF Writes
    <2>3. upload[u].trip = r /\ new.captured > position[r].captured
      BY <1>1, <2>1, <2>2, NothingFields DEF Writes
    <2>4. new.captured \in Nat /\ position[r].captured \in Nat
      BY <1>1, TrackingTypes DEF Writes, PositionInv, Position
    <2> QED
      BY <2>1, <2>3, <2>4
  <1>2. ASSUME NEW u \in Uploads, NEW soon \in BOOLEAN, NEW found \in BOOLEAN,
               RecordPosition(u, soon, found)
        PROVE  position'[r].captured >= position[r].captured
    BY <1>1, <1>2, PositionWritten
  <1>3. ASSUME NEW s \in Trips, position' = Closed(s) PROVE FALSE
    BY <1>3, NothingFields DEF Closed, PositionInv, TrackingTypeOK
  <1>4. ~CleanupPositions
    BY NothingFields DEF CleanupPositions
  <1> QED
    BY <1>2, <1>3, <1>4 DEF TrackingNext, trackingVars, ReadTrip, LockPilot, LockTrip, AbandonUpload,
       LockForStart, StartTrip, FailStart, DeliverNext, EndTrip, GiveTrip, MinutePasses

(* No position is stored at first.                                         *)
LEMMA PositionBegins == TrackingInit => PositionInv
  <1> SUFFICES ASSUME TrackingInit PROVE PositionInv
    OBVIOUS
  <1>1. /\ trip \in [Trips -> Trip]
        /\ \A r \in Trips : position[r] = NoPosition
        /\ \A u \in Uploads : upload[u] = Resting
    BY TrackingAssumption DEF TrackingInit, Trip
  <1>2. TrackingTypeOK
    BY <1>1, NothingFields, TrackingAssumption DEF TrackingInit, TrackingTypeOK
  <1> QED
    BY <1>1, <1>2, NothingFields
       DEF PositionInv, UploadsHoldRoutes, PilotsAreHeldOnce, ClearsAreComplete, InTrip, HoldsPilot,
           PositionsFollowTheRoute, PositionsEndWithTheRoute, DriverIsInOnePlace, EtaIsOfLastAttempt

(* However late, often or out of order positions are uploaded while routes *)
(* are started, closed and given to others: what is shown of a driver is   *)
(* of the route that he is on, of one place, and moves forward             *)
(* (live_tracking.py).                                                     *)
THEOREM PositionsTrue == TrackingSpec => PositionsAreTrue
  <1>1. TrackingInit => PositionInv
    BY PositionBegins
  <1>2. PositionInv => PositionsFollowTheRoute
    BY DEF PositionInv
  <1>3. PositionInv /\ [TrackingNext]_trackingVars =>
          [\A r \in Trips :
             position[r].stored /\ position'[r].stored /\ position[r].driver = position'[r].driver
               => position'[r].captured >= position[r].captured]_trackingVars
    BY ForwardStep
  <1>4. TrackingSpec => []PositionsFollowTheRoute
    BY <1>1, <1>2, PositionStep, PTL DEF TrackingSpec
  <1>5. TrackingSpec => PositionMovesForward
    BY <1>1, <1>3, PositionStep, PTL DEF TrackingSpec, PositionMovesForward
  <1> QED
    BY <1>4, <1>5, PTL DEF PositionsAreTrue

-----------------------------------------------------------------------------
(* Bookings: times.                                                        *)

(* What the variables of the day book are, field by field.                 *)
LEMMA DayTypes ==
  ASSUME DayBookTypeOK
  PROVE  /\ DaySlots \in Nat /\ now \in Nat
         /\ \A r \in BookedRoutes : /\ book[r] \in BookedRoute /\ book[r].times \in Times
                                    /\ book[r].began \in Nat
         /\ \A q \in Bookers : booker[q] \in Booker /\ booker[q].times \in Times
  <1>1. DaySlots \in Nat /\ now \in Nat
    BY DayBookAssumption DEF DayBookTypeOK
  <1>2. \A r \in BookedRoutes : book[r] \in BookedRoute
    BY DEF DayBookTypeOK
  <1>3. \A q \in Bookers : booker[q] \in Booker
    BY DEF DayBookTypeOK
  <1> QED
    BY <1>1, <1>2, <1>3 DEF BookedRoute, Booker

(* The times of a route, in numbers.                                       *)
LEMMA TimesFields ==
  ASSUME NEW x \in Times
  PROVE  /\ DaySlots \in Nat \ {0} /\ x.day \in Nat /\ x.start \in Nat /\ x.start < DaySlots
         /\ x.length \in Nat /\ 0 < x.length /\ x.length < DaySlots /\ x.crew \subseteq Crew
         /\ StartsAt(x) \in Nat
  <1>1. DaySlots \in Nat /\ Lengths \subseteq 1..(DaySlots - 1)
    BY DayBookAssumption
  <1>2. x.day \in Nat /\ x.start \in 0..(DaySlots - 1) /\ x.length \in Lengths /\ x.crew \subseteq Crew
    BY DEF Times
  <1>3. x.length \in 1..(DaySlots - 1)
    BY <1>1, <1>2
  <1>4. x.day * DaySlots \in Nat
    BY <1>1, <1>2
  <1> QED
    BY <1>1, <1>2, <1>3, <1>4 DEF StartsAt

(* A sum of two slots of a day, as a time of day.                          *)
LEMMA TimeOfDay ==
  ASSUME NEW n \in Nat \ {0}, NEW a \in Nat, a < 2 * n
  PROVE  a % n = IF a < n THEN a ELSE a - n
  <1>1. CASE a < n
    BY <1>1
  <1>2. CASE a >= n
    <2>1. a - n \in Nat /\ a - n < n
      BY <1>2
    <2>2. a = 1 * n + (a - n)
      BY <2>1
    <2> QED
      BY <1>2, <2>1, <2>2
  <1> QED
    BY <1>1, <1>2

(* The stored time of day stands for the moment at which the route is over.*)
LEMMA ReturnsWhenOver ==
  ASSUME NEW x \in Times
  PROVE  Returns(x) = StartsAt(x) + x.length
  <1> DEFINE sum == x.start + x.length
             back == sum % DaySlots
  <1>1. /\ DaySlots \in Nat \ {0} /\ x.start \in Nat /\ x.start < DaySlots /\ x.day \in Nat
        /\ x.length \in Nat /\ 0 < x.length /\ x.length < DaySlots
    BY TimesFields
  <1>2. sum \in Nat /\ sum < 2 * DaySlots
    BY <1>1
  <1>3. back = IF sum < DaySlots THEN sum ELSE sum - DaySlots
    BY <1>1, <1>2, TimeOfDay
  <1>4. x.day * DaySlots \in Nat
    BY <1>1
  <1>5. Returns(x) = x.day * DaySlots + back + (IF back < x.start THEN DaySlots ELSE 0)
    BY DEF Returns
  <1> HIDE DEF back
  <1> QED
    BY <1>1, <1>3, <1>4, <1>5 DEF StartsAt

(* Routes of a day start before those of the next.                         *)
LEMMA NextDayIsLater ==
  ASSUME NEW x \in Times, NEW y \in Times, x.day + 1 = y.day
  PROVE  StartsAt(x) < StartsAt(y)
  <1>1. /\ DaySlots \in Nat /\ x.day \in Nat /\ y.day = x.day + 1 /\ x.start \in Nat
        /\ x.start < DaySlots /\ y.start \in Nat
    BY TimesFields
  <1>2. y.day * DaySlots = x.day * DaySlots + DaySlots
    BY <1>1
  <1>3. x.day * DaySlots \in Nat
    BY <1>1
  <1> QED
    BY <1>1, <1>2, <1>3 DEF StartsAt

(* A route that does not collide is apart from every programmed one of its *)
(* day, and starts after those of the day before have come back.           *)
LEMMA FitsApart ==
  ASSUME DayBookTypeOK, NEW r \in BookedRoutes, NEW x \in Times, FitsWith(r, x),
         NEW s \in BookedRoutes \ {r}, book[s].status = "programmato",
         x.crew \cap book[s].times.crew # {},
         x.day \in {book[s].times.day, book[s].times.day + 1}
  PROVE  /\ Returns(x) <= StartsAt(book[s].times) \/ Returns(book[s].times) <= StartsAt(x)
         /\ x.day = book[s].times.day + 1 => Returns(book[s].times) <= StartsAt(x)
  <1> DEFINE y == book[s].times
  <1>1. s \in Candidates(r, x)
    BY DEF Candidates
  <1>2. s \notin Conflicts(r, x)
    BY DEF FitsWith
  <1>3. ~(StartsAt(x) < BusyUntil(book[s]) /\ BusyFrom(book[s]) < StartsAt(x) + x.length)
    BY <1>1, <1>2 DEF Conflicts
  <1>4. BusyUntil(book[s]) = Returns(y) /\ BusyFrom(book[s]) = StartsAt(y)
    BY DEF BusyUntil, BusyFrom
  <1>5. y \in Times
    BY DayTypes
  <1> HIDE DEF y
  <1>6. /\ StartsAt(x) \in Nat /\ StartsAt(y) \in Nat /\ x.length \in Nat /\ y.length \in Nat
        /\ Returns(x) = StartsAt(x) + x.length /\ Returns(y) = StartsAt(y) + y.length
        /\ 0 < x.length
    BY <1>5, TimesFields, ReturnsWhenOver
  <1>7. x.day = y.day + 1 => StartsAt(y) < StartsAt(x)
    BY <1>5, NextDayIsLater
  <1> QED
    BY <1>3, <1>4, <1>6, <1>7 DEF y

-----------------------------------------------------------------------------
(* Bookings: the invariant.                                                *)

BookingInv ==
  /\ DayBookTypeOK
  /\ \A q \in Bookers : booker[q].phase = "refreshing" => booker[q].route \in BookedRoutes
  /\ BookingsAreApart

(* What a request holds that does nothing.                                 *)
LEMMA FreeFields == Free \in Booker /\ Free.phase = "idle"
  <1>1. SomeTimes \in Drafts
    BY DayBookAssumption DEF SomeTimes
  <1> QED
    BY <1>1, DayBookAssumption DEF Free, Booker

(* The requests are well formed after a step.                              *)
BookersHold ==
  /\ booker' \in [Bookers -> Booker]
  /\ \A q \in Bookers : booker'[q].phase = "refreshing" => booker'[q].route \in BookedRoutes

(* A request takes up another state.                                       *)
LEMMA BookerChanges ==
  ASSUME BookingInv, NEW q \in Bookers, NEW new \in Booker, booker' = [booker EXCEPT ![q] = new],
         new.phase = "refreshing" => new.route \in BookedRoutes
  PROVE  BookersHold
  BY DEF BookingInv, DayBookTypeOK, BookersHold

(* A request that learns of a result is as it was, otherwise.              *)
LEMMA ToldFields ==
  ASSUME BookingInv, NEW r
  PROVE  /\ Told(r) \in [Bookers -> Booker]
         /\ \A q \in Bookers : Told(r)[q].phase = booker[q].phase /\ Told(r)[q].route = booker[q].route
  <1>1. ASSUME NEW q \in Bookers
        PROVE  /\ Told(r)[q] \in Booker
               /\ Told(r)[q].phase = booker[q].phase /\ Told(r)[q].route = booker[q].route
    <2>1. booker[q] \in Booker
      BY DayTypes DEF BookingInv
    <2>2. Told(r)[q] = IF booker[q].phase = "refreshing" /\ booker[q].route = r
                         THEN [booker[q] EXCEPT !.answered = TRUE] ELSE booker[q]
      BY DEF Told
    <2> QED
      BY <2>1, <2>2 DEF Booker
  <1>2. Told(r) = [q \in Bookers |-> Told(r)[q]]
    BY DEF Told
  <1> QED
    BY <1>1, <1>2

(* Requests change, and no route does.                                     *)
LEMMA OnlyBookers ==
  ASSUME BookingInv, BookersHold, UNCHANGED <<book, loose>>, now' \in Nat
  PROVE  BookingInv'
  <1>1. DayBookTypeOK'
    BY DEF BookingInv, BookersHold, DayBookTypeOK
  <1>2. BookingsAreApart'
    BY DEF BookingInv, BookingsAreApart, Returns, StartsAt
  <1> QED
    BY <1>1, <1>2 DEF BookingInv, BookersHold

(* One route is written: if it ends up programmed, it is loose or was      *)
(* compared with the times that it has.                                    *)
WritesRoute(r) ==
  LET new == book'[r] IN
  /\ book' \in [BookedRoutes -> BookedRoute] /\ \A s \in BookedRoutes \ {r} : book'[s] = book[s]
  /\ UNCHANGED now
  /\ \/ new.status # "programmato" /\ loose' \in {loose, loose \cup {r}}
     \/ loose' = loose \cup {r}
     \/ loose' = loose \ {r} /\ FitsWith(r, new.times)

(* A route that is written keeps the bookings.                             *)
LEMMA RouteIsWritten ==
  ASSUME BookingInv, BookersHold, NEW r \in BookedRoutes, WritesRoute(r)
  PROVE  BookingInv'
  <1> DEFINE new == book'[r]
  <1>1. /\ new \in BookedRoute /\ book' \in [BookedRoutes -> BookedRoute] /\ book'[r] = new
        /\ \A s \in BookedRoutes \ {r} : book'[s] = book[s]
    BY DEF WritesRoute, BookingInv, DayBookTypeOK
  <1>2. DayBookTypeOK'
    BY <1>1 DEF WritesRoute, BookingInv, BookersHold, DayBookTypeOK
  <1>3. ASSUME NEW s \in BookedRoutes \ {r}, book[s].status = "programmato",
               s \notin loose', r \notin loose', new.status = "programmato",
               new.times.day = book[s].times.day,
               new.times.crew \cap book[s].times.crew # {}
        PROVE  \/ Returns(new.times) <= StartsAt(book[s].times)
               \/ Returns(book[s].times) <= StartsAt(new.times)
    <2>1. FitsWith(r, new.times)
      BY <1>3 DEF WritesRoute
    <2>2. new.times \in Times
      BY <1>1 DEF BookedRoute
    <2> QED
      BY <1>3, <2>1, <2>2, FitsApart DEF BookingInv
  <1>4. BookingsAreApart'
    <2> SUFFICES ASSUME NEW a \in BookedRoutes, NEW b \in BookedRoutes,
                        a \notin loose', b \notin loose', a # b,
                        book'[a].status = "programmato", book'[b].status = "programmato",
                        book'[a].times.day = book'[b].times.day,
                        book'[a].times.crew \cap book'[b].times.crew # {}
                 PROVE  \/ Returns(book'[a].times) <= StartsAt(book'[b].times)
                        \/ Returns(book'[b].times) <= StartsAt(book'[a].times)
      BY DEF BookingsAreApart, Returns, StartsAt
    <2>1. CASE a # r /\ b # r
      <3>1. a \notin loose /\ b \notin loose
        BY <2>1 DEF WritesRoute
      <3> QED
        BY <1>1, <2>1, <3>1 DEF BookingInv, BookingsAreApart
    <2>2. CASE a = r
      BY <1>1, <1>3, <2>2
    <2>3. CASE b = r
      BY <1>1, <1>3, <2>3
    <2> QED
      BY <2>1, <2>2, <2>3
  <1> QED
    BY <1>2, <1>4 DEF BookingInv, BookersHold

(* A computation is compared, saved or given up, and traffic is asked for. *)
LEMMA BookerSteps ==
  ASSUME BookingInv, NEW q \in Bookers,
         \/ \E r \in BookedRoutes \cup {NewRoute}, x \in Drafts : CompareBookings(q, r, x)
         \/ \E r \in BookedRoutes : SaveRoute(q, r) \/ AskTraffic(q, r)
         \/ Abandon(q)
  PROVE  BookingInv'
  <1>t. /\ book \in [BookedRoutes -> BookedRoute] /\ booker \in [Bookers -> Booker] /\ now \in Nat
        /\ DayBookTypeOK
    BY DEF BookingInv, DayBookTypeOK
  <1>1. ASSUME NEW r \in BookedRoutes \cup {NewRoute}, NEW x \in Drafts, CompareBookings(q, r, x)
        PROVE  BookingInv'
    <2> DEFINE seen == IF r = NewRoute THEN "bozza" ELSE book[r].status
               new == [Free EXCEPT !.phase = "compared", !.route = r, !.times = x, !.seen = seen]
    <2>1. booker' = [booker EXCEPT ![q] = new] /\ UNCHANGED <<book, now, loose>>
      BY <1>1 DEF CompareBookings
    <2>2. seen \in {"bozza", "programmato"} /\ x \in Times
      BY <1>1, DayBookAssumption DEF CompareBookings, Open
    <2> HIDE DEF seen
    <2>3. new \in Booker /\ new.phase = "compared"
      BY <2>2, FreeFields DEF Booker
    <2> HIDE DEF new
    <2>4. BookersHold
      BY <2>1, <2>3, BookerChanges
    <2> QED
      BY <1>t, <2>1, <2>4, OnlyBookers
  <1>2. booker' = [booker EXCEPT ![q] = Free] => BookersHold
    BY FreeFields, BookerChanges
  <1>3. ASSUME NEW r \in BookedRoutes, SaveRoute(q, r) PROVE BookingInv'
    <2>1. /\ book' = [book EXCEPT ![r] =
               [@ EXCEPT !.times = booker[q].times, !.timed = FALSE,
                         !.status = IF book[r].status = "assente" THEN "bozza" ELSE book[r].status]]
          /\ loose' = IF Booked(r) THEN loose \cup {r} ELSE loose
          /\ booker' = [booker EXCEPT ![q] = Free] /\ UNCHANGED now
      BY <1>3 DEF SaveRoute
    <2>2. book[r] \in BookedRoute /\ booker[q].times \in Times
      BY <1>t, DayTypes
    <2>3. /\ book'[r] \in BookedRoute
          /\ book'[r].status = IF book[r].status = "assente" THEN "bozza" ELSE book[r].status
          /\ \A s \in BookedRoutes \ {r} : book'[s] = book[s]
      BY <1>t, <2>1, <2>2 DEF BookedRoute
    <2>4. book' \in [BookedRoutes -> BookedRoute]
      BY <1>t, <2>1, <2>3
    <2>5. book'[r].status = "programmato" => loose' = loose \cup {r}
      BY <2>1, <2>3 DEF Booked
    <2>6. loose' \in {loose, loose \cup {r}}
      BY <2>1
    <2>7. WritesRoute(r)
      BY <2>1, <2>3, <2>4, <2>5, <2>6 DEF WritesRoute
    <2> QED
      BY <1>2, <2>1, <2>7, RouteIsWritten
  <1>4. ASSUME NEW r \in BookedRoutes, AskTraffic(q, r) PROVE BookingInv'
    <2> DEFINE new == [Free EXCEPT !.phase = "refreshing", !.route = r]
    <2>1. booker' = [booker EXCEPT ![q] = new] /\ UNCHANGED <<book, now, loose>>
      BY <1>4 DEF AskTraffic
    <2>2. new \in Booker /\ new.route = r
      BY FreeFields DEF Booker
    <2> HIDE DEF new
    <2>3. BookersHold
      BY <2>1, <2>2, BookerChanges
    <2> QED
      BY <1>t, <2>1, <2>3, OnlyBookers
  <1>5. CASE Abandon(q)
    BY <1>t, <1>2, <1>5, OnlyBookers DEF Abandon
  <1> QED
    BY <1>1, <1>3, <1>4, <1>5

(* Traffic that is asked for again, and requests that it is told to.       *)
LEMMA TrafficSteps ==
  ASSUME BookingInv, NEW q \in Bookers, NEW length \in Lengths, RefreshTraffic(q, length)
  PROVE  BookingInv'
  <1> DEFINE r == booker[q].route
  <1>t. /\ book \in [BookedRoutes -> BookedRoute] /\ booker \in [Bookers -> Booker] /\ now \in Nat
        /\ DayBookTypeOK
    BY DEF BookingInv, DayBookTypeOK
  <1>1. r \in BookedRoutes /\ now' = now
    BY DEF RefreshTraffic, BookingInv
  <1>2. CASE booker' = [booker EXCEPT ![q] = Free] /\ UNCHANGED <<book, loose>>
    BY <1>t, <1>1, <1>2, FreeFields, BookerChanges, OnlyBookers
  <1>3. CASE /\ book' = [book EXCEPT ![r] = [@ EXCEPT !.times.length = length, !.timed = TRUE]]
             /\ loose' = IF Booked(r) THEN loose \cup {r} ELSE loose
             /\ booker' = [Told(r) EXCEPT ![q] = Free]
    <2>1. book[r] \in BookedRoute /\ book[r].times \in Times
      BY <1>t, <1>1, DayTypes
    <2>2. [book[r].times EXCEPT !.length = length] \in Times
      BY <2>1 DEF Times
    <2>3. book'[r] \in BookedRoute /\ book'[r].status = book[r].status
      BY <1>1, <1>3, <1>t, <2>1, <2>2 DEF BookedRoute
    <2>4. book' \in [BookedRoutes -> BookedRoute] /\ \A s \in BookedRoutes \ {r} : book'[s] = book[s]
      BY <1>3, <1>t, <2>3
    <2>5. BookersHold
      BY <1>3, ToldFields, FreeFields DEF BookersHold, BookingInv
    <2>6. book'[r].status = "programmato" => loose' = loose \cup {r}
      BY <1>3, <2>3 DEF Booked
    <2>7. WritesRoute(r)
      BY <1>1, <1>3, <2>3, <2>4, <2>6 DEF WritesRoute
    <2> QED
      BY <1>1, <2>5, <2>7, RouteIsWritten
  <1> QED
    BY <1>2, <1>3 DEF RefreshTraffic

(* What programming does to a route, whether it fits or not.               *)
LEMMA ProgramFields ==
  ASSUME BookingInv, NEW r \in BookedRoutes, NEW length \in Lengths, ProgramRoute(r, length)
  PROVE  /\ WritesRoute(r) /\ BookersHold
         /\ book'[r].times \in Times /\ book'[r].status \in Open
         /\ book[r].status = "bozza" /\ book'[r].status = "programmato" =>
              FitsWith(r, book'[r].times)
  <1> DEFINE x == [book[r].times EXCEPT !.length = length]
  <1>t. book \in [BookedRoutes -> BookedRoute] /\ booker \in [Bookers -> Booker] /\ DayBookTypeOK
    BY DEF BookingInv, DayBookTypeOK
  <1>1. /\ book[r].status \in Open
        /\ book' = [book EXCEPT ![r] =
             [@ EXCEPT !.times = x, !.timed = TRUE,
                       !.status = IF FitsWith(r, x) THEN "programmato" ELSE book[r].status]]
        /\ loose' = IF FitsWith(r, x) THEN loose \ {r}
                    ELSE IF Booked(r) THEN loose \cup {r} ELSE loose
        /\ booker' = IF book[r].timed THEN booker ELSE Told(r)
        /\ UNCHANGED now
    BY DEF ProgramRoute
  <1>2. book[r] \in BookedRoute /\ book[r].times \in Times
    BY <1>t, DayTypes
  <1>3. x \in Times
    BY <1>2 DEF Times
  <1> HIDE DEF x
  <1>4. /\ book'[r] \in BookedRoute /\ book'[r].times = x
        /\ book'[r].status = IF FitsWith(r, x) THEN "programmato" ELSE book[r].status
    BY <1>1, <1>t, <1>2, <1>3 DEF BookedRoute
  <1>5. book' \in [BookedRoutes -> BookedRoute] /\ \A s \in BookedRoutes \ {r} : book'[s] = book[s]
    BY <1>1, <1>t, <1>4
  <1>6. WritesRoute(r)
    <2>1. CASE FitsWith(r, x)
      BY <1>1, <1>4, <1>5, <2>1 DEF WritesRoute
    <2>2. CASE ~FitsWith(r, x)
      <3>1. book'[r].status = "programmato" => loose' = loose \cup {r}
        BY <1>1, <1>4, <2>2 DEF Booked
      <3>2. loose' \in {loose, loose \cup {r}}
        BY <1>1, <2>2
      <3> QED
        BY <1>1, <1>5, <3>1, <3>2 DEF WritesRoute
    <2> QED
      BY <2>1, <2>2
  <1>7. BookersHold
    BY <1>1, <1>t, ToldFields DEF BookersHold, BookingInv
  <1> QED
    BY <1>1, <1>3, <1>4, <1>6, <1>7 DEF Open

(* A route is started, closed or called off.                               *)
LEMMA DaySteps ==
  ASSUME BookingInv, NEW r \in BookedRoutes, BeginRoute(r) \/ CloseBooking(r) \/ CallOff(r)
  PROVE  /\ BookingInv'
         /\ book'[r].status # "programmato" /\ \A s \in BookedRoutes \ {r} : book'[s] = book[s]
  <1>t. /\ book \in [BookedRoutes -> BookedRoute] /\ booker \in [Bookers -> Booker] /\ now \in Nat
        /\ book[r] \in BookedRoute
    BY DEF BookingInv, DayBookTypeOK
  <1>1. UNCHANGED <<booker, now, loose>>
    BY DEF BeginRoute, CloseBooking, CallOff
  <1>2. BookersHold
    BY <1>1 DEF BookersHold, BookingInv, DayBookTypeOK
  <1>3. /\ book'[r] \in BookedRoute /\ book'[r].status # "programmato"
        /\ book' \in [BookedRoutes -> BookedRoute]
        /\ \A s \in BookedRoutes \ {r} : book'[s] = book[s]
    <2>1. CASE BeginRoute(r)
      <3>1. book' = [book EXCEPT ![r] = [@ EXCEPT !.status = "in_corso", !.began = now]]
        BY <2>1 DEF BeginRoute
      <3>2. book'[r] \in BookedRoute /\ book'[r].status = "in_corso"
        BY <1>t, <3>1 DEF BookedRoute
      <3> QED
        BY <1>t, <3>1, <3>2
    <2>2. CASE CloseBooking(r)
      <3>1. book' = [book EXCEPT ![r].status = "completato"]
        BY <2>2 DEF CloseBooking
      <3>2. book'[r] \in BookedRoute /\ book'[r].status = "completato"
        BY <1>t, <3>1 DEF BookedRoute
      <3> QED
        BY <1>t, <3>1, <3>2
    <2>3. CASE CallOff(r)
      <3>1. book' = [book EXCEPT ![r].status = "annullato"]
        BY <2>3 DEF CallOff
      <3>2. book'[r] \in BookedRoute /\ book'[r].status = "annullato"
        BY <1>t, <3>1 DEF BookedRoute
      <3> QED
        BY <1>t, <3>1, <3>2
    <2> QED
      BY <2>1, <2>2, <2>3
  <1>4. WritesRoute(r)
    BY <1>1, <1>3 DEF WritesRoute
  <1> QED
    BY <1>2, <1>3, <1>4, RouteIsWritten

(* Every step keeps the invariant.                                         *)
LEMMA BookingStep == BookingInv /\ [DayBookNext]_dayVars => BookingInv'
  <1> SUFFICES ASSUME BookingInv, [DayBookNext]_dayVars PROVE BookingInv'
    OBVIOUS
  <1>1. CASE UNCHANGED dayVars
    BY <1>1 DEF dayVars, BookingInv, DayBookTypeOK, BookingsAreApart, Returns, StartsAt
  <1>2. ASSUME NEW q \in Bookers, NEW length \in Lengths, RefreshTraffic(q, length)
        PROVE  BookingInv'
    BY <1>2, TrafficSteps
  <1>3. ASSUME NEW q \in Bookers,
               \/ \E r \in BookedRoutes \cup {NewRoute}, x \in Drafts : CompareBookings(q, r, x)
               \/ \E r \in BookedRoutes : SaveRoute(q, r) \/ AskTraffic(q, r)
               \/ Abandon(q)
        PROVE  BookingInv'
    BY <1>3, BookerSteps
  <1>4. ASSUME NEW r \in BookedRoutes, NEW length \in Lengths, ProgramRoute(r, length)
        PROVE  BookingInv'
    BY <1>4, ProgramFields, RouteIsWritten
  <1>5. ASSUME NEW r \in BookedRoutes, BeginRoute(r) \/ CloseBooking(r) \/ CallOff(r)
        PROVE  BookingInv'
    BY <1>5, DaySteps
  <1>6. CASE Tick
    <2>1. BookersHold
      BY <1>6 DEF Tick, BookersHold, BookingInv, DayBookTypeOK
    <2> QED
      BY <1>6, <2>1, OnlyBookers, DayBookAssumption DEF Tick
  <1> QED
    BY <1>1, <1>2, <1>3, <1>4, <1>5, <1>6 DEF DayBookNext

(* A route becomes programmed only when it is compared.                    *)
LEMMA NightStep ==
  ASSUME BookingInv, [DayBookNext]_dayVars, NEW r \in BookedRoutes, NEW s \in BookedRoutes,
         r # s, book[s].status = "programmato", book[s].times.day + 1 = book'[r].times.day,
         book[r].status = "bozza", book'[r].status = "programmato",
         book'[r].times.crew \cap book[s].times.crew # {}
  PROVE  Returns(book[s].times) <= StartsAt(book'[r].times)
  <1>t. DayBookTypeOK /\ book \in [BookedRoutes -> BookedRoute]
    BY DEF BookingInv, DayBookTypeOK
  <1>1. ASSUME NEW q \in Bookers, NEW a \in BookedRoutes, SaveRoute(q, a) PROVE FALSE
    <2>1. \/ book'[r] = book[r]
          \/ book'[r] = [book[r] EXCEPT !.times = booker[q].times, !.timed = FALSE,
                          !.status = IF book[r].status = "assente" THEN "bozza" ELSE book[r].status]
      BY <1>1, <1>t DEF SaveRoute
    <2> QED
      BY <1>t, <2>1 DEF BookedRoute
  <1>2. ASSUME NEW q \in Bookers, NEW length \in Lengths, RefreshTraffic(q, length) PROVE FALSE
    <2>1. \/ book'[r] = book[r]
          \/ book'[r] = [book[r] EXCEPT !.times.length = length, !.timed = TRUE]
      BY <1>2, <1>t DEF RefreshTraffic
    <2> QED
      BY <1>t, <2>1 DEF BookedRoute
  <1>3. ASSUME NEW a \in BookedRoutes, BeginRoute(a) \/ CloseBooking(a) \/ CallOff(a) PROVE FALSE
    BY <1>3, DaySteps
  <1>4. ASSUME NEW a \in BookedRoutes, NEW length \in Lengths, ProgramRoute(a, length)
        PROVE  Returns(book[s].times) <= StartsAt(book'[r].times)
    <2>1. a = r
      BY <1>4, ProgramFields DEF WritesRoute
    <2>2. book'[r].times \in Times /\ FitsWith(r, book'[r].times)
      BY <1>4, <2>1, ProgramFields
    <2>3. book'[r].times.day = book[s].times.day + 1
      OBVIOUS
    <2> QED
      BY <1>t, <2>2, <2>3, FitsApart
  <1>5. book' # book
    BY DEF BookingInv
  <1>6. \/ \E q \in Bookers, a \in BookedRoutes : SaveRoute(q, a)
        \/ \E q \in Bookers, length \in Lengths : RefreshTraffic(q, length)
        \/ \E a \in BookedRoutes : BeginRoute(a) \/ CloseBooking(a) \/ CallOff(a)
        \/ \E a \in BookedRoutes, length \in Lengths : ProgramRoute(a, length)
    BY <1>5 DEF DayBookNext, dayVars, CompareBookings, AskTraffic, Abandon, Tick
  <1> QED
    BY <1>1, <1>2, <1>3, <1>4, <1>6

(* No route is booked at first.                                            *)
LEMMA BookingBegins == DayBookInit => BookingInv
  <1> SUFFICES ASSUME DayBookInit PROVE BookingInv
    OBVIOUS
  <1>1. SomeTimes \in Times
    BY DayBookAssumption DEF SomeTimes
  <1>2. DayBookTypeOK
    BY <1>1, FreeFields DEF DayBookInit, DayBookTypeOK, BookedRoute
  <1>3. /\ \A r \in BookedRoutes : book[r].status = "assente"
        /\ \A q \in Bookers : booker[q].phase = "idle"
    BY FreeFields DEF DayBookInit
  <1> QED
    BY <1>2, <1>3 DEF BookingInv, BookingsAreApart

(* In whatever order routes are computed, saved, timed with new traffic,   *)
(* programmed and started, no driver or vehicle is promised twice for one  *)
(* time of a day, or into a night that is still being driven               *)
(* (scheduling.py, routes.py).                                             *)
THEOREM BookingsKept == DayBookSpec => BookingsAreKept
  <1>1. DayBookInit => BookingInv
    BY BookingBegins
  <1>2. BookingInv => BookingsAreApart
    BY DEF BookingInv
  <1>3. BookingInv /\ [DayBookNext]_dayVars =>
          [\A r, s \in BookedRoutes :
             /\ r # s /\ book[s].status = "programmato" /\ book[s].times.day + 1 = book'[r].times.day
             /\ book[r].status = "bozza" /\ book'[r].status = "programmato"
             /\ book'[r].times.crew \cap book[s].times.crew # {}
             => Returns(book[s].times) <= StartsAt(book'[r].times)]_dayVars
    BY NightStep
  <1>4. DayBookSpec => []BookingsAreApart
    BY <1>1, <1>2, BookingStep, PTL DEF DayBookSpec
  <1>5. DayBookSpec => NightIsSeen
    BY <1>1, <1>3, BookingStep, PTL DEF DayBookSpec, NightIsSeen
  <1> QED
    BY <1>4, <1>5, PTL DEF BookingsAreKept

-----------------------------------------------------------------------------
(* The composition that TLC runs.                                          *)

(* A step of the road is a step of each of its parts, or none.             *)
LEMMA RoadSteps ==
  ASSUME [RoadNext]_roadVars
  PROVE  [DayBookNext]_dayVars /\ [TrackingNext]_trackingVars /\ [TrackingLinksNext]_linkVars
  BY DEF RoadNext, DayBookPart, TrackingPart, LinksPart, roadVars

(* A behaviour of the road is a behaviour of each of its parts, so that    *)
(* what is true of a part alone is true of it on the road: its rows have   *)
(* their types (delivery_tracking.py, live_tracking.py, scheduling.py).    *)
THEOREM RoadIsTyped == RoadSpec => []RoadTypeOK
  <1>1. RoadSpec => DayBookSpec /\ TrackingSpec /\ TrackingLinksSpec
    <2>1. RoadInit => DayBookInit /\ TrackingInit /\ TrackingLinksInit
      BY DEF RoadInit
    <2>2. [RoadNext]_roadVars =>
            [DayBookNext]_dayVars /\ [TrackingNext]_trackingVars /\ [TrackingLinksNext]_linkVars
      BY RoadSteps
    <2> QED
      BY <2>1, <2>2, PTL DEF RoadSpec, DayBookSpec, TrackingSpec, TrackingLinksSpec
  <1>2. DayBookSpec => []BookingInv
    BY BookingBegins, BookingStep, PTL DEF DayBookSpec
  <1>3. TrackingSpec => []PositionInv
    BY PositionBegins, PositionStep, PTL DEF TrackingSpec
  <1>4. TrackingLinksSpec => []LinkInv
    BY LinkBegins, LinkStep, PTL DEF TrackingLinksSpec
  <1>5. BookingInv /\ PositionInv /\ LinkInv => RoadTypeOK
    BY DEF BookingInv, PositionInv, LinkInv, RoadTypeOK
  <1> QED
    BY <1>1, <1>2, <1>3, <1>4, <1>5, PTL

=============================================================================
