--------------------------- MODULE TrackingLinks ---------------------------
(***************************************************************************)
(* The links with which the customers of a route follow their deliveries.  *)
(*                                                                         *)
(* The office shares a delivery, revokes the link, and recalculates the    *)
(* route, which replaces all of its deliveries; a database may give the    *)
(* new ones the ids of the old ones.  A link says nothing about an order:  *)
(* it names a row that names a delivery.                                   *)
(***************************************************************************)
EXTENDS Naturals

CONSTANTS
  DeliveryIds,       (* Ids the database may give.                         *)
  Goods, NoGoods,    (* What is delivered, and what a free id delivers.    *)
  Selectors, NoLink, (* Random selectors, drawn once each.                 *)
  ShareDays,         (* The days after the route a link lasts, plus one.   *)
  LastDay            (* Bound: the calendar.                               *)

ASSUME TrackingLinksAssumption ==
  /\ NoGoods \notin Goods /\ NoLink \notin Selectors
  /\ ShareDays \in Nat /\ LastDay \in Nat

VARIABLES
  round,             (* The route: status and day.                         *)
  goods,             (* What the delivery with an id delivers.             *)
  link,              (* DeliveryTrackingLink rows, by delivery.            *)
  offered,           (* Whether the plan of the company includes tracking. *)
  day,               (* Today.                                             *)
  given              (* History: what each link was given out for, and the *)
                     (* answer to the last request for one.                *)

linkVars == <<round, goods, link, offered, day, given>>

-----------------------------------------------------------------------------

NoRow == [selector |-> NoLink, until |-> 0]

TrackingLinksTypeOK ==
  /\ round \in [status : {"bozza", "programmato", "in_corso", "completato", "annullato"},
                day : 0..LastDay]
  /\ goods \in [DeliveryIds -> Goods \cup {NoGoods}]
  /\ link \in [DeliveryIds -> [selector : Selectors \cup {NoLink}, until : Nat]]
  /\ offered \in BOOLEAN /\ day \in 0..LastDay
  /\ given \in [for : [Selectors -> Goods \cup {NoGoods}], last : Selectors \cup {NoLink}]
  /\ \A d \in DeliveryIds : link[d] # NoRow => link[d].selector # NoLink /\ link[d].until > 0

(* expiry_for: seven full days after the day of the route. *)
Expiry(on) == on + ShareDays

Rows(selector) == {d \in DeliveryIds : link[d].selector = selector}

(* resolve_link: what the page of a link is about, if there is one. *)
Opens(selector) ==
  {d \in Rows(selector) :
     /\ link[d].until > day
     /\ goods[d] # NoGoods /\ round.status # "bozza" /\ offered}

Answered(selector) == [given EXCEPT !.last = selector]

-----------------------------------------------------------------------------

(* Mutant: only the deliveries are replaced. *)
LinksAfterSave == link

(* "A recalculation replaces delivery identities: revoke capabilities in   *)
(* the same transaction."                                                  *)
LinksRevoked == [d \in DeliveryIds |-> NoRow]

SaveRound(new, on) ==
  /\ round.status \in {"bozza", "programmato"} /\ on >= day
  /\ round' = [round EXCEPT !.day = on]
  /\ goods' = new /\ link' = LinksRevoked
  /\ given' = Answered(NoLink)
  /\ UNCHANGED <<offered, day>>

Shareable(d) ==
  /\ goods[d] # NoGoods /\ offered
  /\ round.status \in {"programmato", "in_corso", "completato", "annullato"}

Lives(d) == link[d] # NoRow /\ link[d].until > day

(* A link that still works is given out again, also after the route. *)
ShareAgain(d) ==
  /\ Shareable(d) /\ Lives(d)
  /\ given' = Answered(link[d].selector)
  /\ UNCHANGED <<round, goods, link, offered, day>>

(* A new one replaces the expired one, unless the route is closed or the   *)
(* new one would have expired, too.                                        *)
ShareDelivery(d, selector) ==
  /\ Shareable(d) /\ ~Lives(d)
  /\ round.status \notin {"completato", "annullato"} /\ Expiry(round.day) > day
  /\ given.for[selector] = NoGoods
  /\ link' = [link EXCEPT ![d] = [selector |-> selector, until |-> Expiry(round.day)]]
  /\ given' = [for |-> [given.for EXCEPT ![selector] = goods[d]], last |-> selector]
  /\ UNCHANGED <<round, goods, offered, day>>

RevokeLink(d) ==
  /\ goods[d] # NoGoods /\ link[d] # NoRow
  /\ link' = [link EXCEPT ![d] = NoRow]
  /\ given' = Answered(NoLink)
  /\ UNCHANGED <<round, goods, offered, day>>

(* The route is programmed, started, completed or cancelled. *)
RoundGoesOn(status) ==
  /\ \/ round.status = "bozza" /\ status = "programmato"
     \/ round.status \in {"bozza", "programmato"} /\ status = "in_corso"
     \/ round.status = "in_corso" /\ status = "completato"
     \/ round.status \in {"bozza", "programmato", "in_corso"} /\ status = "annullato"
  /\ round' = [round EXCEPT !.status = status]
  /\ given' = Answered(NoLink)
  /\ UNCHANGED <<goods, link, offered, day>>

ChangeOffer ==
  /\ offered' = ~offered /\ given' = Answered(NoLink)
  /\ UNCHANGED <<round, goods, link, day>>

NextDay ==
  /\ day < LastDay /\ day' = day + 1
  /\ given' = Answered(NoLink)
  /\ UNCHANGED <<round, goods, link, offered>>

-----------------------------------------------------------------------------

TrackingLinksInit ==
  /\ round = [status |-> "bozza", day |-> 0]
  /\ goods \in [DeliveryIds -> Goods \cup {NoGoods}]
  /\ link = [d \in DeliveryIds |-> NoRow]
  /\ offered \in BOOLEAN /\ day = 0
  /\ given = [for |-> [s \in Selectors |-> NoGoods], last |-> NoLink]

TrackingLinksNext ==
  \/ \E new \in [DeliveryIds -> Goods \cup {NoGoods}], on \in 0..LastDay : SaveRound(new, on)
  \/ \E d \in DeliveryIds :
       \/ ShareAgain(d) \/ RevokeLink(d)
       \/ \E selector \in Selectors : ShareDelivery(d, selector)
  \/ \E status \in {"programmato", "in_corso", "completato", "annullato"} : RoundGoesOn(status)
  \/ ChangeOffer \/ NextDay

TrackingLinksSpec == TrackingLinksInit /\ [][TrackingLinksNext]_linkVars

-----------------------------------------------------------------------------

(* A link shows the delivery it was given out for or nothing, although the *)
(* ids of the deliveries of a recalculated route may be used again.        *)
LinkShowsItsDelivery ==
  \A s \in Selectors : \A d \in Opens(s) : goods[d] = given.for[s]

(* A link that the office gets opens the page, whatever happened to the    *)
(* route, the day and the earlier links.                                   *)
GivenLinkOpens == given.last # NoLink => Opens(given.last) # {}

(* No link outlives the week after the day of its route, also when the     *)
(* route was moved to an earlier day after the link had been given out.    *)
LinkEndsWithItsRound ==
  \A s \in Selectors : Opens(s) # {} => day < Expiry(round.day)

(* A link opens what it was given out for, when it is given out, and not   *)
(* for longer than the route is of interest.                               *)
LinksFollowTheirRound == LinkShowsItsDelivery /\ GivenLinkOpens /\ LinkEndsWithItsRound

=============================================================================
