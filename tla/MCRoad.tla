------------------------------- MODULE MCRoad -------------------------------
(* Instances, for TLC, of the modules about a route on its day.            *)
(* They share no variable: in a behaviour one part takes all of the steps, *)
(* and the others stay as they begin.                                      *)
EXTENDS DayBook, Tracking, TrackingLinks, TLC

CONSTANTS x1, x2, y1, y2

VARIABLE part

Symmetry == Permutations({x1, x2}) \cup Permutations({y1, y2})

On(on, start, length) == [day |-> on, start |-> start, length |-> length, crew |-> Crew]
SomeDrafts == {On(0, 1, 1), On(0, 2, 1), On(1, 0, 1)}

-----------------------------------------------------------------------------

roadVars == <<part, dayVars, trackingVars, linkVars>>

RoadInit ==
  /\ part \in {"day book", "tracking", "links"}
  /\ DayBookInit
  /\ TrackingInit
  /\ TrackingLinksInit
  /\ part # "tracking" => \A r \in Trips : trip[r].driver = NoPilot
  /\ part # "links" => ~offered /\ goods = [d \in DeliveryIds |-> NoGoods]

DayBookPart ==
  /\ part = "day book" /\ DayBookNext
  /\ UNCHANGED <<part, trackingVars, linkVars>>

TrackingPart ==
  /\ part = "tracking" /\ TrackingNext
  /\ UNCHANGED <<part, dayVars, linkVars>>

LinksPart ==
  /\ part = "links" /\ TrackingLinksNext
  /\ UNCHANGED <<part, dayVars, trackingVars>>

RoadNext == DayBookPart \/ TrackingPart \/ LinksPart

RoadSpec == RoadInit /\ [][RoadNext]_roadVars

(* The type invariant of the run. *)
RoadTypeOK == DayBookTypeOK /\ TrackingTypeOK /\ TrackingLinksTypeOK

=============================================================================
