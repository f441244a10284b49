---------------------------- MODULE MCCompetition ----------------------------
(* One order that two requests plan at once while its address and the      *)
(* subscription are as they began, and one request at a time whatever they *)
(* are: with both at will the run would be too large.                      *)
EXTENDS MCRouteOrders

AsBegun == active /\ \A o \in Orders : orders[o].address = SomeAddress

OneAtATime ==
  \A p, q \in Planners : p # q => "idle" \in {requests[p].phase, requests[q].phase}

(* Bound of the model: states beyond it are checked, and not left. *)
Bounded == AsBegun \/ OneAtATime

==============================================================================
