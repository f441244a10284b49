--------------------------- MODULE MCRouteOrders ---------------------------
EXTENDS RouteOrders, TLC

Symmetry == Permutations(Orders) \cup Permutations(Routes) \cup Permutations(Planners)

(* Every way of putting orders into stops, with and without the stop of a *)
(* registered customer.                                                   *)
AllRowSets == SUBSET (SUBSET Orders)

(* One stop with every order, or only the stop of a customer. *)
OneStop == {{Orders}, {{}}}

(* Each order in a stop of its own, one of them alone, a customer's stop. *)
SingleStops == {{{o} : o \in Orders}, {{}}} \cup {{{o}} : o \in Orders}
=============================================================================
