---------------------------- MODULE OrderJourney ----------------------------
(***************************************************************************)
(* What the order and route services promise about an order: it travels    *)
(* on one trip at a time, it boards and leaves a trip by a plan of the     *)
(* trip that was drawn before the trip departed, all the orders of a trip  *)
(* depart together, an outcome stands against everything but such a plan,  *)
(* and only a cancelled trip gives its open orders back to the desk.       *)
(* Versions, stops, resources and concurrent requests are not visible at   *)
(* this level.                                                             *)
(***************************************************************************)

CONSTANTS Orders, Trips, NoTrip

VARIABLES
  where,    (* The trip of each order. *)
  stage,    (* How far each order is.  *)
  trips,    (* How far each trip is.   *)
  drawn     (* Trips of which somebody holds a plan drawn before they departed. *)

vars == <<where, stage, trips, drawn>>

Stages == {"desk", "loaded", "travelling", "closed", "discarded"}

On(t) == {o \in Orders : where[o] = t}

Open(t) == {o \in On(t) : stage[o] # "closed"}

Init ==
  /\ where = [o \in Orders |-> NoTrip]
  /\ stage = [o \in Orders |-> "desk"]
  /\ trips = [t \in Trips |-> "open"]
  /\ drawn = {}

Discard(o) ==
  /\ where[o] = NoTrip /\ stage[o] = "desk"
  /\ stage' = [stage EXCEPT ![o] = "discarded"]
  /\ UNCHANGED <<where, trips>>

(* The trip is planned, or planned again, with exactly the orders S.  A    *)
(* plan drawn before the departure may still be carried out after it; it   *)
(* keeps no order that travels or arrived, and takes others only from the  *)
(* desk.                                                                   *)
Load(t, S) ==
  /\ trips[t] = "open" \/ t \in drawn
  /\ \A o \in S \cap On(t) : stage[o] = "loaded"
  /\ \A o \in S \ On(t) : where[o] = NoTrip /\ stage[o] = "desk"
  /\ where' = [o \in Orders |-> IF o \in S THEN t ELSE IF o \in On(t) THEN NoTrip ELSE where[o]]
  /\ stage' = [o \in Orders |-> IF o \in S THEN "loaded"
                                ELSE IF o \in On(t) THEN "desk" ELSE stage[o]]
  /\ UNCHANGED trips

(* The trip departs with all its orders, if it has not, and the orders S   *)
(* get their outcome; when the trip is closed every order it still carries *)
(* gets one.                                                               *)
Travel(t, S, closes) ==
  /\ trips[t] \in {"open", "running"}
  /\ S \subseteq Open(t)
  /\ closes => S = Open(t)
  /\ stage' = [o \in Orders |-> IF o \in S THEN "closed"
                                ELSE IF o \in Open(t) /\ trips[t] = "open" THEN "travelling" ELSE stage[o]]
  /\ trips' = [trips EXCEPT ![t] = IF closes THEN "closed" ELSE "running"]
  /\ UNCHANGED where

Cancel(t) ==
  /\ trips[t] \in {"open", "running"}
  /\ where' = [o \in Orders |-> IF o \in Open(t) THEN NoTrip ELSE where[o]]
  /\ stage' = [o \in Orders |-> IF o \in Open(t) THEN "desk" ELSE stage[o]]
  /\ trips' = [trips EXCEPT ![t] = "closed"]

(* Plans are drawn before a trip departs, and dropped at any time. *)
Plans == drawn' \subseteq drawn \cup {t \in Trips : trips[t] = "open"}

Steps ==
  \/ UNCHANGED <<where, stage, trips>>
  \/ \E o \in Orders : Discard(o)
  \/ \E t \in Trips :
       \/ \E S \in SUBSET Orders : Load(t, S)
       \/ \E S \in SUBSET Orders, closes \in BOOLEAN : Travel(t, S, closes)
       \/ Cancel(t)

Next == Plans /\ Steps

Spec == Init /\ [][Next]_vars

=============================================================================
