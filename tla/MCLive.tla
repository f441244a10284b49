------------------------------- MODULE MCLive -------------------------------
(* Instances, for TLC, of the modules that promise that something happens  *)
(* at last.  They share no variable: in a behaviour one part takes all of  *)
(* the steps, under its own fairness, and the other stays as it begins.    *)
EXTENDS FleetPlan, Chat

VARIABLE part

liveVars == <<part, fleetVars, chatVars>>

LiveInit == part \in {"fleet", "chat"} /\ FleetInit /\ ChatInit

FleetPart == part = "fleet" /\ FleetNext /\ UNCHANGED <<part, chatVars>>

ChatPart == part = "chat" /\ ChatNext /\ UNCHANGED <<part, fleetVars>>

LiveNext == FleetPart \/ ChatPart

LiveFairness ==
  /\ part = "fleet" => FleetFairness
  /\ part = "chat" => ChatFairness

LiveSpec == LiveInit /\ [][LiveNext]_liveVars /\ LiveFairness

==============================================================================
