------------------------------ MODULE Registry ------------------------------
(***************************************************************************)
(* The vehicles of a company, its drivers, customers, deposits and         *)
(* collaborators, and the limits of its plan.                              *)
(*                                                                         *)
(* A plan has standard slots, for any vehicle, and bonus slots, for        *)
(* electric ones.  Fuels change, vehicles are archived and the plan may go *)
(* down below what is registered; the data stay.  Every change locks the   *)
(* company and then looks at the limits; the vehicle was read before.      *)
(***************************************************************************)
EXTENDS Naturals, FiniteSets

CONSTANTS
  Vehicles,
  Registers,         (* What else a plan limits, each by its number.       *)
  MaxOthers,         (* Bound: how many of a kind.                         *)
  PlanLimits,        (* Records of limits.                                 *)
  Clerks             (* Requests that run at a time.                       *)

ASSUME RegistryAssumption ==
  /\ MaxOthers \in Nat
  /\ PlanLimits \subseteq [standard : Nat, bonus : Nat, most : [Registers -> Nat]]

VARIABLES
  plan, entitled,    (* The limits in force; whether the plan is active.   *)
  fleet, others,     (* The vehicles; how many there are of every kind.    *)
  clerk              (* The vehicle that a request read, and its fuel.     *)

registryVars == <<plan, entitled, fleet, others, clerk>>

-----------------------------------------------------------------------------

Fuels == {"elettrico", "other"}

NotReading == [vehicle |-> {}, fuel |-> "other"]

RegistryTypeOK ==
  /\ plan \in PlanLimits /\ entitled \in BOOLEAN
  /\ fleet \in [Vehicles -> Fuels \cup {"none", "archived"}]
  /\ others \in [Registers -> 0..MaxOthers]
  /\ clerk \in [Clerks -> [vehicle : SUBSET Vehicles, fuel : Fuels]]
  /\ \A q \in Clerks : \A v \in clerk[q].vehicle : fleet[v] # "none"

Above(n, limit) == IF n > limit THEN n - limit ELSE 0

Present == {v \in Vehicles : fleet[v] \in Fuels}
Total == Cardinality(Present)
Electric == Cardinality({v \in Present : fleet[v] = "elettrico"})

OverStandard(total, electric) == Above(total - electric, plan.standard)
OverTotal(total) == Above(total, plan.standard + plan.bonus)

(* _vehicle_usage_report, as the services state it: "N <= standard and     *)
(* N + E <= standard + bonus".                                             *)
OverLimit(total, electric) == OverStandard(total, electric) > 0 \/ OverTotal(total) > 0

StandardUsed == Total - Electric + Above(Electric, plan.bonus)

(* can_add_electric, can_add_non_electric *)
CanAdd(fuel) ==
  /\ entitled /\ ~OverLimit(Total, Electric)
  /\ IF fuel = "elettrico" THEN Total < plan.standard + plan.bonus ELSE StandardUsed < plan.standard

(* check_vehicle_limit of a new vehicle *)
MayAdd(fuel) ==
  entitled /\ ~OverLimit(Total + 1, Electric + IF fuel = "elettrico" THEN 1 ELSE 0)

-----------------------------------------------------------------------------

CreateVehicle(v, fuel) ==
  /\ fleet[v] = "none" /\ MayAdd(fuel)
  /\ fleet' = [fleet EXCEPT ![v] = fuel]
  /\ UNCHANGED <<plan, entitled, others, clerk>>

ReadVehicle(q, v) ==
  /\ clerk[q] = NotReading /\ v \in Present
  /\ clerk' = [clerk EXCEPT ![q] = [vehicle |-> {v}, fuel |-> fleet[v]]]
  /\ UNCHANGED <<plan, entitled, fleet, others>>

(* Mutant: the fuel that was read before the lock. *)
PreviousAsRead(q, v) == clerk[q].fuel

(* "A second concurrent edit may have changed the fuel while this call     *)
(* waited."                                                                *)
Previous(q, v) == fleet[v]

(* check_vehicle_limit of a vehicle that changes *)
MayChangeFuel(previous, fuel) ==
  /\ entitled
  /\ \/ previous = fuel \/ fuel = "elettrico"
     \/ OverStandard(Total, Electric - 1) = 0

ChangeVehicle(q, fuel) ==
  \E v \in clerk[q].vehicle :
    /\ v \in Present /\ MayChangeFuel(Previous(q, v), fuel)
    /\ fleet' = [fleet EXCEPT ![v] = fuel]
    /\ clerk' = [clerk EXCEPT ![q] = NotReading]
    /\ UNCHANGED <<plan, entitled, others>>

RefuseVehicle(q) ==
  /\ clerk[q] # NotReading
  /\ clerk' = [clerk EXCEPT ![q] = NotReading]
  /\ UNCHANGED <<plan, entitled, fleet, others>>

DeleteVehicle(v) ==
  /\ v \in Present
  /\ fleet' = [fleet EXCEPT ![v] = "archived"]
  /\ UNCHANGED <<plan, entitled, others, clerk>>

(* check_driver_limit, check_deposit_limit, check_collaborator_limit (also *)
(* of one who is let in again) and check_customer_limit, whose imports add *)
(* several at once: counted and saved under the lock of the company.       *)
Register(k, n) ==
  /\ entitled /\ others[k] + n <= plan.most[k] /\ others[k] + n <= MaxOthers
  /\ others' = [others EXCEPT ![k] = @ + n]
  /\ UNCHANGED <<plan, entitled, fleet, clerk>>

Archive(k) ==
  /\ others[k] > 0
  /\ others' = [others EXCEPT ![k] = @ - 1]
  /\ UNCHANGED <<plan, entitled, fleet, clerk>>

(* sync_subscription, admin_update_plan, the end of a trial. *)
ChangeEntitlement(p, is) ==
  /\ <<p, is>> # <<plan, entitled>>
  /\ plan' = p /\ entitled' = is
  /\ UNCHANGED <<fleet, others, clerk>>

-----------------------------------------------------------------------------

RegistryInit ==
  /\ plan \in PlanLimits /\ entitled = TRUE
  /\ fleet = [v \in Vehicles |-> "none"] /\ others = [k \in Registers |-> 0]
  /\ clerk = [q \in Clerks |-> NotReading]

RegistryNext ==
  \/ \E v \in Vehicles : DeleteVehicle(v) \/ \E fuel \in Fuels : CreateVehicle(v, fuel)
  \/ \E q \in Clerks :
       \/ RefuseVehicle(q)
       \/ \E v \in Vehicles : ReadVehicle(q, v)
       \/ \E fuel \in Fuels : ChangeVehicle(q, fuel)
  \/ \E k \in Registers : Archive(k) \/ \E n \in 1..2 : (k = "customer" \/ n = 1) /\ Register(k, n)
  \/ \E p \in PlanLimits, is \in BOOLEAN : ChangeEntitlement(p, is)

RegistrySpec == RegistryInit /\ [][RegistryNext]_registryVars

-----------------------------------------------------------------------------

(* The report says that the fleet is within the plan exactly when every    *)
(* vehicle can be given a slot of its own, a bonus slot only if electric.  *)
SlotsSuffice ==
  LET Slots == 1..plan.standard + plan.bonus IN
  ~OverLimit(Total, Electric) <=>
    \E slot \in [Present -> Slots] :
      /\ \A v, w \in Present : v # w => slot[v] # slot[w]
      /\ \A v \in Present : slot[v] > plan.standard => fleet[v] = "elettrico"

(* What the report offers is what a request would get, also after          *)
(* deletions, changes of fuel and a smaller plan.                          *)
ReportAgreesWithCheck == \A fuel \in Fuels : CanAdd(fuel) <=> MayAdd(fuel)

(* Whatever is beyond the limits of the plan came with a change of plan:   *)
(* no other step adds to it, also when two requests change one vehicle.    *)
ExcessNeverGrows ==
  [][plan' = plan =>
       /\ OverStandard(Total, Electric)' <= OverStandard(Total, Electric)
       /\ OverTotal(Total)' <= OverTotal(Total)
       /\ \A k \in Registers :
            Above(others[k], plan.most[k])' <= Above(others[k], plan.most[k])]_registryVars

(* The limits of a plan: slots and report agree with the check, and no     *)
(* request goes beyond them.                                               *)
LimitsHold == []SlotsSuffice /\ []ReportAgreesWithCheck /\ ExcessNeverGrows

=============================================================================
