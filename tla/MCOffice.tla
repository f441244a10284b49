------------------------------ MODULE MCOffice ------------------------------
(* Instances, for TLC, of the modules about orders, customers, registries  *)
(* and the evidence of a delivery.                                         *)
(* They share no variable: in a behaviour one part takes all of the steps, *)
(* and the others stay as they begin.                                      *)
EXTENDS Evidence, Intake, Selection, Registry, Customers, TLC

CONSTANTS x1, x2, y1, y2, e1, e2, k1, k2

VARIABLE part

Symmetry == Permutations({x1, x2}) \cup Permutations({y1, y2})

RowsOf(first, second) == (e1 :> first) @@ (e2 :> second)
SomeDocuments == {RowsOf(k1, k1), RowsOf(k2, NoContent)}

Limit(standard, bonus, most) ==
  [standard |-> standard, bonus |-> bonus, most |-> [k \in Registers |-> most]]
SomePlans == {Limit(1, 1, 1), Limit(2, 1, 1), Limit(2, 2, 2)}

-----------------------------------------------------------------------------

officeVars == <<part, vars, intakeVars, selectionVars, registryVars, customerVars>>

OfficeInit ==
  /\ part \in {"evidence", "intake", "selection", "registry", "customers"}
  /\ Init
  /\ IntakeInit
  /\ SelectionInit
  /\ RegistryInit
  /\ CustomersInit
  /\ part # "intake" => source.kind = "file"
  /\ part # "selection" => choice.version = 0 /\ \A o \in Orders : desk[o].address = NoAddress
  /\ part # "registry" => plan = Limit(1, 1, 1)
  /\ part # "customers" => customer = [c \in Customers |-> Unverified(CHOOSE a \in Sites : TRUE)]

EvidencePart ==
  /\ part = "evidence" /\ Next
  /\ UNCHANGED <<part, intakeVars, selectionVars, registryVars, customerVars>>

IntakePart ==
  /\ part = "intake" /\ IntakeNext /\ (source.kind = "api" => month' = month)
  /\ UNCHANGED <<part, vars, selectionVars, registryVars, customerVars>>

SelectionPart ==
  /\ part = "selection" /\ SelectionNext
  /\ UNCHANGED <<part, vars, intakeVars, registryVars, customerVars>>

RegistryPart ==
  /\ part = "registry" /\ RegistryNext
  /\ UNCHANGED <<part, vars, intakeVars, selectionVars, customerVars>>

CustomersPart ==
  /\ part = "customers" /\ CustomersNext
  /\ UNCHANGED <<part, vars, intakeVars, selectionVars, registryVars>>

OfficeNext == EvidencePart \/ IntakePart \/ SelectionPart \/ RegistryPart \/ CustomersPart

OfficeSpec == OfficeInit /\ [][OfficeNext]_officeVars

(* The type invariant of the run. *)
OfficeTypeOK ==
  EvidenceTypeOK /\ IntakeTypeOK /\ SelectionTypeOK /\ RegistryTypeOK /\ CustomersTypeOK

=============================================================================
