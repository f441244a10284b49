----------------------------- MODULE Customers ------------------------------
(***************************************************************************)
(* The address of a customer, its position and the mark that the position  *)
(* was verified.                                                           *)
(*                                                                         *)
(* No request locks the row.  Each one loads it, computes (a verification  *)
(* asks the geocoder meanwhile) and commits the columns that it changed,   *)
(* over whatever was committed since.                                      *)
(***************************************************************************)
EXTENDS Naturals

CONSTANTS
  Customers, Sites,
  NoPlace,           (* No coordinates.                                    *)
  Editors            (* Requests that run at a time.                       *)

ASSUME CustomersAssumption == NoPlace \notin Sites

VARIABLES
  customer,
  editor,            (* The row that each request loaded.                  *)
  overlapped         (* History: customers written by a request after      *)
                     (* another had changed the row that it loaded.        *)

customerVars == <<customer, editor, overlapped>>

(* A position is told apart by the address it was found for. *)
CustomerRow ==
  [address : Sites, place : Sites \cup {NoPlace},
   mark : {"verificato", "da_verificare", "non_trovato"}]

Editor == [of : SUBSET Customers, loaded : SUBSET CustomerRow]

NotEditing == [of |-> {}, loaded |-> {}]

CustomersTypeOK ==
  /\ customer \in [Customers -> CustomerRow]
  /\ editor \in [Editors -> Editor]
  /\ overlapped \subseteq Customers

-----------------------------------------------------------------------------

Load(q, c) ==
  /\ editor[q] = NotEditing
  /\ editor' = [editor EXCEPT ![q] = [of |-> {c}, loaded |-> {customer[c]}]]
  /\ UNCHANGED <<customer, overlapped>>

(* The commit of a row that was loaded and set to another: its columns     *)
(* that changed.                                                           *)
Written(row, loaded, new) == [column \in DOMAIN row |->
  IF new[column] # loaded[column] THEN new[column] ELSE row[column]]

Overlaps(c, loaded) == IF customer[c] = loaded THEN overlapped ELSE overlapped \cup {c}

Commit(q, new) ==
  /\ \E c \in editor[q].of, loaded \in editor[q].loaded :
       /\ customer' = [customer EXCEPT ![c] = Written(@, loaded, new[loaded])]
       /\ overlapped' = Overlaps(c, loaded)
  /\ editor' = [editor EXCEPT ![q] = NotEditing]

Unverified(address) == [address |-> address, place |-> NoPlace, mark |-> "da_verificare"]
Located(address) == [address |-> address, place |-> address, mark |-> "verificato"]

(* update_customer: without a position of its own, another address loses   *)
(* the one that is there.                                                  *)
UpdateCustomer(q, address) ==
  Commit(q, [loaded \in CustomerRow |->
               IF address = loaded.address THEN loaded ELSE Unverified(address)])

(* With the position of the preview, or one set on the map                 *)
(* (resolve_selected_customer_address, too).                               *)
UpdateLocated(q, address) ==
  Commit(q, [loaded \in CustomerRow |-> Located(address)])

(* Mutant: an imported address leaves the position where it was. *)
ImportKeepingPlace(q, address) ==
  Commit(q, [loaded \in CustomerRow |-> [loaded EXCEPT !.address = address]])

(* invalidate_imported_address; also "correct" of                          *)
(* resolve_selected_customer_address.                                      *)
ImportCustomer(q, address) ==
  Commit(q, [loaded \in CustomerRow |->
               IF address = loaded.address THEN loaded ELSE Unverified(address)])

(* verify_customer_address, verify_selected_customer_addresses and         *)
(* verify_pending_addresses: the result for the address that was loaded.   *)
(* The log of the call committed, which expires what was loaded, so that   *)
(* apply_geocode writes its columns whether they changed or not.           *)
VerifyCustomer(q, mark) ==
  /\ \E c \in editor[q].of, loaded \in editor[q].loaded :
       /\ customer' = [customer EXCEPT ![c].mark = mark,
                         ![c].place = IF mark = "non_trovato" THEN NoPlace ELSE loaded.address]
       /\ overlapped' = Overlaps(c, loaded)
  /\ editor' = [editor EXCEPT ![q] = NotEditing]

-----------------------------------------------------------------------------

CustomersInit ==
  /\ customer \in [Customers -> {Unverified(a) : a \in Sites} \cup {Located(a) : a \in Sites}]
  /\ editor = [q \in Editors |-> NotEditing]
  /\ overlapped = {}

CustomersNext ==
  \E q \in Editors :
    \/ \E c \in Customers : Load(q, c)
    \/ \E address \in Sites :
         UpdateCustomer(q, address) \/ UpdateLocated(q, address) \/ ImportCustomer(q, address)
    \/ \E mark \in {"verificato", "da_verificare", "non_trovato"} : VerifyCustomer(q, mark)

CustomersSpec == CustomersInit /\ [][CustomersNext]_customerVars

-----------------------------------------------------------------------------

(* customer_is_plannable *)
CustomerIsPlannable(c) == customer[c].mark = "verificato" /\ customer[c].place # NoPlace

(* A customer who may be planned is planned to the address it has, through *)
(* any sequence of changes, imports and verifications, unless two requests *)
(* that overlapped wrote their columns over each other's: the row has no   *)
(* lock, and the position of the old address may be marked as verified.    *)
PlannedWhereItIs ==
  \A c \in Customers \ overlapped :
    CustomerIsPlannable(c) => customer[c].place = customer[c].address

=============================================================================
