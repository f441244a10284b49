----------------------------- MODULE Selection ------------------------------
(***************************************************************************)
(* The orders that an operator gathers for a route, and their addresses.   *)
(*                                                                         *)
(* The selection of an operator is one versioned row; several tabs change  *)
(* it, each naming the version its page showed.  It can be put away as a   *)
(* draft and taken up again.  The address of an order must be verified     *)
(* before it is planned: the geocoding call is made while other operators  *)
(* edit, cancel or assign the order, because logging the call commits and  *)
(* gives the row lock away.                                                *)
(***************************************************************************)
EXTENDS Naturals, FiniteSets

CONSTANTS
  Orders, Addresses, NoAddress,
  Drafts, Tabs,
  Checks,            (* Verifications that run at a time.                  *)
  MaxOrderVersion,   (* Bound: the version up to which an order is edited. *)
  MaxChoice          (* Bound: the version of the selection.               *)

ASSUME SelectionAssumption == NoAddress \notin Addresses /\ MaxOrderVersion \in Nat /\ MaxChoice \in Nat \ {0}

VARIABLES
  desk,              (* The orders.                                        *)
  choice,            (* The selection; version 0: no row yet.              *)
  drafts,
  tab,               (* What each page shows.                              *)
  check,             (* What each verification holds.                      *)
  gathered           (* History: what was selected and never taken out.    *)

selectionVars == <<desk, choice, drafts, tab, check, gathered>>

-----------------------------------------------------------------------------

Editable == {"nuovo", "da_verificare", "pronto"}

DeskOrder == [status : Editable \cup {"assegnato", "annullato"}, address : Addresses \cup {NoAddress},
              proof : Addresses \cup {NoAddress}, version : 0..MaxOrderVersion + 1]

(* Stops are told apart by their orders only; "none": not prepared yet. *)
Prepared == {{}} \cup {{S} : S \in SUBSET Orders}

Choice == [ids : SUBSET Orders, stops : Prepared, version : 0..MaxChoice]

NoCheck ==
  [phase |-> "idle", of |-> "desk", order |-> {}, seen |-> 0, address |-> NoAddress, version |-> 0]

SelectionTypeOK ==
  /\ desk \in [Orders -> DeskOrder]
  /\ choice \in Choice
  /\ drafts \in [Drafts -> [kept : BOOLEAN, ids : SUBSET Orders, stops : Prepared]]
  /\ tab \in [Tabs -> [version : 0..MaxChoice, stops : SUBSET Orders]]
  /\ check \in [Checks ->
       [phase : {"idle", "between", "asked"}, of : {"desk", "selection"}, order : SUBSET Orders,
        seen : 0..MaxOrderVersion + 1, address : Addresses \cup {NoAddress}, version : 0..MaxChoice]]
  /\ gathered \subseteq Orders
  /\ \A d \in Drafts : ~drafts[d].kept => drafts[d].ids = {} /\ drafts[d].stops = {}
  /\ choice.version = 0 => choice.ids = {}

-----------------------------------------------------------------------------
(* Orders: the desk and the routes.                                        *)

(* address_is_verified *)
Verified(o) == desk[o].address # NoAddress /\ desk[o].proof = desk[o].address

MayEdit(o, version) == desk[o].status \in Editable /\ desk[o].version = version

Changed(o, status, address, proof) ==
  desk' = [desk EXCEPT ![o] =
    [status |-> status, address |-> address, proof |-> proof, version |-> @.version + 1]]

StatusAfter(o, address) ==
  IF Verified(o) /\ address = desk[o].address THEN "pronto" ELSE "da_verificare"

(* update_order under the row lock; a proof of another address is dropped. *)
Corrected(o, address) ==
  Changed(o, StatusAfter(o, address), address,
          IF address = desk[o].address THEN desk[o].proof ELSE NoAddress)

UpdateOrder(o, address) ==
  /\ desk[o].status \in Editable /\ desk[o].version < MaxOrderVersion
  /\ Corrected(o, address)
  /\ UNCHANGED <<choice, drafts, tab, check, gathered>>

Transition(o, status) ==
  /\ desk[o].status \in Editable /\ desk[o].version < MaxOrderVersion
  /\ status = "pronto" => Verified(o)
  /\ Changed(o, status, desk[o].address, desk[o].proof)
  /\ UNCHANGED <<choice, drafts, tab, check, gathered>>

(* reserve_orders of some route, and its release. *)
Assign(o) ==
  /\ desk[o].status = "pronto" /\ desk[o].version < MaxOrderVersion
  /\ Changed(o, "assegnato", desk[o].address, desk[o].proof)
  /\ UNCHANGED <<choice, drafts, tab, check, gathered>>

Release(o) ==
  /\ desk[o].status = "assegnato" /\ desk[o].version < MaxOrderVersion
  /\ Changed(o, "pronto", desk[o].address, desk[o].proof)
  /\ UNCHANGED <<choice, drafts, tab, check, gathered>>

-----------------------------------------------------------------------------
(* The selection.  Every request holds its row and names its version.      *)

StillCurrent(version) == choice.version = version

Prepare(ids, stops) ==
  /\ choice.version < MaxChoice
  /\ choice' = [ids |-> ids, stops |-> stops, version |-> choice.version + 1]

(* Stops not prepared yet are made from the selected orders.               *)
ShownOf(chosen) == IF chosen.stops = {} THEN chosen.ids ELSE UNION chosen.stops

(* The page that sent a request shows its answer; other pages stay as they *)
(* are.                                                                    *)
ShownSelection == [version |-> choice.version, stops |-> ShownOf(choice)]

LoadPage(t) ==
  /\ tab[t] # ShownSelection
  /\ tab' = [tab EXCEPT ![t] = ShownSelection]
  /\ UNCHANGED <<desk, choice, drafts, check, gathered>>

MaySelect == {o \in Orders : desk[o].status \in Editable}

(* change_selection *)
Select(t, S) ==
  /\ StillCurrent(tab[t].version) /\ S \subseteq MaySelect /\ S # {}
  /\ Prepare(choice.ids \cup S, {})
  /\ gathered' = gathered \cup S
  /\ UNCHANGED <<desk, drafts, tab, check>>

Deselect(t, S) ==
  /\ StillCurrent(tab[t].version) /\ S # {} /\ S \subseteq choice.ids
  /\ Prepare(choice.ids \ S, {})
  /\ gathered' = gathered \ S
  /\ UNCHANGED <<desk, drafts, tab, check>>

(* snapshot, and preview which asks that the orders be ready: the operator *)
(* takes the stops out that the page showed and the request leaves out.    *)
Snapshot(t, S) ==
  /\ StillCurrent(tab[t].version) /\ choice.version > 0
  /\ S \subseteq choice.ids
  /\ Prepare(S, {S})
  /\ gathered' = gathered \ (tab[t].stops \ S)
  /\ UNCHANGED <<desk, drafts, tab, check>>

(* snapshot without stops: they are to be made anew. *)
Regenerate(t) ==
  /\ StillCurrent(tab[t].version) /\ choice.version > 0
  /\ Prepare(choice.ids, {})
  /\ UNCHANGED <<desk, drafts, tab, check, gathered>>

(* append_stops: orders that are ready, beside the stops that the request  *)
(* names.  Those need not be of the selection: orders that are ready, or   *)
(* reserved to the route that the page edits, are taken with them.         *)
Append(t, S, added) ==
  /\ StillCurrent(tab[t].version) /\ choice.version > 0
  /\ added # {} /\ added \cap S = {}
  /\ \A o \in S : desk[o].status \in {"pronto", "assegnato"}
  /\ \A o \in added : desk[o].status = "pronto"
  /\ Prepare(choice.ids \cup added, {S \cup added})
  /\ gathered' = (gathered \ (tab[t].stops \ S)) \cup added
  /\ UNCHANGED <<desk, drafts, tab, check>>

-----------------------------------------------------------------------------
(* Drafts.                                                                 *)

NoDraft == [kept |-> FALSE, ids |-> {}, stops |-> {}]

CreateDraft(t, d) ==
  /\ ~drafts[d].kept /\ StillCurrent(tab[t].version) /\ choice.ids # {}
  /\ drafts' = [drafts EXCEPT ![d] = [kept |-> TRUE, ids |-> choice.ids, stops |-> choice.stops]]
  /\ Prepare({}, {})
  /\ UNCHANGED <<desk, tab, check, gathered>>

RoomForDraft == choice.ids = {}

Resumable(d) == drafts[d].ids \cap MaySelect

StopsResumed(d) == IF Resumable(d) = drafts[d].ids THEN drafts[d].stops ELSE {}

(* resume: orders that were cancelled or assigned meanwhile stay out. *)
ResumeDraft(t, d) ==
  /\ drafts[d].kept /\ StillCurrent(tab[t].version) /\ RoomForDraft
  /\ Resumable(d) # {}
  /\ Prepare(Resumable(d), StopsResumed(d))
  /\ drafts' = [drafts EXCEPT ![d] = NoDraft]
  /\ gathered' = gathered \ (drafts[d].ids \ Resumable(d))
  /\ UNCHANGED <<desk, tab, check>>

DeleteDraft(d) ==
  /\ drafts[d].kept
  /\ drafts' = [drafts EXCEPT ![d] = NoDraft]
  /\ gathered' = gathered \ drafts[d].ids
  /\ UNCHANGED <<desk, choice, tab, check>>

-----------------------------------------------------------------------------
(* Verification.                                                           *)

Free(v) == check[v] = NoCheck

(* verify_selected begins with the version of a page; then it verifies one *)
(* order after another, with the version it made itself.                   *)
BeginSelected(v, t) ==
  /\ Free(v) /\ StillCurrent(tab[t].version) /\ choice.ids # {}
  /\ check' = [check EXCEPT ![v] = [NoCheck EXCEPT !.phase = "between", !.of = "selection",
                                                   !.version = choice.version]]
  /\ UNCHANGED <<desk, choice, drafts, tab, gathered>>

Needs(o) == desk[o].status \in Editable /\ desk[o].address # NoAddress /\ ~(Verified(o) /\ desk[o].status = "pronto")

(* The order is read under its lock; the call gives the lock away. *)
Ask(v, o) ==
  /\ check[v].phase = "between" => StillCurrent(check[v].version) /\ o \in choice.ids
  /\ check[v].phase # "asked" /\ Needs(o)
  /\ check' = [check EXCEPT ![v] = [@ EXCEPT !.phase = "asked", !.order = {o},
                                             !.seen = desk[o].version, !.address = desk[o].address]]
  /\ UNCHANGED <<desk, choice, drafts, tab, gathered>>

(* Mutant: the order is taken as it was before the call. *)
UnchangedAssumed(v, o) == TRUE

(* "Geocoding usage logging may commit. Reacquire and recheck after the    *)
(* call."                                                                  *)
Unchanged(v, o) == MayEdit(o, check[v].seen) /\ desk[o].address = check[v].address

(* The selection must still be the one that the request works on. *)
Renewed(v) ==
  IF check[v].of = "desk"
    THEN UNCHANGED choice /\ check' = [check EXCEPT ![v] = NoCheck]
    ELSE /\ StillCurrent(check[v].version) /\ check[v].order \subseteq choice.ids
         /\ Prepare(choice.ids, {})
         /\ check' = [check EXCEPT ![v] = [NoCheck EXCEPT !.phase = "between", !.of = "selection",
                                                          !.version = choice.version + 1]]

(* _mark_verified, after the call or from the signed proof of another      *)
(* order (_existing_order_proof), which asks nothing.                      *)
MarkVerified(v) ==
  \E o \in check[v].order :
    /\ check[v].phase = "asked" /\ Unchanged(v, o) /\ desk[o].version <= MaxOrderVersion
    /\ Changed(o, "pronto", desk[o].address, check[v].address)
    /\ Renewed(v)
    /\ UNCHANGED <<drafts, tab, gathered>>

(* The address is not found: verify_selected records it; the desk does not.*)
MarkFailed(v) ==
  \E o \in check[v].order :
    /\ check[v].phase = "asked" /\ check[v].of = "selection"
    /\ StillCurrent(check[v].version) /\ o \in choice.ids
    /\ Unchanged(v, o) /\ desk[o].version <= MaxOrderVersion
    /\ Changed(o, "da_verificare", desk[o].address, NoAddress)
    /\ check' = [check EXCEPT ![v] = [NoCheck EXCEPT !.phase = "between", !.of = "selection",
                                                     !.version = check[v].version]]
    /\ UNCHANGED <<choice, drafts, tab, gathered>>

(* The service fails, a check refuses, or the list of orders ends. *)
EndCheck(v) ==
  /\ ~Free(v)
  /\ check' = [check EXCEPT ![v] = NoCheck]
  /\ UNCHANGED <<desk, choice, drafts, tab, gathered>>

(* resolve: the operator excludes an order, *)
Exclude(t, o) ==
  /\ StillCurrent(tab[t].version) /\ o \in choice.ids
  /\ Prepare(choice.ids \ {o}, {})
  /\ gathered' = gathered \ {o}
  /\ UNCHANGED <<desk, drafts, tab, check>>

(* corrects it, *)
Resolve(t, o, address) ==
  /\ StillCurrent(tab[t].version) /\ o \in choice.ids
  /\ desk[o].status \in Editable /\ desk[o].version < MaxOrderVersion
  /\ \/ Corrected(o, address)
     \/ address = desk[o].address /\ UNCHANGED desk
  /\ Prepare(choice.ids, {})
  /\ UNCHANGED <<drafts, tab, check, gathered>>

(* or places it on the map, which corrects it first if need be. *)
PlaceOnMap(t, o, address) ==
  /\ StillCurrent(tab[t].version) /\ o \in choice.ids
  /\ desk[o].status \in Editable /\ desk[o].version < MaxOrderVersion
  /\ desk' = [desk EXCEPT ![o] =
       [status |-> "pronto", address |-> address, proof |-> address,
        version |-> @.version + IF address = @.address THEN 1 ELSE 2]]
  /\ Prepare(choice.ids, {})
  /\ UNCHANGED <<drafts, tab, check, gathered>>

-----------------------------------------------------------------------------

(* The operator begins, or comes back to a draft. *)
SelectionInit ==
  /\ desk \in [Orders -> [status : {"nuovo"}, address : Addresses \cup {NoAddress},
                         proof : {NoAddress}, version : {0}]]
  /\ \/ /\ choice = [ids |-> {}, stops |-> {}, version |-> 0]
        /\ drafts = [d \in Drafts |-> NoDraft]
     \/ /\ choice = [ids |-> {}, stops |-> {}, version |-> 1]
        /\ \E S \in (SUBSET Orders) \ {{}} :
             drafts \in [Drafts -> {[kept |-> TRUE, ids |-> S, stops |-> P] : P \in {{}, {S}}}]
  /\ tab = [t \in Tabs |-> [version |-> 0, stops |-> {}]]
  /\ check = [v \in Checks |-> NoCheck]
  /\ gathered = UNION {drafts[d].ids : d \in Drafts}

DesksNext ==
  \E o \in Orders :
    \/ Assign(o) \/ Release(o)
    \/ \E address \in Addresses \cup {NoAddress} : UpdateOrder(o, address)
    \/ \E status \in Editable \cup {"annullato"} : Transition(o, status)

PagesNext ==
  \E t \in Tabs :
    \/ LoadPage(t) \/ Regenerate(t)
    \/ \E S \in SUBSET Orders :
         \/ Select(t, S) \/ Deselect(t, S) \/ Snapshot(t, S)
         \/ \E added \in SUBSET Orders : Append(t, S, added)
    \/ \E d \in Drafts : CreateDraft(t, d) \/ ResumeDraft(t, d)
    \/ \E o \in Orders :
         \/ Exclude(t, o)
         \/ \E address \in Addresses : Resolve(t, o, address) \/ PlaceOnMap(t, o, address)

ChecksNext ==
  \E v \in Checks :
    \/ MarkVerified(v) \/ MarkFailed(v) \/ EndCheck(v)
    \/ \E t \in Tabs : BeginSelected(v, t)
    \/ \E o \in Orders : Ask(v, o)

SelectionNext == DesksNext \/ PagesNext \/ ChecksNext \/ \E d \in Drafts : DeleteDraft(d)

SelectionSpec == SelectionInit /\ [][SelectionNext]_selectionVars

-----------------------------------------------------------------------------

(* An order is ready or assigned only with a proof of the address that it  *)
(* has now, whoever edited it while the geocoder was asked.                *)
ReadyMeansVerified ==
  \A o \in Orders : desk[o].status \in {"pronto", "assegnato"} => Verified(o)

(* The selected orders that a page would show. *)
Kept(chosen) == chosen.ids \cap ShownOf(chosen)

(* Nothing that the operator selected disappears, and none of it hides:    *)
(* it is selected and among the stops that the page shows, or that taking  *)
(* a draft up would show, until somebody takes it out of the page or it    *)
(* can be planned no more when its draft is taken up.  Else the next       *)
(* snapshot of the page would drop it from the selection unseen, also      *)
(* where an append brought in stops of orders that were not selected.      *)
NothingGatheredIsLost ==
  gathered \subseteq Kept(choice) \cup UNION {Kept(drafts[d]) : d \in Drafts}

(* The selection of the desk, its drafts and the checks of its orders      *)
(* agree with each other and with the orders.                              *)
SelectionIsSound == ReadyMeansVerified /\ NothingGatheredIsLost

=============================================================================
