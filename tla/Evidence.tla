------------------------------ MODULE Evidence ------------------------------
(***************************************************************************)
(* The evidence of one delivery: the customer's signature, a photo, and    *)
(* the proof of delivery (POD) that is printed from them.  The objects are *)
(* in a store that takes no part in the database transaction; the row of   *)
(* the delivery holds their keys.                                          *)
(*                                                                         *)
(* A portal request locks the company and the route, uploads its objects   *)
(* one after the other and commits the row.  After the commit, when the    *)
(* locks are gone, the objects it replaced are removed; after a rollback,  *)
(* those it uploaded.  Any call of the store may fail, with or without     *)
(* effect, and the process may stop anywhere.                              *)
(*                                                                         *)
(* An object is known by its key: what is in it, who signed and the size   *)
(* limits are left out.  Preferences and features of the plan only decide  *)
(* which evidence a request must bring, so a request may bring any.        *)
(***************************************************************************)

CONSTANTS
  Portals,        (* Requests that run at the same time.                   *)
  Keys,           (* Object keys; every upload draws a new one (uuid4).    *)
  NoKey

ASSUME EvidenceAssumption == NoKey \notin Keys

VARIABLES
  row,            (* The DeliveryStatus row.                               *)
  open,           (* The route is neither completed nor cancelled.         *)
  objects,        (* What is in the store.                                 *)
  aged,           (* The objects that are more than 48 hours old.          *)
  used,           (* The keys that were drawn.                             *)
  requests,       (* What each request holds.                              *)
  orphans,        (* History: keys whose removal failed, that a request    *)
                  (* held when the process stopped, or that it replaced    *)
                  (* in a commit whose answer was lost.                    *)
  unanswered      (* History: a commit took effect and its answer was lost.*)

vars == <<row, open, objects, aged, used, requests, orphans, unanswered>>

-----------------------------------------------------------------------------

Evidences == {"signature", "delivery_photo"}
Kinds == Evidences \cup {"pod"}

(* "shows" is what the POD was printed from. *)
Row == [status : {"in_attesa", "completata", "mancata"},
        keys : [Kinds -> Keys \cup {NoKey}], shows : SUBSET Keys]

(* "row" is the row as the session changed it; fresh and replaced are the  *)
(* pod_new_objects and pod_old_objects of the session, doomed what is      *)
(* being removed after the end of the transaction.                         *)
Request == [phase : {"idle", "uploading", "removing"}, row : Row, todo : SUBSET Kinds,
            fresh : SUBSET Keys, replaced : SUBSET Keys, doomed : SUBSET Keys]

EvidenceTypeOK ==
  /\ row \in Row
  /\ open \in BOOLEAN
  /\ objects \subseteq Keys /\ aged \subseteq Keys
  /\ used \subseteq Keys /\ orphans \subseteq Keys
  /\ requests \in [Portals -> Request]
  /\ unanswered \in BOOLEAN

NoEvidence == [status |-> "in_attesa", keys |-> [k \in Kinds |-> NoKey], shows |-> {}]

Idle == [phase |-> "idle", row |-> NoEvidence, todo |-> {},
         fresh |-> {}, replaced |-> {}, doomed |-> {}]

Removing(keys) ==
  IF keys = {} THEN Idle
  ELSE [phase |-> "removing", row |-> NoEvidence, todo |-> {},
        fresh |-> {}, replaced |-> {}, doomed |-> keys]

Referenced == {row.keys[k] : k \in Kinds} \ {NoKey}

(* The keys of the signature and of the photo of a row. *)
Shown(status) == {status.keys[k] : k \in Evidences} \ {NoKey}

(* The locks of the company and of the route are held until the commit. *)
Locked == \E p \in Portals : requests[p].phase = "uploading"

-----------------------------------------------------------------------------
(* A request of a portal.                                                  *)

(* Mutant: an outcome does not close the evidence. *)
MayChangeLate == open

(* A closed delivery or route takes no more evidence; a retry of the same  *)
(* outcome is answered without any change.                                 *)
MayChange == open /\ row.status = "in_attesa"

(* The evidence a request brings; with a completion comes the POD.         *)
BeginUpdate(p, action, given, pod) ==
  /\ requests[p].phase = "idle"
  /\ ~Locked /\ MayChange
  /\ action = "signature" => "signature" \in given \/ row.keys["signature"] # NoKey
  /\ pod => action = "complete"
  /\ requests' = [requests EXCEPT ![p] =
       [phase |-> "uploading",
        row |-> IF action = "complete" THEN [row EXCEPT !.status = "completata"] ELSE row,
        todo |-> given \cup IF pod THEN {"pod"} ELSE {},
        fresh |-> {}, replaced |-> {}, doomed |-> {}]]
  /\ UNCHANGED <<row, open, objects, aged, used, orphans, unanswered>>

(* The signature goes first, the POD last. *)
Turn(p, kind) ==
  /\ requests[p].phase = "uploading" /\ kind \in requests[p].todo
  /\ kind = "delivery_photo" => "signature" \notin requests[p].todo
  /\ kind = "pod" => requests[p].todo = {"pod"}

(* Mutant: the POD is printed from the row as it was before the request.   *)
PrintedBefore(p) == Shown(row)

(* Mutant: evidence that was not given is printed as well.                 *)
PrintedWithBlanks(p) == {requests[p].row.keys[k] : k \in Evidences}

(* What the POD is printed from. *)
Printed(p) == Shown(requests[p].row)

(* Evidence of an earlier request is read back from the store.             *)
Readable(p, kind) ==
  kind = "pod" => Shown(requests[p].row) \ requests[p].fresh \subseteq objects

(* The row of the session once the object is stored. *)
WithKey(p, kind, key) ==
  [status |-> requests[p].row.status,
   keys |-> [requests[p].row.keys EXCEPT ![kind] = key],
   shows |-> IF kind = "pod" THEN Printed(p) ELSE requests[p].row.shows]

StoreEvidence(p, kind, key) ==
  /\ Turn(p, kind) /\ Readable(p, kind)
  /\ key \notin used
  /\ used' = used \cup {key}
  /\ objects' = objects \cup {key}
  /\ requests' = [requests EXCEPT ![p] =
       [phase |-> "uploading", row |-> WithKey(p, kind, key), todo |-> @.todo \ {kind},
        fresh |-> @.fresh \cup {key},
        replaced |-> @.replaced \cup ({@.row.keys[kind]} \ {NoKey}), doomed |-> {}]]
  /\ UNCHANGED <<row, open, aged, orphans, unanswered>>

(* "Register before upload: a timed-out PUT may have succeeded remotely."  *)
Registered(p, key) == requests[p].fresh \cup {key}

FailUpload(p, kind, key, stored) ==
  /\ Turn(p, kind) /\ Readable(p, kind)
  /\ key \notin used
  /\ used' = used \cup {key}
  /\ objects' = IF stored THEN objects \cup {key} ELSE objects
  /\ requests' = [requests EXCEPT ![p] = Removing(Registered(p, key))]
  /\ UNCHANGED <<row, open, aged, orphans, unanswered>>

(* The request fails between two uploads, or its commit is refused: the    *)
(* transaction is rolled back and what it uploaded is removed.             *)
FailUpdate(p) ==
  /\ requests[p].phase = "uploading"
  /\ requests' = [requests EXCEPT ![p] = Removing(requests[p].fresh)]
  /\ UNCHANGED <<row, open, objects, aged, used, orphans, unanswered>>

CommitUpdate(p) ==
  /\ requests[p].phase = "uploading" /\ requests[p].todo = {}
  /\ row' = requests[p].row
  /\ requests' = [requests EXCEPT ![p] = Removing(requests[p].replaced)]
  /\ UNCHANGED <<open, objects, aged, used, orphans, unanswered>>

(* The commit takes effect and its answer is lost: db.commit raises, and   *)
(* the rollback that follows removes what was uploaded.                    *)
LoseCommitAnswer(p) ==
  /\ requests[p].phase = "uploading" /\ requests[p].todo = {}
  /\ row' = requests[p].row
  /\ requests' = [requests EXCEPT ![p] = Removing(requests[p].fresh)]
  /\ orphans' = orphans \cup requests[p].replaced
  /\ unanswered' = TRUE
  /\ UNCHANGED <<open, objects, aged, used>>

-----------------------------------------------------------------------------
(* After the transaction.                                                  *)

(* One object after the other; a failure is logged and the next follows.   *)
RemoveObject(p, key, removed) ==
  /\ key \in requests[p].doomed
  /\ objects' = IF removed THEN objects \ {key} ELSE objects
  /\ orphans' = IF removed THEN orphans ELSE orphans \cup {key}
  /\ requests' = [requests EXCEPT ![p] = Removing(requests[p].doomed \ {key})]
  /\ UNCHANGED <<row, open, aged, used, unanswered>>

(* The process stops; the database rolls back and drops the locks. *)
StopProcess(p) ==
  /\ requests[p].phase # "idle"
  /\ orphans' = orphans \cup requests[p].fresh \cup requests[p].replaced \cup requests[p].doomed
  /\ requests' = [requests EXCEPT ![p] = Idle]
  /\ UNCHANGED <<row, open, objects, aged, used, unanswered>>

-----------------------------------------------------------------------------
(* Everything else that reads or closes the delivery.                      *)

(* The delivery could not be made: an outcome without evidence. *)
MissDelivery ==
  /\ ~Locked /\ MayChange
  /\ row' = [row EXCEPT !.status = "mancata"]
  /\ UNCHANGED <<open, objects, aged, used, requests, orphans, unanswered>>

(* The route is completed or cancelled. *)
CloseRoute ==
  /\ ~Locked /\ open
  /\ open' = FALSE
  /\ UNCHANGED <<row, objects, aged, used, requests, orphans, unanswered>>

TwoDaysPass ==
  /\ aged' = objects
  /\ UNCHANGED <<row, open, objects, used, requests, orphans, unanswered>>

(* Mutant: the reconciliation does not take the lock of the route. *)
ReconcilableAnytime(key) == key \in aged /\ key \notin Referenced

(* An old object that no row refers to, while no upload holds the route.   *)
Reconcilable(key) == key \in aged /\ ~Locked /\ key \notin Referenced

(* reconcile_pod_storage --delete. *)
Reconcile(key) ==
  /\ key \in objects /\ Reconcilable(key)
  /\ objects' = objects \ {key}
  /\ aged' = aged \ {key}
  /\ UNCHANGED <<row, open, used, requests, orphans, unanswered>>

-----------------------------------------------------------------------------

Init ==
  /\ row = NoEvidence
  /\ open = TRUE
  /\ objects = {} /\ aged = {} /\ used = {} /\ orphans = {}
  /\ requests = [p \in Portals |-> Idle]
  /\ unanswered = FALSE

Updates(p) ==
  \/ \E action \in {"signature", "complete"}, given \in SUBSET Evidences, pod \in BOOLEAN :
       BeginUpdate(p, action, given, pod)
  \/ \E kind \in Kinds, key \in Keys :
       StoreEvidence(p, kind, key) \/ \E stored \in BOOLEAN : FailUpload(p, kind, key, stored)
  \/ FailUpdate(p)
  \/ CommitUpdate(p)
  \/ LoseCommitAnswer(p)
  \/ \E key \in Keys, removed \in BOOLEAN : RemoveObject(p, key, removed)
  \/ StopProcess(p)

Next ==
  \/ \E p \in Portals : Updates(p)
  \/ MissDelivery
  \/ CloseRoute
  \/ TwoDaysPass
  \/ \E key \in Keys : Reconcile(key)

Spec == Init /\ [][Next]_vars

-----------------------------------------------------------------------------

(* Every key in the row has its object: uploads come before the commit,    *)
(* removals of replaced objects after it, and neither a failed request, a  *)
(* stop of the process nor a reconciliation takes away what a row needs.   *)
(* Only a commit that looks like a failed one may.                         *)
EvidenceIsStored == ~unanswered => Referenced \subseteq objects

(* "Upload fallito o rollback: compensazione degli oggetti del tentativo,  *)
(* compresi PUT dal risultato incerto": only a stop of the process, a lost *)
(* answer or a failed removal leaves an object that nobody refers to and   *)
(* nobody will remove.                                                     *)
OnlyKnownOrphans ==
  objects \subseteq Referenced \cup orphans \cup
    UNION {requests[p].fresh \cup requests[p].replaced \cup requests[p].doomed : p \in Portals}

(* The POD shows the signature and the photo the row has: a signature that *)
(* is replaced, or a completion by the other portal, never leaves a POD    *)
(* printed from something else.                                            *)
PodShowsEvidence == row.keys["pod"] # NoKey => row.shows = Shown(row)

(* Once a delivery is completed, its row and the objects it names stay,    *)
(* whatever the portals repeat or fail at, as long as commits are answered.*)
CompletedEvidenceStays ==
  [][row.status = "completata" /\ ~unanswered' =>
       row' = row /\ Referenced \cap objects \subseteq objects']_vars

(* "Il POD di una consegna completata resta immutabile nei tentativi       *)
(* ripetuti", with the objects it is made of.                              *)
CompletedEvidenceIsImmutable ==
  [][row.status = "completata" => row' = row /\ Referenced \cap objects \subseteq objects']_vars

(* The storage holds what the rows refer to and what is known to be left    *)
(* over, and of a completed delivery it keeps holding it.                   *)
EvidenceIsKept == []OnlyKnownOrphans /\ CompletedEvidenceStays

==============================================================================
