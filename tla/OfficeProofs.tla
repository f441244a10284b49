---------------------------- MODULE OfficeProofs ----------------------------
(***************************************************************************)
(* Theorems about the office: the evidence of a delivery, the addresses of *)
(* customers, the selection of orders with its drafts and checks, the      *)
(* limits of a plan, and the orders that come in.  They hold for any number*)
(* of requests, keys, customers, orders, operators, vehicles, documents and*)
(* batches.                                                                *)
(***************************************************************************)
EXTENDS MCOffice, FiniteSetTheorems, TLAPS

-----------------------------------------------------------------------------
(* Evidence: types.                                                        *)

(* The rows a delivery starts from and the requests that end have types.   *)
LEMMA ConstantRows ==
  /\ NoEvidence \in Row /\ NoEvidence.keys = [k \in Kinds |-> NoKey]
  /\ Idle \in Request
  /\ Idle.phase = "idle" /\ Idle.row = NoEvidence
  /\ Idle.fresh = {} /\ Idle.replaced = {} /\ Idle.doomed = {}
  BY DEF NoEvidence, Idle, Row, Request, Kinds, Evidences

(* A request after its transaction holds what it removes and nothing else. *)
LEMMA RemovingFields ==
  ASSUME NEW keys \in SUBSET Keys
  PROVE  /\ Removing(keys) \in Request
         /\ Removing(keys).phase # "uploading"
         /\ Removing(keys).row = NoEvidence
         /\ Removing(keys).fresh = {} /\ Removing(keys).replaced = {}
         /\ Removing(keys).doomed = keys
  BY ConstantRows DEF Removing, Request

(* A completed row differs from the committed one by its status only.      *)
LEMMA CompletedRow ==
  ASSUME NEW status \in Row, NEW outcome \in {"completata", "mancata"}
  PROVE  LET closed == [status EXCEPT !.status = outcome]
         IN closed \in Row /\ closed.keys = status.keys /\ closed.shows = status.shows
  BY DEF Row

(* The row of a session stays a row when a key is added to it.             *)
LEMMA WithKeyType ==
  ASSUME EvidenceTypeOK, NEW p \in Portals, NEW kind \in Kinds, NEW key \in Keys
  PROVE  /\ WithKey(p, kind, key) \in Row
         /\ WithKey(p, kind, key).keys = [requests[p].row.keys EXCEPT ![kind] = key]
  <1>1. requests[p].row \in Row
    BY DEF EvidenceTypeOK, Request
  <1>2. requests[p].row.keys \in [Kinds -> Keys \cup {NoKey}] /\ requests[p].row.shows \subseteq Keys
    BY <1>1 DEF Row
  <1>3. Printed(p) \subseteq Keys
    BY <1>2 DEF Printed, Shown, Kinds
  <1> QED
    BY <1>1, <1>2, <1>3 DEF WithKey, Row

(* The keys in hand are keys. *)
LEMMA HeldKeys ==
  ASSUME EvidenceTypeOK, NEW p \in Portals
  PROVE  /\ requests[p] \in Request
         /\ requests[p].row \in Row
         /\ requests[p].fresh \subseteq Keys /\ requests[p].replaced \subseteq Keys
         /\ requests[p].doomed \subseteq Keys
         /\ requests[p].row.keys \in [Kinds -> Keys \cup {NoKey}]
         /\ requests[p].todo \subseteq Kinds
  <1>1. requests[p] \in Request
    BY DEF EvidenceTypeOK
  <1> QED
    BY <1>1 DEF Request, Row

(* Every action preserves the types. *)
LEMMA TypeStep == EvidenceTypeOK /\ [Next]_vars => EvidenceTypeOK'
  <1> SUFFICES ASSUME EvidenceTypeOK, [Next]_vars PROVE EvidenceTypeOK'
    OBVIOUS
  <1> USE DEF EvidenceTypeOK
  <1>1. ASSUME NEW p \in Portals, NEW action \in {"signature", "complete"},
               NEW given \in SUBSET Evidences, NEW pod \in BOOLEAN,
               BeginUpdate(p, action, given, pod)
        PROVE  EvidenceTypeOK'
    <2> DEFINE begun == IF action = "complete" THEN [row EXCEPT !.status = "completata"] ELSE row
               todo == given \cup IF pod THEN {"pod"} ELSE {}
    <2>1. begun \in Row
      BY CompletedRow
    <2>2. todo \subseteq Kinds
      BY DEF Kinds
    <2> HIDE DEF begun, todo
    <2>3. [phase |-> "uploading", row |-> begun, todo |-> todo,
           fresh |-> {}, replaced |-> {}, doomed |-> {}] \in Request
      BY <2>1, <2>2 DEF Request
    <2>4. requests' \in [Portals -> Request]
      BY <1>1, <2>3 DEF BeginUpdate, begun, todo
    <2> QED
      BY <1>1, <2>4 DEF BeginUpdate
  <1>2. ASSUME NEW p \in Portals, NEW kind \in Kinds, NEW key \in Keys, StoreEvidence(p, kind, key)
        PROVE  EvidenceTypeOK'
    <2> DEFINE next == [phase |-> "uploading", row |-> WithKey(p, kind, key),
                        todo |-> requests[p].todo \ {kind},
                        fresh |-> requests[p].fresh \cup {key},
                        replaced |-> requests[p].replaced
                                       \cup ({requests[p].row.keys[kind]} \ {NoKey}),
                        doomed |-> {}]
    <2>1. next \in Request
      <3>1. WithKey(p, kind, key) \in Row
        BY WithKeyType
      <3>2. requests[p].todo \ {kind} \subseteq Kinds /\ requests[p].fresh \cup {key} \subseteq Keys
        BY HeldKeys
      <3>3. requests[p].replaced \cup ({requests[p].row.keys[kind]} \ {NoKey}) \subseteq Keys
        <4>1. requests[p].row.keys[kind] \in Keys \cup {NoKey} /\ requests[p].replaced \subseteq Keys
          BY HeldKeys
        <4> QED
          BY <4>1
      <3> QED
        BY <3>1, <3>2, <3>3 DEF Request
    <2> HIDE DEF next
    <2>2. requests' = [requests EXCEPT ![p] = next]
      BY <1>2 DEF StoreEvidence, next
    <2>3. requests' \in [Portals -> Request]
      BY <2>1, <2>2
    <2> QED
      BY <1>2, <2>3 DEF StoreEvidence
  <1>3. ASSUME NEW p \in Portals, NEW kind \in Kinds, NEW key \in Keys, NEW stored \in BOOLEAN,
               FailUpload(p, kind, key, stored)
        PROVE  EvidenceTypeOK'
    <2>1. Registered(p, key) \subseteq Keys
      BY HeldKeys DEF Registered
    <2>2. requests' \in [Portals -> Request]
      BY <1>3, <2>1, RemovingFields DEF FailUpload
    <2> QED
      BY <1>3, <2>2 DEF FailUpload
  <1>4. ASSUME NEW p \in Portals, FailUpdate(p) PROVE EvidenceTypeOK'
    BY <1>4, HeldKeys, RemovingFields DEF FailUpdate
  <1>5. ASSUME NEW p \in Portals, CommitUpdate(p) PROVE EvidenceTypeOK'
    BY <1>5, HeldKeys, RemovingFields DEF CommitUpdate
  <1>6. ASSUME NEW p \in Portals, LoseCommitAnswer(p) PROVE EvidenceTypeOK'
    BY <1>6, HeldKeys, RemovingFields DEF LoseCommitAnswer
  <1>7. ASSUME NEW p \in Portals, NEW key \in Keys, NEW removed \in BOOLEAN,
               RemoveObject(p, key, removed)
        PROVE  EvidenceTypeOK'
    BY <1>7, HeldKeys, RemovingFields DEF RemoveObject
  <1>8. ASSUME NEW p \in Portals, StopProcess(p) PROVE EvidenceTypeOK'
    BY <1>8, HeldKeys, ConstantRows DEF StopProcess
  <1>9. ASSUME MissDelivery PROVE EvidenceTypeOK'
    BY <1>9, CompletedRow DEF MissDelivery
  <1>10. ASSUME CloseRoute PROVE EvidenceTypeOK'
    BY <1>10 DEF CloseRoute
  <1>11. ASSUME TwoDaysPass PROVE EvidenceTypeOK'
    BY <1>11 DEF TwoDaysPass
  <1>12. ASSUME NEW key \in Keys, Reconcile(key) PROVE EvidenceTypeOK'
    BY <1>12 DEF Reconcile
  <1>13. ASSUME UNCHANGED vars PROVE EvidenceTypeOK'
    BY <1>13 DEF vars
  <1> QED
    BY <1>1, <1>2, <1>3, <1>4, <1>5, <1>6, <1>7, <1>8, <1>9, <1>10, <1>11, <1>12, <1>13
    DEF Next, Updates

(* The initial state has the types. *)
LEMMA InitType == Init => EvidenceTypeOK
  BY ConstantRows DEF Init, EvidenceTypeOK

(* Every state of the evidence has the types of its tables. *)
THEOREM EvidenceTypeCorrect == Spec => []EvidenceTypeOK
  BY InitType, TypeStep, PTL DEF Spec

-----------------------------------------------------------------------------
(* Every key of a row has its object.                                      *)

KeysOf(status) == {status.keys[k] : k \in Kinds} \ {NoKey}

Uploading(p) == requests[p].phase = "uploading"

(* The locks: one request uploads at a time, and the others have nothing   *)
(* in hand but what they are removing.                                     *)
OneUpload == \A p, q \in Portals : Uploading(p) /\ Uploading(q) => p = q

OnlyUploadsHold ==
  \A p \in Portals : ~Uploading(p) => requests[p].fresh = {} /\ requests[p].replaced = {}

(* A key is drawn before it is anywhere. *)
KeysAreUsed ==
  /\ Referenced \subseteq used
  /\ \A p \in Portals : /\ KeysOf(requests[p].row) \subseteq used
                        /\ requests[p].fresh \subseteq used
                        /\ requests[p].replaced \subseteq used
                        /\ requests[p].doomed \subseteq used

(* What a request has uploaded is in the store, and its row names nothing  *)
(* but that and what the committed row names.                              *)
UploadsAreStored ==
  \A p \in Portals : Uploading(p) =>
    /\ requests[p].fresh \subseteq objects
    /\ KeysOf(requests[p].row) \subseteq Referenced \cup requests[p].fresh

(* The keys of a row are all different. *)
Distinct(status) ==
  \A k, l \in Kinds : status.keys[k] = status.keys[l] /\ status.keys[k] # NoKey => k = l

KeysDiffer ==
  /\ Distinct(row)
  /\ \A p \in Portals : Distinct(requests[p].row)

(* What is going to be removed is named by no row. *)
RemovalsAreSafe ==
  \A p \in Portals :
    /\ Uploading(p) => requests[p].replaced \cap KeysOf(requests[p].row) = {}
    /\ Uploading(p) => requests[p].fresh \cap Referenced = {}
    /\ requests[p].doomed \cap Referenced = {}
    /\ \A q \in Portals : Uploading(q) =>
         requests[p].doomed \cap (requests[q].fresh \cup KeysOf(requests[q].row)) = {}

(* What holds as long as every commit was answered. *)
StoredInv ==
  /\ ~unanswered
  /\ EvidenceTypeOK
  /\ OneUpload
  /\ OnlyUploadsHold
  /\ KeysAreUsed
  /\ UploadsAreStored
  /\ KeysDiffer
  /\ RemovalsAreSafe
  /\ EvidenceIsStored

(* The parts of the invariant that are not types. *)
StoredParts ==
  /\ OneUpload
  /\ OnlyUploadsHold
  /\ KeysAreUsed
  /\ UploadsAreStored
  /\ KeysDiffer
  /\ RemovalsAreSafe
  /\ EvidenceIsStored

(* A request may end, and remove keys that no row names or will name. *)
LEMMA EndKeepsParts ==
  ASSUME StoredInv, NEW p \in Portals, NEW keys \in SUBSET Keys,
         requests' = [requests EXCEPT ![p] = Removing(keys)],
         row' = row,
         used \subseteq used', keys \subseteq used',
         keys \cap Referenced = {},
         Referenced \subseteq objects',
         \A q \in Portals \ {p} : Uploading(q) =>
           /\ requests[q].fresh \subseteq objects'
           /\ keys \cap (requests[q].fresh \cup KeysOf(requests[q].row)) = {}
  PROVE  StoredParts'
  <1> USE DEF StoredInv
  <1>1. \A q \in Portals : requests'[q] = IF q = p THEN Removing(keys) ELSE requests[q]
    BY DEF EvidenceTypeOK
  <1>2. /\ requests'[p].phase # "uploading" /\ requests'[p].row = NoEvidence
        /\ requests'[p].fresh = {} /\ requests'[p].replaced = {} /\ requests'[p].doomed = keys
    BY <1>1, RemovingFields
  <1>3. \A k \in Kinds : NoEvidence.keys[k] = NoKey
    BY ConstantRows
  <1>4. OneUpload' /\ OnlyUploadsHold'
    BY <1>1, <1>2 DEF OneUpload, OnlyUploadsHold, Uploading
  <1>5. KeysAreUsed'
    BY <1>1, <1>2, <1>3 DEF KeysAreUsed, Referenced, KeysOf
  <1>6. UploadsAreStored'
    BY <1>1, <1>2 DEF UploadsAreStored, Uploading, Referenced, KeysOf
  <1>7. KeysDiffer'
    BY <1>1, <1>2, <1>3 DEF KeysDiffer, Distinct
  <1>8. RemovalsAreSafe'
    BY <1>1, <1>2, <1>3 DEF RemovalsAreSafe, Uploading, Referenced, KeysOf
  <1>9. EvidenceIsStored'
    BY DEF EvidenceIsStored, Referenced
  <1> QED
    BY <1>4, <1>5, <1>6, <1>7, <1>8, <1>9 DEF StoredParts

(* Every action preserves the invariant. *)
LEMMA StoredStep == StoredInv /\ [Next]_vars /\ ~unanswered' => StoredInv'
  <1> SUFFICES ASSUME StoredInv, [Next]_vars, ~unanswered' PROVE StoredInv'
    OBVIOUS
  <1> USE DEF StoredInv
  <1>type. EvidenceTypeOK'
    BY TypeStep
  <1>answered. \A p \in Portals : ~LoseCommitAnswer(p)
    BY DEF LoseCommitAnswer
  <1>1. ASSUME NEW p \in Portals, NEW action \in {"signature", "complete"},
               NEW given \in SUBSET Evidences, NEW pod \in BOOLEAN,
               BeginUpdate(p, action, given, pod)
        PROVE  StoredParts'
    <2> DEFINE begun == IF action = "complete" THEN [row EXCEPT !.status = "completata"] ELSE row
               todo == given \cup IF pod THEN {"pod"} ELSE {}
               next == [phase |-> "uploading", row |-> begun, todo |-> todo,
                        fresh |-> {}, replaced |-> {}, doomed |-> {}]
    <2>1. begun.keys = row.keys
      BY CompletedRow DEF EvidenceTypeOK
    <2> HIDE DEF begun, todo
    <2>2. \A q \in Portals : requests'[q] = IF q = p THEN next ELSE requests[q]
      BY <1>1 DEF BeginUpdate, EvidenceTypeOK, begun, todo
    <2>3. /\ requests'[p].phase = "uploading" /\ requests'[p].row.keys = row.keys
          /\ requests'[p].fresh = {} /\ requests'[p].replaced = {} /\ requests'[p].doomed = {}
      BY <2>1, <2>2
    <2>4. \A q \in Portals : ~Uploading(q)
      BY <1>1 DEF BeginUpdate, Locked, Uploading
    <2>5. UNCHANGED <<row, objects, used>>
      BY <1>1 DEF BeginUpdate
    <2> HIDE DEF next
    <2>6. OneUpload' /\ OnlyUploadsHold'
      BY <2>2, <2>3, <2>4 DEF OneUpload, OnlyUploadsHold, Uploading
    <2>7. KeysAreUsed'
      BY <2>2, <2>3, <2>5 DEF KeysAreUsed, Referenced, KeysOf
    <2>8. UploadsAreStored'
      BY <2>2, <2>3, <2>4, <2>5 DEF UploadsAreStored, Uploading, Referenced, KeysOf
    <2>9. KeysDiffer'
      BY <2>2, <2>3, <2>5 DEF KeysDiffer, Distinct
    <2>10. RemovalsAreSafe'
      BY <2>2, <2>3, <2>4, <2>5 DEF RemovalsAreSafe, Uploading, Referenced, KeysOf
    <2>11. EvidenceIsStored'
      BY <2>5 DEF EvidenceIsStored, Referenced
    <2> QED
      BY <2>6, <2>7, <2>8, <2>9, <2>10, <2>11 DEF StoredParts
  <1>2. ASSUME NEW p \in Portals, NEW kind \in Kinds, NEW key \in Keys, StoreEvidence(p, kind, key)
        PROVE  StoredParts'
    <2> DEFINE old == requests[p].row.keys[kind]
    <2>1. /\ Uploading(p) /\ key \notin used /\ row' = row
          /\ used' = used \cup {key} /\ objects' = objects \cup {key}
      BY <1>2 DEF StoreEvidence, Turn, Uploading
    <2>2. \A q \in Portals \ {p} : requests'[q] = requests[q] /\ ~Uploading(q)
      BY <1>2, <2>1 DEF StoreEvidence, EvidenceTypeOK, OneUpload
    <2>3. /\ requests'[p].phase = "uploading"
          /\ requests'[p].row = WithKey(p, kind, key)
          /\ requests'[p].fresh = requests[p].fresh \cup {key}
          /\ requests'[p].replaced = requests[p].replaced \cup ({old} \ {NoKey})
          /\ requests'[p].doomed = {}
      BY <1>2 DEF StoreEvidence, EvidenceTypeOK
    <2>4. requests'[p].row.keys = [requests[p].row.keys EXCEPT ![kind] = key]
      BY <2>3, WithKeyType
    <2>5. \A k \in Kinds : requests'[p].row.keys[k] = IF k = kind THEN key
                                                      ELSE requests[p].row.keys[k]
      BY <2>4, HeldKeys
    <2>6. KeysOf(requests[p].row) \subseteq used /\ old \in KeysOf(requests[p].row) \cup {NoKey}
      BY DEF KeysAreUsed, KeysOf
    <2>7. KeysOf(requests'[p].row) \subseteq (KeysOf(requests[p].row) \ {old}) \cup {key}
      BY <2>5 DEF KeysOf, KeysDiffer, Distinct
    <2> HIDE DEF old
    <2>8. OneUpload' /\ OnlyUploadsHold'
      BY <2>1, <2>2, <2>3 DEF OneUpload, OnlyUploadsHold, Uploading
    <2>9. KeysAreUsed'
      <3>1. Referenced' \subseteq used'
        BY <2>1 DEF KeysAreUsed, Referenced
      <3>2. ASSUME NEW q \in Portals
            PROVE  KeysOf(requests'[q].row) \subseteq used' /\ requests'[q].fresh \subseteq used'
                   /\ requests'[q].replaced \subseteq used' /\ requests'[q].doomed \subseteq used'
        BY <2>1, <2>2, <2>3, <2>6, <2>7 DEF KeysAreUsed
      <3> QED
        BY <3>1, <3>2 DEF KeysAreUsed, KeysOf
    <2>10. UploadsAreStored'
      <3>1. Referenced' = Referenced
        BY <2>1 DEF Referenced
      <3>2. /\ requests'[p].fresh \subseteq objects'
            /\ KeysOf(requests'[p].row) \subseteq Referenced \cup requests'[p].fresh
        BY <2>1, <2>3, <2>7 DEF UploadsAreStored
      <3> QED
        BY <2>2, <3>1, <3>2 DEF UploadsAreStored, Uploading, KeysOf
    <2>11. KeysDiffer'
      BY <2>1, <2>2, <2>5, <2>6 DEF KeysDiffer, Distinct, KeysOf
    <2>12. RemovalsAreSafe'
      <3>1. Referenced' = Referenced /\ key \notin Referenced
        BY <2>1 DEF Referenced, KeysAreUsed
      <3>2. requests'[p].replaced \cap KeysOf(requests'[p].row) = {}
        BY <2>1, <2>3, <2>6, <2>7 DEF RemovalsAreSafe, KeysAreUsed
      <3>3. requests'[p].fresh \cap Referenced = {}
        BY <2>1, <2>3, <3>1 DEF RemovalsAreSafe
      <3>4. ASSUME NEW q \in Portals
            PROVE  /\ requests'[q].doomed \cap Referenced = {}
                   /\ requests'[q].doomed \cap (requests'[p].fresh \cup KeysOf(requests'[p].row)) = {}
        BY <2>1, <2>2, <2>3, <2>7 DEF RemovalsAreSafe, KeysAreUsed
      <3>5. \A q \in Portals : requests'[q].phase = "uploading" => q = p
        BY <2>2 DEF Uploading
      <3> QED
        BY <3>1, <3>2, <3>3, <3>4, <3>5 DEF RemovalsAreSafe, Uploading, KeysOf
    <2>13. EvidenceIsStored'
      BY <2>1 DEF EvidenceIsStored, Referenced
    <2> QED
      BY <2>8, <2>9, <2>10, <2>11, <2>12, <2>13 DEF StoredParts
  <1>3. ASSUME NEW p \in Portals, NEW kind \in Kinds, NEW key \in Keys, NEW stored \in BOOLEAN,
               FailUpload(p, kind, key, stored)
        PROVE  StoredParts'
    <2>1. /\ Uploading(p) /\ key \notin used /\ used' = used \cup {key}
          /\ row' = row /\ objects \subseteq objects'
          /\ requests' = [requests EXCEPT ![p] = Removing(requests[p].fresh \cup {key})]
      BY <1>3 DEF FailUpload, Turn, Uploading, Registered
    <2>2. requests[p].fresh \cup {key} \subseteq Keys
      BY HeldKeys
    <2>3. (requests[p].fresh \cup {key}) \cap Referenced = {}
      BY <2>1 DEF RemovalsAreSafe, KeysAreUsed
    <2>4. \A q \in Portals \ {p} : ~Uploading(q)
      BY <2>1 DEF OneUpload
    <2>5. requests[p].fresh \subseteq used /\ Referenced \subseteq objects'
      BY <2>1 DEF KeysAreUsed, EvidenceIsStored
    <2> QED
      BY <2>1, <2>2, <2>3, <2>4, <2>5, EndKeepsParts
  <1>4. ASSUME NEW p \in Portals, FailUpdate(p) PROVE StoredParts'
    <2>1. /\ Uploading(p) /\ UNCHANGED <<row, used, objects>>
          /\ requests' = [requests EXCEPT ![p] = Removing(requests[p].fresh)]
      BY <1>4 DEF FailUpdate, Uploading
    <2>2. requests[p].fresh \subseteq Keys
      BY HeldKeys
    <2>3. requests[p].fresh \cap Referenced = {} /\ requests[p].fresh \subseteq used
      BY <2>1 DEF RemovalsAreSafe, KeysAreUsed
    <2>4. \A q \in Portals \ {p} : ~Uploading(q)
      BY <2>1 DEF OneUpload
    <2>5. Referenced \subseteq objects'
      BY <2>1 DEF EvidenceIsStored
    <2> QED
      BY <2>1, <2>2, <2>3, <2>4, <2>5, EndKeepsParts
  <1>5. ASSUME NEW p \in Portals, CommitUpdate(p) PROVE StoredParts'
    <2>1. requests[p].replaced \in SUBSET Keys
      BY HeldKeys
    <2>2. \A q \in Portals : requests'[q] = IF q = p THEN Removing(requests[p].replaced)
                                                     ELSE requests[q]
      BY <1>5 DEF CommitUpdate, EvidenceTypeOK
    <2>3. /\ requests'[p].phase # "uploading" /\ requests'[p].row = NoEvidence
          /\ requests'[p].fresh = {} /\ requests'[p].replaced = {}
          /\ requests'[p].doomed = requests[p].replaced
      BY <2>1, <2>2, RemovingFields
    <2>4. \A k \in Kinds : NoEvidence.keys[k] = NoKey
      BY ConstantRows
    <2>5. row' = requests[p].row /\ UNCHANGED <<objects, used>> /\ Uploading(p)
      BY <1>5 DEF CommitUpdate, Uploading
    <2>6. Referenced' = KeysOf(requests[p].row)
      BY <2>5 DEF Referenced, KeysOf
    <2>7. OneUpload' /\ OnlyUploadsHold'
      BY <2>2, <2>3 DEF OneUpload, OnlyUploadsHold, Uploading
    <2>8. KeysAreUsed'
      BY <2>2, <2>3, <2>4, <2>5, <2>6 DEF KeysAreUsed, KeysOf
    <2>9. UploadsAreStored'
      BY <2>2, <2>3, <2>5 DEF UploadsAreStored, OneUpload, Uploading
    <2>10. KeysDiffer'
      BY <2>2, <2>3, <2>4, <2>5 DEF KeysDiffer, Distinct
    <2>11. RemovalsAreSafe'
      BY <2>2, <2>3, <2>5, <2>6 DEF RemovalsAreSafe, OneUpload, Uploading
    <2>12. EvidenceIsStored'
      BY <2>5, <2>6 DEF EvidenceIsStored, UploadsAreStored
    <2> QED
      BY <2>7, <2>8, <2>9, <2>10, <2>11, <2>12 DEF StoredParts
  <1>6. ASSUME NEW p \in Portals, LoseCommitAnswer(p) PROVE StoredParts'
    BY <1>6 DEF LoseCommitAnswer
  <1>7. ASSUME NEW p \in Portals, NEW key \in Keys, NEW removed \in BOOLEAN,
               RemoveObject(p, key, removed)
        PROVE  StoredParts'
    <2> DEFINE keys == requests[p].doomed \ {key}
    <2>1. /\ key \in requests[p].doomed /\ UNCHANGED <<row, used>>
          /\ objects \ {key} \subseteq objects'
          /\ requests' = [requests EXCEPT ![p] = Removing(keys)]
      BY <1>7 DEF RemoveObject
    <2>2. keys \in SUBSET Keys
      BY HeldKeys
    <2>3. requests[p].doomed \cap Referenced = {} /\ requests[p].doomed \subseteq used
      BY DEF RemovalsAreSafe, KeysAreUsed
    <2>4. \A q \in Portals : Uploading(q) =>
            /\ requests[p].doomed \cap (requests[q].fresh \cup KeysOf(requests[q].row)) = {}
            /\ requests[q].fresh \subseteq objects
      BY DEF RemovalsAreSafe, UploadsAreStored
    <2>5. Referenced \subseteq objects'
      BY <2>1, <2>3 DEF EvidenceIsStored
    <2>6. keys \cap Referenced = {} /\ keys \subseteq used'
      BY <2>1, <2>3
    <2>7. \A q \in Portals \ {p} : Uploading(q) =>
            /\ requests[q].fresh \subseteq objects'
            /\ keys \cap (requests[q].fresh \cup KeysOf(requests[q].row)) = {}
      BY <2>1, <2>4
    <2> HIDE DEF keys
    <2> QED
      BY <2>1, <2>2, <2>5, <2>6, <2>7, EndKeepsParts
  <1>8. ASSUME NEW p \in Portals, StopProcess(p) PROVE StoredParts'
    <2>1. /\ UNCHANGED <<row, used, objects>>
          /\ requests' = [requests EXCEPT ![p] = Removing({})]
      BY <1>8 DEF StopProcess, Removing
    <2>2. \A q \in Portals : Uploading(q) => requests[q].fresh \subseteq objects'
      BY <2>1 DEF UploadsAreStored
    <2>3. Referenced \subseteq objects'
      BY <2>1 DEF EvidenceIsStored
    <2> QED
      BY <2>1, <2>2, <2>3, EndKeepsParts
  <1>9. ASSUME MissDelivery PROVE StoredParts'
    <2>1. row'.keys = row.keys /\ UNCHANGED <<requests, objects, used>>
      BY <1>9, CompletedRow DEF MissDelivery, EvidenceTypeOK
    <2>2. Referenced' = Referenced
      BY <2>1 DEF Referenced
    <2> QED
      BY <2>1, <2>2 DEF StoredParts, OneUpload, OnlyUploadsHold, KeysAreUsed, UploadsAreStored,
         KeysDiffer, Distinct, RemovalsAreSafe, EvidenceIsStored, Uploading
  <1>10. ASSUME UNCHANGED <<row, requests, objects, used>> PROVE StoredParts'
    <2>1. Referenced' = Referenced
      BY <1>10 DEF Referenced
    <2> QED
      BY <1>10, <2>1 DEF StoredParts, OneUpload, OnlyUploadsHold, KeysAreUsed, UploadsAreStored,
         KeysDiffer, RemovalsAreSafe, EvidenceIsStored, Uploading
  <1>11. ASSUME NEW key \in Keys, Reconcile(key) PROVE StoredParts'
    <2>1. /\ objects' = objects \ {key} /\ key \notin Referenced
          /\ UNCHANGED <<row, requests, used>>
      BY <1>11 DEF Reconcile, Reconcilable
    <2>2. \A q \in Portals : ~Uploading(q)
      BY <1>11 DEF Reconcile, Reconcilable, Locked, Uploading
    <2>3. Referenced' = Referenced
      BY <2>1 DEF Referenced
    <2> QED
      BY <2>1, <2>2, <2>3 DEF StoredParts, OneUpload, OnlyUploadsHold, KeysAreUsed,
         UploadsAreStored, KeysDiffer, RemovalsAreSafe, EvidenceIsStored, Uploading
  <1>12. CloseRoute \/ TwoDaysPass \/ UNCHANGED vars => UNCHANGED <<row, requests, objects, used>>
    BY DEF CloseRoute, TwoDaysPass, vars
  <1>13. StoredParts'
    BY <1>1, <1>2, <1>3, <1>4, <1>5, <1>6, <1>7, <1>8, <1>9, <1>10, <1>11, <1>12
    DEF Next, Updates
  <1> QED
    BY <1>type, <1>13 DEF StoredParts

(* The invariant with its condition: it says nothing once an answer was    *)
(* lost, and an answer never comes back.                                   *)
AnsweredInv == ~unanswered => StoredInv

(* Nothing is uploaded and nothing is named at first. *)
LEMMA InitAnswered == Init => AnsweredInv
  <1> SUFFICES ASSUME Init PROVE StoredInv
    BY DEF AnsweredInv
  <1>1. EvidenceTypeOK
    BY InitType
  <1>2. \A k \in Kinds : NoEvidence.keys[k] = NoKey
    BY ConstantRows
  <1>3. /\ row = NoEvidence /\ objects = {} /\ used = {} /\ ~unanswered
        /\ \A p \in Portals : requests[p] = Idle
    BY DEF Init
  <1>4. Referenced = {} /\ KeysOf(NoEvidence) = {}
    BY <1>2, <1>3 DEF Referenced, KeysOf
  <1>5. \A p \in Portals : /\ requests[p].phase = "idle" /\ requests[p].row = NoEvidence
                           /\ requests[p].fresh = {} /\ requests[p].replaced = {}
                           /\ requests[p].doomed = {}
    BY <1>3, ConstantRows
  <1>6. OneUpload /\ OnlyUploadsHold /\ UploadsAreStored
    BY <1>5 DEF OneUpload, OnlyUploadsHold, UploadsAreStored, Uploading
  <1>7. KeysAreUsed /\ RemovalsAreSafe /\ EvidenceIsStored
    BY <1>4, <1>5 DEF KeysAreUsed, RemovalsAreSafe, EvidenceIsStored, Uploading
  <1>8. KeysDiffer
    BY <1>2, <1>3, <1>5 DEF KeysDiffer, Distinct
  <1> QED
    BY <1>1, <1>3, <1>6, <1>7, <1>8 DEF StoredInv

(* An answer that was lost stays lost. *)
LEMMA AnsweredStep ==
  /\ unanswered /\ [Next]_vars => unanswered'
  /\ AnsweredInv /\ [Next]_vars => AnsweredInv'
  <1>1. unanswered /\ [Next]_vars => unanswered'
    BY DEF Next, Updates, BeginUpdate, StoreEvidence, FailUpload, FailUpdate, CommitUpdate,
       LoseCommitAnswer, RemoveObject, StopProcess, MissDelivery, CloseRoute, TwoDaysPass,
       Reconcile, vars
  <1> QED
    BY <1>1, StoredStep DEF AnsweredInv

(* The row of a completed or open delivery names only objects that are in  *)
(* the store, as long as every commit that takes effect is answered.       *)
THEOREM EvidenceStored == Spec => []EvidenceIsStored
  <1>1. AnsweredInv => EvidenceIsStored
    BY DEF AnsweredInv, StoredInv, EvidenceIsStored
  <1> QED
    BY InitAnswered, AnsweredStep, <1>1, PTL DEF Spec

-----------------------------------------------------------------------------
(* The POD shows the evidence of its row.                                  *)

(* A row with a POD is that of a completed delivery. *)
PodFits(status) ==
  status.keys["pod"] # NoKey => status.status = "completata" /\ status.shows = Shown(status)

(* The POD is the last object of a request, and comes with a completion.   *)
PodIsLast ==
  \A p \in Portals : Uploading(p) =>
    /\ PodFits(requests[p].row)
    /\ requests[p].row.keys["pod"] # NoKey => requests[p].todo = {}
    /\ "pod" \in requests[p].todo => requests[p].row.status = "completata"

PodInv ==
  /\ EvidenceTypeOK
  /\ PodFits(row)
  /\ PodIsLast

(* A request that ends leaves nothing to be printed. *)
LEMMA EndKeepsPods ==
  ASSUME PodInv, NEW p \in Portals, NEW keys \in SUBSET Keys,
         requests' = [requests EXCEPT ![p] = Removing(keys)]
  PROVE  PodIsLast'
  <1>1. \A q \in Portals : requests'[q] = IF q = p THEN Removing(keys) ELSE requests[q]
    BY DEF PodInv, EvidenceTypeOK
  <1>2. Removing(keys).phase # "uploading"
    BY RemovingFields
  <1> QED
    BY <1>1, <1>2 DEF PodInv, PodIsLast, PodFits, Uploading, Shown

(* Every action preserves the invariant. *)
LEMMA PodStep == PodInv /\ [Next]_vars => PodInv'
  <1> SUFFICES ASSUME PodInv, [Next]_vars PROVE PodInv'
    OBVIOUS
  <1>type. EvidenceTypeOK /\ EvidenceTypeOK'
    BY TypeStep DEF PodInv
  <1>1. ASSUME NEW p \in Portals, NEW action \in {"signature", "complete"},
               NEW given \in SUBSET Evidences, NEW pod \in BOOLEAN,
               BeginUpdate(p, action, given, pod)
        PROVE  PodFits(row)' /\ PodIsLast'
    <2> DEFINE begun == IF action = "complete" THEN [row EXCEPT !.status = "completata"] ELSE row
               todo == given \cup IF pod THEN {"pod"} ELSE {}
               next == [phase |-> "uploading", row |-> begun, todo |-> todo,
                        fresh |-> {}, replaced |-> {}, doomed |-> {}]
    <2>1. row.keys["pod"] = NoKey /\ row' = row
      BY <1>1 DEF BeginUpdate, MayChange, PodInv, PodFits
    <2>2. begun.keys["pod"] = NoKey
      BY <2>1, <1>type, CompletedRow DEF EvidenceTypeOK
    <2>3. "pod" \in todo => begun.status = "completata"
      <3>1. "pod" \in todo => action = "complete"
        BY <1>1 DEF BeginUpdate, Evidences
      <3>2. [row EXCEPT !.status = "completata"].status = "completata"
        BY <1>type DEF EvidenceTypeOK, Row
      <3> QED
        BY <3>1, <3>2
    <2> HIDE DEF begun, todo
    <2>4. \A q \in Portals : requests'[q] = IF q = p THEN next ELSE requests[q]
      BY <1>1, <1>type DEF BeginUpdate, EvidenceTypeOK, begun, todo
    <2>5. next.row = begun /\ next.todo = todo
      OBVIOUS
    <2> HIDE DEF next
    <2>6. PodIsLast'
      BY <2>2, <2>3, <2>4, <2>5 DEF PodInv, PodIsLast, PodFits, Uploading, Shown
    <2>7. PodFits(row)'
      BY <2>1 DEF PodInv, PodFits, Shown
    <2> QED
      BY <2>6, <2>7
  <1>2. ASSUME NEW p \in Portals, NEW kind \in Kinds, NEW key \in Keys, StoreEvidence(p, kind, key)
        PROVE  PodFits(row)' /\ PodIsLast'
    <2> DEFINE next == WithKey(p, kind, key)
    <2>1. /\ requests[p].phase = "uploading" /\ kind \in requests[p].todo
          /\ kind = "pod" => requests[p].todo = {"pod"}
          /\ row' = row
      BY <1>2 DEF StoreEvidence, Turn
    <2>2. \A q \in Portals \ {p} : requests'[q] = requests[q]
      BY <1>2, <1>type DEF StoreEvidence, EvidenceTypeOK
    <2>3. requests'[p].row = next /\ requests'[p].todo = requests[p].todo \ {kind}
      BY <1>2, <1>type DEF StoreEvidence, EvidenceTypeOK
    <2>4. /\ next.keys = [requests[p].row.keys EXCEPT ![kind] = key]
          /\ next.status = requests[p].row.status
          /\ kind = "pod" => next.shows = Shown(requests[p].row)
      BY <1>type, WithKeyType DEF WithKey, Printed
    <2>5. \A k \in Kinds : next.keys[k] = IF k = kind THEN key ELSE requests[p].row.keys[k]
      BY <2>4, <1>type, HeldKeys
    <2>6. requests[p].row.keys["pod"] = NoKey
      BY <2>1 DEF PodInv, PodIsLast, Uploading
    <2> HIDE DEF next
    <2>7. CASE kind = "pod"
      <3>1. requests'[p].todo = {} /\ next.status = "completata"
        BY <2>1, <2>3, <2>4, <2>7 DEF PodInv, PodIsLast, Uploading
      <3>2. Shown(next) = Shown(requests[p].row)
        BY <2>5, <2>7 DEF Shown, Evidences, Kinds
      <3>3. PodFits(next)
        BY <3>1, <3>2, <2>4, <2>7 DEF PodFits
      <3>4. PodIsLast'
        BY <2>2, <2>3, <3>1, <3>3 DEF PodInv, PodIsLast, PodFits, Uploading, Shown
      <3> QED
        BY <2>1, <3>4 DEF PodInv, PodFits, Shown
    <2>8. CASE kind # "pod"
      <3>1. next.keys["pod"] = NoKey
        BY <2>5, <2>6, <2>8 DEF Kinds
      <3>2. "pod" \in requests'[p].todo => next.status = "completata"
        BY <2>1, <2>3, <2>4 DEF PodInv, PodIsLast, Uploading
      <3>3. PodIsLast'
        BY <2>2, <2>3, <3>1, <3>2 DEF PodInv, PodIsLast, PodFits, Uploading, Shown
      <3> QED
        BY <2>1, <3>3 DEF PodInv, PodFits, Shown
    <2> QED
      BY <2>7, <2>8
  <1>3. ASSUME NEW p \in Portals, NEW keys \in SUBSET Keys, row' = row,
               requests' = [requests EXCEPT ![p] = Removing(keys)]
        PROVE  PodFits(row)' /\ PodIsLast'
    BY <1>3, EndKeepsPods DEF PodInv, PodFits, Shown
  <1>4. ASSUME NEW p \in Portals, NEW keys \in SUBSET Keys,
               requests[p].phase = "uploading", row' = requests[p].row,
               requests' = [requests EXCEPT ![p] = Removing(keys)]
        PROVE  PodFits(row)' /\ PodIsLast'
    BY <1>4, EndKeepsPods DEF PodInv, PodIsLast, PodFits, Uploading, Shown
  <1>5. ASSUME MissDelivery PROVE PodFits(row)' /\ PodIsLast'
    <2>1. row.keys["pod"] = NoKey /\ row'.keys = row.keys /\ requests' = requests
      BY <1>5, <1>type, CompletedRow DEF MissDelivery, MayChange, PodInv, PodFits, EvidenceTypeOK
    <2> QED
      BY <2>1 DEF PodInv, PodFits, PodIsLast, Uploading, Shown
  <1>6. ASSUME UNCHANGED <<row, requests>> PROVE PodFits(row)' /\ PodIsLast'
    BY <1>6 DEF PodInv, PodFits, PodIsLast, Uploading, Shown
  <1>7. PodFits(row)' /\ PodIsLast'
    <2>1. ASSUME NEW p \in Portals, Updates(p) PROVE PodFits(row)' /\ PodIsLast'
      <3>1. ASSUME NEW kind \in Kinds, NEW key \in Keys, NEW stored \in BOOLEAN,
                   FailUpload(p, kind, key, stored)
            PROVE  PodFits(row)' /\ PodIsLast'
        <4> DEFINE keys == Registered(p, key)
        <4>1. keys \in SUBSET Keys
          BY <1>type, HeldKeys DEF Registered
        <4>2. row' = row /\ requests' = [requests EXCEPT ![p] = Removing(keys)]
          BY <3>1 DEF FailUpload
        <4> HIDE DEF keys
        <4> QED
          BY <4>1, <4>2, <1>3
      <3>2. FailUpdate(p) => PodFits(row)' /\ PodIsLast'
        BY <1>3, <1>type, HeldKeys DEF FailUpdate
      <3>3. CommitUpdate(p) => PodFits(row)' /\ PodIsLast'
        BY <1>4, <1>type, HeldKeys DEF CommitUpdate
      <3>4. LoseCommitAnswer(p) => PodFits(row)' /\ PodIsLast'
        BY <1>4, <1>type, HeldKeys DEF LoseCommitAnswer
      <3>5. ASSUME NEW key \in Keys, NEW removed \in BOOLEAN, RemoveObject(p, key, removed)
            PROVE  PodFits(row)' /\ PodIsLast'
        <4> DEFINE keys == requests[p].doomed \ {key}
        <4>1. keys \in SUBSET Keys
          BY <1>type, HeldKeys
        <4>2. row' = row /\ requests' = [requests EXCEPT ![p] = Removing(keys)]
          BY <3>5 DEF RemoveObject
        <4> HIDE DEF keys
        <4> QED
          BY <4>1, <4>2, <1>3
      <3>6. StopProcess(p) => PodFits(row)' /\ PodIsLast'
        <4> SUFFICES ASSUME StopProcess(p) PROVE PodFits(row)' /\ PodIsLast'
          OBVIOUS
        <4>1. Removing({}) = Idle /\ {} \in SUBSET Keys
          BY DEF Removing
        <4>2. row' = row /\ requests' = [requests EXCEPT ![p] = Removing({})]
          BY <4>1 DEF StopProcess
        <4> QED
          BY <4>1, <4>2, <1>3
      <3> QED
        BY <2>1, <1>1, <1>2, <3>1, <3>2, <3>3, <3>4, <3>5, <3>6 DEF Updates
    <2>2. CloseRoute \/ TwoDaysPass \/ (\E key \in Keys : Reconcile(key)) \/ UNCHANGED vars
            => UNCHANGED <<row, requests>>
      BY DEF CloseRoute, TwoDaysPass, Reconcile, vars
    <2> QED
      BY <2>1, <2>2, <1>5, <1>6 DEF Next
  <1> QED
    BY <1>type, <1>7 DEF PodInv

(* A POD is always printed from the signature and the photo its row names, *)
(* whichever portals wrote them and whatever failed.                       *)
THEOREM PodShows == Spec => []PodShowsEvidence
  <1>1. Init => PodInv
    <2> SUFFICES ASSUME Init PROVE PodInv
      OBVIOUS
    <2>1. row.keys["pod"] = NoKey /\ \A p \in Portals : requests[p].phase = "idle"
      BY ConstantRows DEF Init, Kinds
    <2> QED
      BY <2>1, InitType DEF PodInv, PodFits, PodIsLast, Uploading
  <1>2. PodInv /\ [Next]_vars => PodInv'
    BY PodStep
  <1>3. PodInv => PodShowsEvidence
    BY DEF PodInv, PodFits, PodShowsEvidence
  <1> QED
    BY <1>1, <1>2, <1>3, PTL DEF Spec

-----------------------------------------------------------------------------
(* What is left over is known, and what is completed stays.                *)

(* What a request has in hand and will name or remove. *)
InHand(p) == requests[p].fresh \cup requests[p].replaced \cup requests[p].doomed

(* What the row of a session says of a kind it has not come to is what the *)
(* committed row says; what it uploaded it names; and what it no longer    *)
(* names it will remove.                                                   *)
HandedOver(p) ==
  /\ \A k \in requests[p].todo : requests[p].row.keys[k] = row.keys[k]
  /\ \A f \in requests[p].fresh : \E k \in Kinds \ requests[p].todo : requests[p].row.keys[k] = f
  /\ requests[p].replaced \subseteq Referenced
  /\ Referenced \subseteq KeysOf(requests[p].row) \cup requests[p].replaced
  /\ requests[p].doomed = {}

(* Every outcome closes the evidence: while a request uploads, the         *)
(* delivery has none yet.                                                  *)
OpenWhileUploading ==
  \A p \in Portals : Uploading(p) => row.status = "in_attesa"

(* An idle request has nothing to remove. *)
IdleHoldsNothing == \A p \in Portals : requests[p].phase = "idle" => requests[p].doomed = {}

(* The parts of the invariant that are not types. *)
KeptParts ==
  /\ OneUpload
  /\ IdleHoldsNothing
  /\ OnlyUploadsHold
  /\ OnlyKnownOrphans
  /\ OpenWhileUploading
  /\ \A p \in Portals : Uploading(p) => HandedOver(p)

KeptInv == EvidenceTypeOK /\ KeptParts

(* An object has a reason to be in the store. *)
LEMMA KnownObjects ==
  OnlyKnownOrphans <=>
    \A o \in objects : o \in Referenced \cup orphans \/ \E p \in Portals : o \in InHand(p)
  BY DEF OnlyKnownOrphans, InHand

(* What a request uploaded its row names. *)
LEMMA FreshAreNamed ==
  ASSUME EvidenceTypeOK, NEW p \in Portals, HandedOver(p)
  PROVE  requests[p].fresh \subseteq KeysOf(requests[p].row)
  <1>1. requests[p].fresh \subseteq Keys
    BY HeldKeys
  <1> QED
    BY <1>1, EvidenceAssumption DEF HandedOver, KeysOf

(* A request may end as long as it removes, or leaves as known orphans, all *)
(* that it had in hand and no row names.                                   *)
LEMMA EndKeepsKept ==
  ASSUME KeptInv, NEW p \in Portals, NEW keys \in SUBSET Keys,
         requests' = [requests EXCEPT ![p] = Removing(keys)],
         row' = row,
         objects' \subseteq objects \cup keys,
         orphans \subseteq orphans',
         InHand(p) \cap objects' \subseteq Referenced \cup keys \cup orphans'
  PROVE  KeptParts'
  <1>1. \A q \in Portals : requests'[q] = IF q = p THEN Removing(keys) ELSE requests[q]
    BY DEF KeptInv, EvidenceTypeOK
  <1>2. /\ requests'[p].phase # "uploading"
        /\ requests'[p].fresh = {} /\ requests'[p].replaced = {} /\ requests'[p].doomed = keys
    BY <1>1, RemovingFields
  <1>idle. IdleHoldsNothing'
    <2>1. Removing(keys).phase = "idle" => keys = {}
      BY DEF Removing
    <2> QED
      BY <1>1, <1>2, <2>1 DEF KeptInv, KeptParts, IdleHoldsNothing
  <1>3. Referenced' = Referenced
    BY DEF Referenced
  <1>4. OneUpload' /\ OnlyUploadsHold' /\ OpenWhileUploading'
    BY <1>1, <1>2 DEF KeptInv, KeptParts, OneUpload, OnlyUploadsHold, OpenWhileUploading, Uploading
  <1>5. OnlyKnownOrphans'
    <2>1. ASSUME NEW o \in objects'
          PROVE  o \in Referenced' \cup orphans' \/ \E q \in Portals : o \in InHand(q)'
      <3>1. CASE o \in keys
        BY <3>1, <1>2 DEF InHand
      <3>2. CASE o \in InHand(p)
        BY <3>2, <1>2, <1>3 DEF InHand
      <3>3. CASE o \in Referenced \cup orphans
        BY <3>3, <1>3
      <3>4. ASSUME NEW q \in Portals \ {p}, o \in InHand(q)
            PROVE  o \in InHand(q)'
        BY <3>4, <1>1 DEF InHand
      <3>5. o \in keys \/ o \in Referenced \cup orphans \/ \E q \in Portals : o \in InHand(q)
        BY KnownObjects DEF KeptInv, KeptParts
      <3> QED
        BY <3>1, <3>2, <3>3, <3>4, <3>5
    <2> QED
      BY <2>1 DEF OnlyKnownOrphans, InHand
  <1>6. ASSUME NEW q \in Portals, Uploading(q)'
        PROVE  HandedOver(q)'
    <2>1. q # p /\ requests'[q] = requests[q]
      BY <1>1, <1>2, <1>6 DEF Uploading
    <2>2. HandedOver(q)
      BY <2>1, <1>6 DEF KeptInv, KeptParts, Uploading
    <2> QED
      BY <2>1, <2>2, <1>3 DEF HandedOver, KeysOf
  <1> QED
    BY <1>idle, <1>4, <1>5, <1>6 DEF KeptParts

(* A commit makes the row of the session the row of the delivery, as long  *)
(* as what it no longer names is removed or a known orphan.                *)
LEMMA CommitKeepsKept ==
  ASSUME KeptInv, NEW p \in Portals, NEW keys \in SUBSET Keys,
         Uploading(p),
         row' = requests[p].row,
         requests' = [requests EXCEPT ![p] = Removing(keys)],
         objects' = objects,
         orphans \subseteq orphans',
         requests[p].replaced \subseteq keys \cup orphans'
  PROVE  KeptParts'
  <1>1. \A q \in Portals : requests'[q] = IF q = p THEN Removing(keys) ELSE requests[q]
    BY DEF KeptInv, EvidenceTypeOK
  <1>2. /\ requests'[p].phase # "uploading"
        /\ requests'[p].fresh = {} /\ requests'[p].replaced = {} /\ requests'[p].doomed = keys
    BY <1>1, RemovingFields
  <1>idle. IdleHoldsNothing'
    <2>1. Removing(keys).phase = "idle" => keys = {}
      BY DEF Removing
    <2> QED
      BY <1>1, <1>2, <2>1 DEF KeptInv, KeptParts, IdleHoldsNothing
  <1>3. Referenced' = KeysOf(requests[p].row)
    BY DEF Referenced, KeysOf
  <1>4. HandedOver(p)
    BY DEF KeptInv, KeptParts
  <1>5. \A q \in Portals : ~Uploading(q)'
    BY <1>1, <1>2 DEF KeptInv, KeptParts, OneUpload, Uploading
  <1>6. OneUpload' /\ OpenWhileUploading' /\ OnlyUploadsHold'
    BY <1>1, <1>2, <1>5 DEF KeptInv, KeptParts, OneUpload, OnlyUploadsHold, OpenWhileUploading, Uploading
  <1>7. OnlyKnownOrphans'
    <2>1. InHand(p) \subseteq Referenced' \cup keys \cup orphans'
      BY <1>3, <1>4, FreshAreNamed DEF InHand, HandedOver, KeptInv
    <2>2. Referenced \subseteq Referenced' \cup keys \cup orphans'
      BY <1>3, <1>4 DEF HandedOver
    <2>3. ASSUME NEW o \in objects'
          PROVE  o \in Referenced' \cup orphans' \/ \E q \in Portals : o \in InHand(q)'
      <3>1. o \in keys => o \in InHand(p)'
        BY <1>2 DEF InHand
      <3>2. ASSUME NEW q \in Portals \ {p}, o \in InHand(q)
            PROVE  o \in InHand(q)'
        BY <3>2, <1>1 DEF InHand
      <3>3. o \in Referenced \cup orphans \/ \E q \in Portals : o \in InHand(q)
        BY KnownObjects DEF KeptInv, KeptParts
      <3> QED
        BY <2>1, <2>2, <3>1, <3>2, <3>3
    <2> QED
      BY <2>3 DEF OnlyKnownOrphans, InHand
  <1> QED
    BY <1>idle, <1>5, <1>6, <1>7 DEF KeptParts

(* Every action preserves the invariant. *)
LEMMA KeptStep == KeptInv /\ [Next]_vars => KeptInv'
  <1> SUFFICES ASSUME KeptInv, [Next]_vars PROVE KeptInv'
    OBVIOUS
  <1>type. EvidenceTypeOK /\ EvidenceTypeOK'
    BY TypeStep DEF KeptInv
  <1>1. ASSUME NEW p \in Portals, NEW action \in {"signature", "complete"},
               NEW given \in SUBSET Evidences, NEW pod \in BOOLEAN,
               BeginUpdate(p, action, given, pod)
        PROVE  KeptParts'
    <2> DEFINE begun == IF action = "complete" THEN [row EXCEPT !.status = "completata"] ELSE row
               todo == given \cup IF pod THEN {"pod"} ELSE {}
               next == [phase |-> "uploading", row |-> begun, todo |-> todo,
                        fresh |-> {}, replaced |-> {}, doomed |-> {}]
    <2>1. begun.keys = row.keys
      BY <1>type, CompletedRow DEF EvidenceTypeOK
    <2> HIDE DEF begun, todo
    <2>2. \A q \in Portals : requests'[q] = IF q = p THEN next ELSE requests[q]
      BY <1>1, <1>type DEF BeginUpdate, EvidenceTypeOK, begun, todo
    <2>3. /\ requests'[p].phase = "uploading" /\ requests'[p].row.keys = row.keys
          /\ requests'[p].fresh = {} /\ requests'[p].replaced = {} /\ requests'[p].doomed = {}
      BY <2>1, <2>2
    <2>4. /\ row.status = "in_attesa" /\ requests[p].phase = "idle"
          /\ \A q \in Portals : ~Uploading(q)
      BY <1>1 DEF BeginUpdate, Locked, Uploading, MayChange
    <2>5. UNCHANGED <<row, objects, orphans>>
      BY <1>1 DEF BeginUpdate
    <2> HIDE DEF next
    <2>6. OneUpload' /\ OnlyUploadsHold' /\ OpenWhileUploading'
      BY <2>2, <2>3, <2>4, <2>5
      DEF KeptInv, KeptParts, OneUpload, OnlyUploadsHold, OpenWhileUploading, Uploading
    <2>7. \A q \in Portals : Uploading(q)' => q = p
      BY <2>2, <2>4 DEF Uploading
    <2>8. Referenced' = Referenced /\ KeysOf(requests[p].row)' = Referenced
      BY <2>3, <2>5 DEF Referenced, KeysOf
    <2>9. HandedOver(p)'
      BY <2>3, <2>5, <2>8, <1>type, HeldKeys DEF HandedOver, EvidenceTypeOK, Request
    <2>10. OnlyKnownOrphans'
      <3>1. InHand(p) = {}
        BY <2>4 DEF KeptInv, KeptParts, OnlyUploadsHold, IdleHoldsNothing, InHand, Uploading
      <3>2. \A q \in Portals : InHand(q) \subseteq InHand(q)'
        BY <2>2, <3>1 DEF InHand
      <3> QED
        BY <2>5, <2>8, <3>2, KnownObjects DEF KeptInv, KeptParts, OnlyKnownOrphans, InHand
    <2>11. IdleHoldsNothing'
      BY <2>2, <2>3 DEF KeptInv, KeptParts, IdleHoldsNothing
    <2> QED
      BY <2>6, <2>7, <2>9, <2>10, <2>11 DEF KeptParts
  <1>2. ASSUME NEW p \in Portals, NEW kind \in Kinds, NEW key \in Keys, StoreEvidence(p, kind, key)
        PROVE  KeptParts'
    <2> DEFINE old == requests[p].row.keys[kind]
               rest == requests[p].todo \ {kind}
    <2>1. /\ Uploading(p) /\ kind \in requests[p].todo /\ UNCHANGED <<row, orphans>>
          /\ objects' = objects \cup {key}
      BY <1>2 DEF StoreEvidence, Turn, Uploading
    <2>2. \A q \in Portals \ {p} : requests'[q] = requests[q] /\ ~Uploading(q)
      BY <1>2, <2>1, <1>type DEF StoreEvidence, EvidenceTypeOK, KeptInv, KeptParts, OneUpload
    <2>3. /\ requests'[p].phase = "uploading"
          /\ requests'[p].row = WithKey(p, kind, key)
          /\ requests'[p].todo = rest
          /\ requests'[p].fresh = requests[p].fresh \cup {key}
          /\ requests'[p].replaced = requests[p].replaced \cup ({old} \ {NoKey})
          /\ requests'[p].doomed = {}
      BY <1>2, <1>type DEF StoreEvidence, EvidenceTypeOK
    <2>4. requests'[p].row.keys = [requests[p].row.keys EXCEPT ![kind] = key]
      BY <2>3, <1>type, WithKeyType
    <2>5. \A k \in Kinds : requests'[p].row.keys[k] = IF k = kind THEN key
                                                      ELSE requests[p].row.keys[k]
      BY <2>4, <1>type, HeldKeys
    <2>6. HandedOver(p) /\ rest \subseteq Kinds /\ requests[p].todo \subseteq Kinds
      BY <2>1, <1>type, HeldKeys DEF KeptInv, KeptParts
    <2>7. Referenced' = Referenced
      BY <2>1 DEF Referenced
    <2>8. old = row.keys[kind] /\ {old} \ {NoKey} \subseteq Referenced
      BY <2>1, <2>6 DEF HandedOver, Referenced
    <2>9. KeysOf(requests[p].row) \subseteq KeysOf(requests[p].row)' \cup ({old} \ {NoKey})
      BY <2>5 DEF KeysOf
    <2> HIDE DEF old
    <2>10. OneUpload' /\ OnlyUploadsHold' /\ OpenWhileUploading' /\ IdleHoldsNothing'
      BY <2>1, <2>2, <2>3
      DEF KeptInv, KeptParts, OneUpload, OnlyUploadsHold, OpenWhileUploading, IdleHoldsNothing,
          Uploading
    <2>11. HandedOver(p)'
      <3>1. \A k \in rest : requests'[p].row.keys[k] = row.keys[k]
        BY <2>5, <2>6 DEF HandedOver
      <3>2. \A f \in requests'[p].fresh : \E k \in Kinds \ rest : requests'[p].row.keys[k] = f
        <4>1. ASSUME NEW f \in requests[p].fresh
              PROVE  \E k \in Kinds \ rest : requests'[p].row.keys[k] = f
          <5>1. PICK k \in Kinds \ requests[p].todo : requests[p].row.keys[k] = f
            BY <2>6 DEF HandedOver
          <5> QED
            BY <2>1, <2>5, <5>1
        <4> QED
          BY <2>3, <2>5, <4>1
      <3>3. requests'[p].replaced \subseteq Referenced
        BY <2>3, <2>6, <2>8 DEF HandedOver
      <3>4. Referenced \subseteq KeysOf(requests[p].row)' \cup requests'[p].replaced
        BY <2>3, <2>6, <2>9 DEF HandedOver
      <3> QED
        BY <2>1, <2>3, <2>7, <3>1, <3>2, <3>3, <3>4 DEF HandedOver, KeysOf
    <2>12. OnlyKnownOrphans'
      <3>1. \A q \in Portals : InHand(q) \subseteq InHand(q)'
        BY <2>2, <2>3, <2>6 DEF InHand, HandedOver
      <3>2. key \in InHand(p)'
        BY <2>3 DEF InHand
      <3> QED
        BY <2>1, <2>7, <3>1, <3>2, KnownObjects DEF KeptInv, KeptParts, OnlyKnownOrphans, InHand
    <2> QED
      BY <2>2, <2>10, <2>11, <2>12 DEF KeptParts, Uploading
  <1>3. ASSUME NEW p \in Portals, NEW kind \in Kinds, NEW key \in Keys, NEW stored \in BOOLEAN,
               FailUpload(p, kind, key, stored)
        PROVE  KeptParts'
    <2> DEFINE keys == requests[p].fresh \cup {key}
    <2>1. /\ Uploading(p) /\ row' = row /\ orphans' = orphans /\ objects' \subseteq objects \cup keys
          /\ requests' = [requests EXCEPT ![p] = Removing(keys)]
      BY <1>3 DEF FailUpload, Turn, Uploading, Registered
    <2>2. HandedOver(p) /\ keys \in SUBSET Keys
      BY <2>1, <1>type, HeldKeys DEF KeptInv, KeptParts
    <2>3. InHand(p) \subseteq Referenced \cup keys
      BY <2>2 DEF HandedOver, InHand
    <2> HIDE DEF keys
    <2> QED
      BY <2>1, <2>2, <2>3, EndKeepsKept
  <1>4. ASSUME NEW p \in Portals, FailUpdate(p) PROVE KeptParts'
    <2>1. /\ Uploading(p) /\ UNCHANGED <<row, orphans, objects>>
          /\ requests' = [requests EXCEPT ![p] = Removing(requests[p].fresh)]
      BY <1>4 DEF FailUpdate, Uploading
    <2>2. HandedOver(p) /\ requests[p].fresh \in SUBSET Keys
      BY <2>1, <1>type, HeldKeys DEF KeptInv, KeptParts
    <2>3. InHand(p) \subseteq Referenced \cup requests[p].fresh
      BY <2>2 DEF HandedOver, InHand
    <2> QED
      BY <2>1, <2>2, <2>3, EndKeepsKept
  <1>5. ASSUME NEW p \in Portals, CommitUpdate(p) PROVE KeptParts'
    <2>1. /\ Uploading(p) /\ row' = requests[p].row /\ UNCHANGED <<objects, orphans>>
          /\ requests' = [requests EXCEPT ![p] = Removing(requests[p].replaced)]
      BY <1>5 DEF CommitUpdate, Uploading
    <2>2. requests[p].replaced \in SUBSET Keys
      BY <1>type, HeldKeys
    <2> QED
      BY <2>1, <2>2, CommitKeepsKept
  <1>6. ASSUME NEW p \in Portals, LoseCommitAnswer(p) PROVE KeptParts'
    <2>1. /\ Uploading(p) /\ row' = requests[p].row /\ objects' = objects
          /\ orphans' = orphans \cup requests[p].replaced
          /\ requests' = [requests EXCEPT ![p] = Removing(requests[p].fresh)]
      BY <1>6 DEF LoseCommitAnswer, Uploading
    <2>2. requests[p].fresh \in SUBSET Keys
      BY <1>type, HeldKeys
    <2> QED
      BY <2>1, <2>2, CommitKeepsKept
  <1>7. ASSUME NEW p \in Portals, NEW key \in Keys, NEW removed \in BOOLEAN,
               RemoveObject(p, key, removed)
        PROVE  KeptParts'
    <2> DEFINE keys == requests[p].doomed \ {key}
    <2>1. /\ key \in requests[p].doomed /\ row' = row /\ orphans \subseteq orphans'
          /\ objects' \subseteq objects
          /\ key \in objects' => key \in orphans'
          /\ requests' = [requests EXCEPT ![p] = Removing(keys)]
      BY <1>7 DEF RemoveObject
    <2>2. keys \in SUBSET Keys
      BY <1>type, HeldKeys
    <2>3. ~Uploading(p)
      BY <2>1 DEF KeptInv, KeptParts, HandedOver
    <2>4. InHand(p) \subseteq keys \cup {key}
      BY <2>3 DEF KeptInv, KeptParts, OnlyUploadsHold, InHand
    <2> HIDE DEF keys
    <2>5. InHand(p) \cap objects' \subseteq Referenced \cup keys \cup orphans'
      BY <2>1, <2>4
    <2> QED
      BY <2>1, <2>2, <2>5, EndKeepsKept
  <1>8. ASSUME NEW p \in Portals, StopProcess(p) PROVE KeptParts'
    <2>1. /\ UNCHANGED <<row, objects>> /\ orphans' = orphans \cup InHand(p)
          /\ requests' = [requests EXCEPT ![p] = Removing({})]
      BY <1>8 DEF StopProcess, Removing, InHand
    <2>2. /\ {} \in SUBSET Keys
          /\ orphans \subseteq orphans' /\ objects' \subseteq objects \cup {}
          /\ InHand(p) \cap objects' \subseteq Referenced \cup {} \cup orphans'
      BY <2>1
    <2> QED
      BY <2>1, <2>2, EndKeepsKept
  <1>9. ASSUME MissDelivery PROVE KeptParts'
    <2>1. /\ row'.keys = row.keys /\ UNCHANGED <<requests, objects, orphans>>
          /\ \A q \in Portals : ~Uploading(q)
      BY <1>9, <1>type, CompletedRow DEF MissDelivery, EvidenceTypeOK, Locked, Uploading
    <2>2. Referenced' = Referenced
      BY <2>1 DEF Referenced
    <2> QED
      BY <2>1, <2>2 DEF KeptInv, KeptParts, OneUpload, OnlyUploadsHold, OnlyKnownOrphans,
         OpenWhileUploading, IdleHoldsNothing, Uploading
  <1>10. ASSUME UNCHANGED <<row, requests, orphans>>, objects' \subseteq objects PROVE KeptParts'
    <2>1. Referenced' = Referenced
      BY <1>10 DEF Referenced
    <2> QED
      BY <1>10, <2>1 DEF KeptInv, KeptParts, OneUpload, OnlyUploadsHold, OnlyKnownOrphans,
         OpenWhileUploading, IdleHoldsNothing, Uploading, HandedOver, KeysOf
  <1>11. CloseRoute \/ TwoDaysPass \/ (\E key \in Keys : Reconcile(key)) \/ UNCHANGED vars
           => UNCHANGED <<row, requests, orphans>> /\ objects' \subseteq objects
    BY DEF CloseRoute, TwoDaysPass, Reconcile, vars
  <1>12. KeptParts'
    BY <1>1, <1>2, <1>3, <1>4, <1>5, <1>6, <1>7, <1>8, <1>9, <1>10, <1>11 DEF Next, Updates
  <1> QED
    BY <1>type, <1>12 DEF KeptInv

(* No action changes a completed row; and what may remove an object of it  *)
(* has nothing of it in hand.                                              *)
LEMMA CompletedStep ==
  KeptInv /\ AnsweredInv /\ [Next]_vars =>
    (row.status = "completata" /\ ~unanswered' =>
       row' = row /\ Referenced \cap objects \subseteq objects')
  <1> SUFFICES ASSUME KeptInv, AnsweredInv, [Next]_vars, row.status = "completata", ~unanswered'
               PROVE  row' = row /\ Referenced \cap objects \subseteq objects'
    OBVIOUS
  <1>1. StoredInv
    BY AnsweredStep DEF AnsweredInv
  <1>2. \A p \in Portals : ~Uploading(p)
    BY DEF KeptInv, KeptParts, OpenWhileUploading
  <1>3. ASSUME NEW p \in Portals, Updates(p)
        PROVE  row' = row /\ Referenced \cap objects \subseteq objects'
    <2>1. ASSUME NEW key \in Keys, NEW removed \in BOOLEAN, RemoveObject(p, key, removed)
          PROVE  row' = row /\ Referenced \cap objects \subseteq objects'
      <3>1. row' = row /\ key \in requests[p].doomed /\ objects \ {key} \subseteq objects'
        BY <2>1 DEF RemoveObject
      <3>2. key \notin Referenced
        BY <1>1, <3>1 DEF StoredInv, RemovalsAreSafe
      <3> QED
        BY <3>1, <3>2
    <2>2. ASSUME StopProcess(p)
          PROVE  row' = row /\ Referenced \cap objects \subseteq objects'
      BY <2>2 DEF StopProcess
    <2> QED
      BY <1>2, <1>3, <2>1, <2>2 DEF Updates, BeginUpdate, MayChange, StoreEvidence, FailUpload, Turn,
         FailUpdate, CommitUpdate, LoseCommitAnswer, Uploading
  <1>4. ASSUME NEW key \in Keys, Reconcile(key)
        PROVE  row' = row /\ Referenced \cap objects \subseteq objects'
    BY <1>4 DEF Reconcile, Reconcilable
  <1> QED
    BY <1>3, <1>4 DEF Next, MissDelivery, MayChange, CloseRoute, TwoDaysPass, vars

(* Whatever fails or stops, the store holds only what the row names, what  *)
(* is going to be removed and what is known to be left over; and a         *)
(* completed row stays with its objects while commits are answered.        *)
THEOREM EvidenceKept == Spec => EvidenceIsKept
  <1>1. Init => KeptInv
    <2> SUFFICES ASSUME Init PROVE KeptInv
      OBVIOUS
    <2>1. \A p \in Portals : /\ requests[p].phase = "idle" /\ requests[p].doomed = {}
                             /\ requests[p].fresh = {} /\ requests[p].replaced = {}
      BY ConstantRows DEF Init
    <2>2. objects = {}
      BY DEF Init
    <2> QED
      BY <2>1, <2>2, InitType DEF KeptInv, KeptParts, OneUpload, OnlyUploadsHold, IdleHoldsNothing,
         OnlyKnownOrphans, OpenWhileUploading, Uploading
  <1>2. KeptInv => OnlyKnownOrphans
    BY DEF KeptInv, KeptParts
  <1>3. Spec => []OnlyKnownOrphans
    BY <1>1, <1>2, KeptStep, PTL DEF Spec
  <1>4. Spec => CompletedEvidenceStays
    BY <1>1, KeptStep, InitAnswered, AnsweredStep, CompletedStep, PTL
    DEF Spec, CompletedEvidenceStays
  <1> QED
    BY <1>3, <1>4, PTL DEF EvidenceIsKept

-----------------------------------------------------------------------------
(* Customers: the type invariant and the position that is planned to.      *)

CustomerInv == CustomersTypeOK /\ PlannedWhereItIs

(* The rows that the operations write.                                     *)
LEMMA CustomerRows ==
  /\ NotEditing \in Editor
  /\ \A a \in Sites : Unverified(a) \in CustomerRow /\ Unverified(a).mark = "da_verificare"
  /\ \A a \in Sites : /\ Located(a) \in CustomerRow
                      /\ Located(a).place = a /\ Located(a).address = a
  BY DEF NotEditing, Editor, Unverified, Located, CustomerRow

(* A row whose columns are all taken over is the new one.                  *)
LEMMA WrittenRow ==
  ASSUME NEW entry \in CustomerRow, NEW loaded \in CustomerRow, NEW new \in CustomerRow
  PROVE  /\ Written(entry, loaded, new) \in CustomerRow
         /\ entry = loaded => Written(entry, loaded, new) = new
  BY DEF Written, CustomerRow

(* A row that is planned, if at all, to its own address.                   *)
InPlace(entry) == entry.mark = "verificato" /\ entry.place # NoPlace => entry.place = entry.address

(* A request that commits what it made of the row that it loaded: another  *)
(* row than the one that is there leaves its trace in overlapped.          *)
LEMMA CommitStep ==
  ASSUME CustomerInv, NEW q \in Editors, NEW new \in [CustomerRow -> CustomerRow],
         \A entry \in CustomerRow : InPlace(entry) => InPlace(new[entry]),
         Commit(q, new)
  PROVE  CustomerInv'
<1>1. PICK c \in editor[q].of, loaded \in editor[q].loaded :
        /\ customer' = [customer EXCEPT ![c] = Written(@, loaded, new[loaded])]
        /\ overlapped' = Overlaps(c, loaded)
  BY DEF Commit
<1>2. c \in Customers /\ loaded \in CustomerRow /\ customer[c] \in CustomerRow
      /\ new[loaded] \in CustomerRow
  BY DEF CustomerInv, CustomersTypeOK, Editor
<1>3. /\ Written(customer[c], loaded, new[loaded]) \in CustomerRow
      /\ customer[c] = loaded => Written(customer[c], loaded, new[loaded]) = new[loaded]
  BY <1>2, WrittenRow
<1>4. /\ customer'[c] = Written(customer[c], loaded, new[loaded])
      /\ \A d \in Customers \ {c} : customer'[d] = customer[d]
  BY <1>1, <1>2 DEF CustomerInv, CustomersTypeOK
<1>5. CustomersTypeOK'
  <2>1. customer' \in [Customers -> CustomerRow]
    BY <1>1, <1>2, <1>3 DEF CustomerInv, CustomersTypeOK
  <2>2. editor' \in [Editors -> Editor]
    BY CustomerRows DEF Commit, CustomerInv, CustomersTypeOK
  <2>3. overlapped' \subseteq Customers
    BY <1>1, <1>2 DEF Overlaps, CustomerInv, CustomersTypeOK
  <2>4. QED BY <2>1, <2>2, <2>3 DEF CustomersTypeOK
<1>6. PlannedWhereItIs'
  <2>1. SUFFICES ASSUME NEW d \in Customers, d \notin overlapped' PROVE InPlace(customer'[d])
    BY DEF PlannedWhereItIs, CustomerIsPlannable, InPlace
  <2>2. d \notin overlapped /\ InPlace(customer[d])
    BY <1>1, <2>1 DEF Overlaps, CustomerInv, PlannedWhereItIs, CustomerIsPlannable, InPlace
  <2>3. CASE d = c
    <3>1. customer[c] = loaded
      BY <1>1, <2>1, <2>3 DEF Overlaps
    <3>2. QED BY <1>2, <1>3, <1>4, <2>2, <2>3, <3>1
  <2>4. CASE d # c
    BY <1>4, <2>2, <2>4
  <2>5. QED BY <2>3, <2>4
<1>7. QED BY <1>5, <1>6 DEF CustomerInv

(* One result of the geocoder: for the address that the request loaded.    *)
LEMMA VerifyStep ==
  ASSUME CustomerInv, NEW q \in Editors,
         NEW mark \in {"verificato", "da_verificare", "non_trovato"}, VerifyCustomer(q, mark)
  PROVE  CustomerInv'
<1>1. PICK c \in editor[q].of, loaded \in editor[q].loaded :
        /\ customer' = [customer EXCEPT ![c].mark = mark,
                          ![c].place = IF mark = "non_trovato" THEN NoPlace ELSE loaded.address]
        /\ overlapped' = Overlaps(c, loaded)
  BY DEF VerifyCustomer
<1>2. c \in Customers /\ loaded \in CustomerRow /\ customer[c] \in CustomerRow
  BY DEF CustomerInv, CustomersTypeOK, Editor
<1> DEFINE place == IF mark = "non_trovato" THEN NoPlace ELSE loaded.address
<1>3. place \in Sites \cup {NoPlace}
  BY <1>2 DEF CustomerRow
<1>4. mark = "verificato" => place = loaded.address
  OBVIOUS
<1>5. customer' = [customer EXCEPT ![c].mark = mark, ![c].place = place]
  BY <1>1
<1> HIDE DEF place
<1>6. /\ customer' \in [Customers -> CustomerRow]
      /\ customer'[c].mark = mark /\ customer'[c].place = place
      /\ customer'[c].address = customer[c].address
      /\ \A d \in Customers \ {c} : customer'[d] = customer[d]
  BY <1>2, <1>3, <1>5 DEF CustomerInv, CustomersTypeOK, CustomerRow
<1>7. CustomersTypeOK'
  <2>1. editor' \in [Editors -> Editor]
    BY CustomerRows DEF VerifyCustomer, CustomerInv, CustomersTypeOK
  <2>2. overlapped' \subseteq Customers
    BY <1>1, <1>2 DEF Overlaps, CustomerInv, CustomersTypeOK
  <2>3. QED BY <1>6, <2>1, <2>2 DEF CustomersTypeOK
<1>8. PlannedWhereItIs'
  <2>1. SUFFICES ASSUME NEW d \in Customers, d \notin overlapped' PROVE InPlace(customer'[d])
    BY DEF PlannedWhereItIs, CustomerIsPlannable, InPlace
  <2>2. d \notin overlapped /\ InPlace(customer[d])
    BY <1>1, <2>1 DEF Overlaps, CustomerInv, PlannedWhereItIs, CustomerIsPlannable, InPlace
  <2>3. CASE d = c
    <3>1. customer[c] = loaded
      BY <1>1, <2>1, <2>3 DEF Overlaps
    <3>2. QED BY <1>4, <1>6, <2>3, <3>1 DEF InPlace
  <2>4. CASE d # c
    BY <1>6, <2>2, <2>4
  <2>5. QED BY <2>3, <2>4
<1>9. QED BY <1>7, <1>8 DEF CustomerInv

(* Every step keeps the customers planned where they are.                  *)
LEMMA CustomerStep == CustomerInv /\ [CustomersNext]_customerVars => CustomerInv'
<1>1. SUFFICES ASSUME CustomerInv, [CustomersNext]_customerVars PROVE CustomerInv'
  OBVIOUS
<1>2. ASSUME NEW q \in Editors, NEW c \in Customers, Load(q, c) PROVE CustomerInv'
  <2>1. [of |-> {c}, loaded |-> {customer[c]}] \in Editor
    BY <1>1 DEF CustomerInv, CustomersTypeOK, Editor
  <2>2. QED
    BY <1>1, <1>2, <2>1
    DEF Load, CustomerInv, CustomersTypeOK, PlannedWhereItIs, CustomerIsPlannable
<1>3. ASSUME NEW q \in Editors, NEW address \in Sites, UpdateCustomer(q, address) PROVE CustomerInv'
  <2> DEFINE new == [loaded \in CustomerRow |->
                       IF address = loaded.address THEN loaded ELSE Unverified(address)]
  <2>1. new \in [CustomerRow -> CustomerRow]
    BY CustomerRows
  <2>2. \A entry \in CustomerRow : InPlace(entry) => InPlace(new[entry])
    BY CustomerRows DEF InPlace
  <2>3. Commit(q, new)
    BY <1>3 DEF UpdateCustomer
  <2> HIDE DEF new
  <2>4. QED BY <1>1, <2>1, <2>2, <2>3, CommitStep
<1>4. ASSUME NEW q \in Editors, NEW address \in Sites, ImportCustomer(q, address) PROVE CustomerInv'
  <2>1. UpdateCustomer(q, address)
    BY <1>4 DEF UpdateCustomer, ImportCustomer
  <2>2. QED BY <1>3, <2>1
<1>5. ASSUME NEW q \in Editors, NEW address \in Sites, UpdateLocated(q, address) PROVE CustomerInv'
  <2> DEFINE new == [loaded \in CustomerRow |-> Located(address)]
  <2>1. new \in [CustomerRow -> CustomerRow]
    BY CustomerRows
  <2>2. \A entry \in CustomerRow : InPlace(entry) => InPlace(new[entry])
    BY CustomerRows DEF InPlace
  <2>3. Commit(q, new)
    BY <1>5 DEF UpdateLocated
  <2> HIDE DEF new
  <2>4. QED BY <1>1, <2>1, <2>2, <2>3, CommitStep
<1>6. CASE UNCHANGED customerVars
  BY <1>1, <1>6
  DEF customerVars, CustomerInv, CustomersTypeOK, PlannedWhereItIs, CustomerIsPlannable
<1>7. QED BY <1>1, <1>2, <1>3, <1>4, <1>5, <1>6, VerifyStep DEF CustomersNext

(* A customer begins as it was entered or as it was verified.              *)
LEMMA CustomerBegins == CustomersInit => CustomerInv
<1>1. SUFFICES ASSUME CustomersInit PROVE CustomerInv
  OBVIOUS
<1>2. \A a \in Sites : InPlace(Unverified(a)) /\ InPlace(Located(a))
  BY CustomerRows DEF InPlace
<1>3. \A c \in Customers : customer[c] \in CustomerRow /\ InPlace(customer[c])
  BY <1>1, <1>2, CustomerRows DEF CustomersInit
<1>4. customer \in [Customers -> CustomerRow]
  BY <1>1, CustomerRows DEF CustomersInit
<1>5. PlannedWhereItIs
  BY <1>3 DEF PlannedWhereItIs, CustomerIsPlannable, InPlace
<1>6. QED
  BY <1>1, <1>4, <1>5, CustomerRows DEF CustomersInit, CustomerInv, CustomersTypeOK

(* A customer who may be planned is planned to the address that it has,    *)
(* whatever changes, imports and verifications come after one another: a   *)
(* request that worked on the row as it was writes all of what it made of  *)
(* it, and one that did not is recorded as overlapped.                     *)
THEOREM CustomersPlanned == CustomersSpec => []PlannedWhereItIs
<1>1. CustomersInit => CustomerInv
  BY CustomerBegins
<1>2. CustomerInv => PlannedWhereItIs
  BY DEF CustomerInv
<1>3. QED BY <1>1, <1>2, CustomerStep, PTL DEF CustomersSpec

-----------------------------------------------------------------------------
(* Selection: the orders, the selection with its drafts, and the checks.   *)

DeskHolds == desk \in [Orders -> DeskOrder] /\ ReadyMeansVerified

CheckRow ==
  [phase : {"idle", "between", "asked"}, of : {"desk", "selection"}, order : SUBSET Orders,
   seen : 0..MaxOrderVersion + 1, address : Addresses \cup {NoAddress}, version : 0..MaxChoice]

(* The geocoder is asked about an address only.                            *)
ChecksHold ==
  /\ check \in [Checks -> CheckRow]
  /\ \A v \in Checks : check[v].phase = "asked" => check[v].address # NoAddress

(* A page that names the current version shows the current stops.          *)
PagesAgree ==
  /\ tab \in [Tabs -> [version : 0..MaxChoice, stops : SUBSET Orders]]
  /\ \A t \in Tabs :
       /\ tab[t].version <= choice.version
       /\ tab[t].version = choice.version => tab[t].stops = ShownOf(choice)

ChoiceHolds ==
  /\ choice \in Choice
  /\ choice.version = 0 => choice.ids = {}

Draft == [kept : BOOLEAN, ids : SUBSET Orders, stops : Prepared]

DraftsHold ==
  /\ drafts \in [Drafts -> Draft]
  /\ \A d \in Drafts : ~drafts[d].kept => drafts[d].ids = {} /\ drafts[d].stops = {}

GatheredIsKept == gathered \subseteq Orders /\ NothingGatheredIsLost

SelectionInv == DeskHolds /\ ChecksHold /\ PagesAgree /\ ChoiceHolds /\ DraftsHold /\ GatheredIsKept

(* The invariant implies what the page was promised.                       *)
LEMMA SelectionSound == SelectionInv => SelectionIsSound
BY DEF SelectionInv, SelectionIsSound, DeskHolds, GatheredIsKept

(* An order that is written becomes ready, or stays assigned, only with a  *)
(* proof of the address that is written with it.                           *)
LEMMA ChangedRow ==
  ASSUME DeskHolds, NEW o \in Orders, NEW status \in Editable \cup {"assegnato", "annullato"},
         NEW address \in Addresses \cup {NoAddress}, NEW proof \in Addresses \cup {NoAddress},
         NEW version \in 0..MaxOrderVersion + 1,
         status \in {"pronto", "assegnato"} => address # NoAddress /\ proof = address,
         desk' = [desk EXCEPT ![o] =
           [status |-> status, address |-> address, proof |-> proof, version |-> version]]
  PROVE  DeskHolds'
<1> DEFINE entry == [status |-> status, address |-> address, proof |-> proof, version |-> version]
<1>1. entry \in DeskOrder
  BY DEF DeskOrder
<1>2. /\ entry.status = status /\ entry.address = address /\ entry.proof = proof
  OBVIOUS
<1>3. desk' = [desk EXCEPT ![o] = entry]
  OBVIOUS
<1> HIDE DEF entry
<1>4. /\ desk' \in [Orders -> DeskOrder] /\ desk'[o] = entry
      /\ \A p \in Orders \ {o} : desk'[p] = desk[p]
  BY <1>1, <1>3 DEF DeskHolds
<1>5. ASSUME NEW p \in Orders, desk'[p].status \in {"pronto", "assegnato"}
      PROVE  desk'[p].address # NoAddress /\ desk'[p].proof = desk'[p].address
  <2>1. CASE p = o
    BY <1>2, <1>4, <1>5, <2>1
  <2>2. CASE p # o
    BY <1>4, <1>5, <2>2 DEF DeskHolds, ReadyMeansVerified, Verified
  <2>3. QED BY <2>1, <2>2
<1>6. QED BY <1>4, <1>5 DEF DeskHolds, ReadyMeansVerified, Verified

(* The same of Changed, which counts the version up.                       *)
LEMMA ChangedStep ==
  ASSUME DeskHolds, SelectionAssumption, NEW o \in Orders,
         NEW status \in Editable \cup {"assegnato", "annullato"},
         NEW address \in Addresses \cup {NoAddress}, NEW proof \in Addresses \cup {NoAddress},
         desk[o].version <= MaxOrderVersion,
         status \in {"pronto", "assegnato"} => address # NoAddress /\ proof = address,
         Changed(o, status, address, proof)
  PROVE  DeskHolds'
<1>1. desk[o].version + 1 \in 0..MaxOrderVersion + 1
  BY DEF DeskHolds, DeskOrder, SelectionAssumption
<1>2. desk' = [desk EXCEPT ![o] =
        [status |-> status, address |-> address, proof |-> proof, version |-> desk[o].version + 1]]
  BY DEF Changed
<1>3. QED BY <1>1, <1>2, ChangedRow

(* A correction gives an order its next version.                           *)
LEMMA CorrectedStep ==
  ASSUME DeskHolds, SelectionAssumption, NEW o \in Orders, NEW address \in Addresses \cup {NoAddress},
         desk[o].version < MaxOrderVersion, Corrected(o, address)
  PROVE  DeskHolds'
<1> DEFINE status == StatusAfter(o, address)
           proof == IF address = desk[o].address THEN desk[o].proof ELSE NoAddress
<1>1. desk[o] \in DeskOrder
  BY DEF DeskHolds
<1>2. /\ status \in Editable \cup {"assegnato", "annullato"}
      /\ proof \in Addresses \cup {NoAddress}
      /\ status \in {"pronto", "assegnato"} => address # NoAddress /\ proof = address
  BY <1>1 DEF DeskOrder, StatusAfter, Editable, Verified
<1>3. desk[o].version <= MaxOrderVersion
  BY <1>1 DEF DeskOrder, SelectionAssumption
<1>4. Changed(o, status, address, proof)
  BY DEF Corrected
<1> HIDE DEF status, proof
<1>5. QED BY <1>2, <1>3, <1>4, ChangedStep

(* A request that prepares the selection anew makes a version that no page *)
(* shows yet.                                                              *)
LEMMA PreparedStep ==
  ASSUME ChoiceHolds, PagesAgree, SelectionAssumption,
         NEW ids \in SUBSET Orders, NEW stops \in Prepared,
         Prepare(ids, stops), tab' = tab
  PROVE  /\ ChoiceHolds' /\ PagesAgree'
         /\ choice'.ids = ids /\ choice'.stops = stops
         /\ choice'.version = choice.version + 1
         /\ choice'.version \in 0..MaxChoice
<1>1. choice' = [ids |-> ids, stops |-> stops, version |-> choice.version + 1]
  BY DEF Prepare
<1>2. choice.version \in Nat /\ choice.version + 1 \in 0..MaxChoice /\ choice.version + 1 # 0
  BY DEF Prepare, ChoiceHolds, Choice, SelectionAssumption
<1>3. /\ choice'.ids = ids /\ choice'.stops = stops /\ choice'.version = choice.version + 1
  BY <1>1
<1>4. ChoiceHolds'
  BY <1>1, <1>2, <1>3 DEF ChoiceHolds, Choice
<1>5. PagesAgree'
  <2>1. \A t \in Tabs : tab[t].version \in Nat /\ tab[t].version <= choice.version
    BY DEF PagesAgree, SelectionAssumption
  <2>2. \A t \in Tabs : tab'[t].version <= choice'.version /\ tab'[t].version # choice'.version
    BY <1>2, <1>3, <2>1
  <2>3. QED BY <2>2 DEF PagesAgree
<1>6. QED BY <1>2, <1>3, <1>4, <1>5

(* The current page shows the stops of the selection.                      *)
LEMMA PageShown ==
  ASSUME PagesAgree, NEW t \in Tabs, StillCurrent(tab[t].version)
  PROVE  tab[t].stops = ShownOf(choice)
BY DEF StillCurrent, PagesAgree

(* The parts that a step leaves alone.                                     *)
LEMMA DeskAlone == DeskHolds /\ desk' = desk => DeskHolds'
BY DEF DeskHolds, ReadyMeansVerified, Verified

(* The parts of the invariant only depend on their own variables.          *)
LEMMA ChecksAlone == ChecksHold /\ check' = check => ChecksHold'
BY DEF ChecksHold

(* The drafts only depend on themselves.                                   *)
LEMMA DraftsAlone == DraftsHold /\ drafts' = drafts => DraftsHold'
BY DEF DraftsHold

(* So does the choice.                                                     *)
LEMMA ChoiceAlone == ChoiceHolds /\ choice' = choice => ChoiceHolds'
BY DEF ChoiceHolds

(* The pages depend on the choice and the tabs.                            *)
LEMMA PagesAlone == PagesAgree /\ choice' = choice /\ tab' = tab => PagesAgree'
BY DEF PagesAgree, ShownOf

(* What was gathered depends on the choice and the drafts.                 *)
LEMMA GatheredAlone ==
  GatheredIsKept /\ choice' = choice /\ drafts' = drafts /\ gathered' = gathered
    => GatheredIsKept'
BY DEF GatheredIsKept, NothingGatheredIsLost, Kept, ShownOf

(* Orders change at the desk and by the routes.                            *)
LEMMA DesksStep ==
  ASSUME SelectionInv, SelectionAssumption, DesksNext
  PROVE  SelectionInv'
<1>1. DeskHolds
  BY DEF SelectionInv
<1>2. PICK o \in Orders :
        \/ Assign(o) \/ Release(o)
        \/ \E address \in Addresses \cup {NoAddress} : UpdateOrder(o, address)
        \/ \E status \in Editable \cup {"annullato"} : Transition(o, status)
  BY DEF DesksNext
<1>3. /\ desk[o] \in DeskOrder
      /\ desk[o].status \in {"pronto", "assegnato"} =>
           desk[o].address # NoAddress /\ desk[o].proof = desk[o].address
  BY <1>1 DEF DeskHolds, ReadyMeansVerified, Verified
<1>4. /\ desk[o].address \in Addresses \cup {NoAddress}
      /\ desk[o].proof \in Addresses \cup {NoAddress}
      /\ desk[o].version < MaxOrderVersion => desk[o].version <= MaxOrderVersion
  BY <1>3 DEF DeskOrder, SelectionAssumption
<1>5. CASE Assign(o)
  <2>1. DeskHolds'
    BY <1>1, <1>3, <1>4, <1>5, ChangedStep, "assegnato" \in Editable \cup {"assegnato", "annullato"}
    DEF Assign
  <2>2. QED
    BY <1>5, <2>1, ChecksAlone, DraftsAlone, ChoiceAlone, PagesAlone, GatheredAlone
    DEF Assign, SelectionInv
<1>6. CASE Release(o)
  <2>1. DeskHolds'
    BY <1>1, <1>3, <1>4, <1>6, ChangedStep, "pronto" \in Editable \cup {"assegnato", "annullato"}
    DEF Release, Editable
  <2>2. QED
    BY <1>6, <2>1, ChecksAlone, DraftsAlone, ChoiceAlone, PagesAlone, GatheredAlone
    DEF Release, SelectionInv
<1>7. ASSUME NEW address \in Addresses \cup {NoAddress}, UpdateOrder(o, address)
      PROVE  SelectionInv'
  <2>1. DeskHolds'
    BY <1>1, <1>7, CorrectedStep DEF UpdateOrder
  <2>2. QED
    BY <1>7, <2>1, ChecksAlone, DraftsAlone, ChoiceAlone, PagesAlone, GatheredAlone
    DEF UpdateOrder, SelectionInv
<1>8. ASSUME NEW status \in Editable \cup {"annullato"}, Transition(o, status)
      PROVE  SelectionInv'
  <2>1. /\ status \in Editable \cup {"assegnato", "annullato"}
        /\ status \in {"pronto", "assegnato"} =>
             desk[o].address # NoAddress /\ desk[o].proof = desk[o].address
    BY <1>8 DEF Transition, Editable, Verified
  <2>2. DeskHolds'
    BY <1>1, <1>4, <1>8, <2>1, ChangedStep DEF Transition
  <2>3. QED
    BY <1>8, <2>2, ChecksAlone, DraftsAlone, ChoiceAlone, PagesAlone, GatheredAlone
    DEF Transition, SelectionInv
<1>9. QED BY <1>2, <1>5, <1>6, <1>7, <1>8

(* A request of a page that only prepares the selection anew.              *)
LEMMA ChosenStep ==
  ASSUME SelectionInv, SelectionAssumption,
         NEW ids \in SUBSET Orders, NEW stops \in Prepared, Prepare(ids, stops),
         gathered' \subseteq Orders,
         gathered' \subseteq (IF stops = {} THEN ids ELSE ids \cap UNION stops)
                               \cup UNION {Kept(drafts[d]) : d \in Drafts},
         DeskHolds', drafts' = drafts, tab' = tab, check' = check
  PROVE  SelectionInv'
<1>1. /\ ChoiceHolds' /\ PagesAgree'
      /\ choice'.ids = ids /\ choice'.stops = stops
  BY PreparedStep DEF SelectionInv
<1>2. Kept(choice') = IF stops = {} THEN ids ELSE ids \cap UNION stops
  BY <1>1 DEF Kept, ShownOf
<1>3. GatheredIsKept'
  BY <1>2 DEF GatheredIsKept, NothingGatheredIsLost
<1>4. QED BY <1>1, <1>3, ChecksAlone, DraftsAlone DEF SelectionInv

(* Every answer to a page keeps the invariant.                             *)
LEMMA PagesStep ==
  ASSUME SelectionInv, SelectionAssumption, NEW t \in Tabs,
         \/ LoadPage(t) \/ Regenerate(t)
         \/ \E S \in SUBSET Orders :
              \/ Select(t, S) \/ Deselect(t, S) \/ Snapshot(t, S)
              \/ \E added \in SUBSET Orders : Append(t, S, added)
         \/ \E o \in Orders : Exclude(t, o)
  PROVE  SelectionInv'
<1> DEFINE Put == UNION {Kept(drafts[d]) : d \in Drafts}
<1>1. /\ DeskHolds /\ ChecksHold /\ PagesAgree /\ ChoiceHolds /\ DraftsHold /\ GatheredIsKept
      /\ choice.ids \subseteq Orders /\ gathered \subseteq Orders
      /\ gathered \subseteq (choice.ids \cap ShownOf(choice)) \cup Put
  BY DEF SelectionInv, GatheredIsKept, NothingGatheredIsLost, Kept, ChoiceHolds, Choice
<1>2. {} \in Prepared /\ \A S \in SUBSET Orders : {S} \in Prepared /\ UNION {S} = S /\ {S} # {}
  BY DEF Prepared
<1>3. UNION {} = {}
  OBVIOUS
<1>4. CASE LoadPage(t)
  <2>1. /\ ShownSelection.version = choice.version
        /\ ShownSelection.stops = ShownOf(choice)
        /\ ShownSelection \in [version : 0..MaxChoice, stops : SUBSET Orders]
    <3>1. choice.stops = {} \/ \E S \in SUBSET Orders : choice.stops = {S}
      BY <1>1 DEF ChoiceHolds, Choice, Prepared
    <3>2. UNION choice.stops \subseteq Orders
      BY <3>1
    <3>3. ShownOf(choice) \in SUBSET Orders /\ choice.version \in 0..MaxChoice
      BY <1>1, <3>2 DEF ShownOf, ChoiceHolds, Choice
    <3>4. QED BY <3>3 DEF ShownSelection
  <2>2. choice.version <= choice.version
    BY <1>1 DEF ChoiceHolds, Choice, SelectionAssumption
  <2>3. tab' = [tab EXCEPT ![t] = ShownSelection] /\ choice' = choice
    BY <1>4 DEF LoadPage
  <2>4. PagesAgree'
    <3> HIDE DEF Put
    <3>1. tab' \in [Tabs -> [version : 0..MaxChoice, stops : SUBSET Orders]]
      BY <1>1, <2>1, <2>3 DEF PagesAgree
    <3>2. tab'[t] = ShownSelection /\ \A u \in Tabs \ {t} : tab'[u] = tab[u]
      BY <1>1, <2>3 DEF PagesAgree
    <3>3. \A u \in Tabs : /\ tab'[u].version <= choice.version
                          /\ tab'[u].version = choice.version => tab'[u].stops = ShownOf(choice)
      BY <1>1, <2>1, <2>2, <3>2 DEF PagesAgree
    <3>4. QED BY <2>3, <3>1, <3>3 DEF PagesAgree, ShownOf
  <2>5. QED
    BY <1>1, <1>4, <2>4, DeskAlone, ChecksAlone, DraftsAlone, ChoiceAlone, GatheredAlone
    DEF LoadPage, SelectionInv
<1>5. ASSUME NEW S \in SUBSET Orders, Select(t, S) PROVE SelectionInv'
  <2>1. /\ choice.ids \cup S \in SUBSET Orders
        /\ gathered' = gathered \cup S
        /\ Prepare(choice.ids \cup S, {})
    BY <1>1, <1>5 DEF Select
  <2>2. DeskHolds' /\ drafts' = drafts /\ tab' = tab /\ check' = check
    BY <1>1, <1>5, DeskAlone DEF Select
  <2>3. gathered' \subseteq Orders /\ gathered' \subseteq (choice.ids \cup S) \cup Put
    BY <1>1, <2>1
  <2>4. QED BY <1>2, <1>3, <2>1, <2>2, <2>3, ChosenStep
<1>6. ASSUME NEW S \in SUBSET Orders, Deselect(t, S) PROVE SelectionInv'
  <2>1. /\ choice.ids \ S \in SUBSET Orders
        /\ gathered' = gathered \ S
        /\ Prepare(choice.ids \ S, {})
    BY <1>1, <1>6 DEF Deselect
  <2>2. DeskHolds' /\ drafts' = drafts /\ tab' = tab /\ check' = check
    BY <1>1, <1>6, DeskAlone DEF Deselect
  <2>3. gathered' \subseteq Orders /\ gathered' \subseteq (choice.ids \ S) \cup Put
    BY <1>1, <2>1
  <2>4. QED BY <1>2, <1>3, <2>1, <2>2, <2>3, ChosenStep
<1>7. ASSUME NEW S \in SUBSET Orders, Snapshot(t, S) PROVE SelectionInv'
  <2>1. gathered' = gathered \ (tab[t].stops \ S) /\ Prepare(S, {S})
    BY <1>7 DEF Snapshot
  <2>2. DeskHolds' /\ drafts' = drafts /\ tab' = tab /\ check' = check
    BY <1>1, <1>7, DeskAlone DEF Snapshot
  <2>3. tab[t].stops = ShownOf(choice)
    BY <1>1, <1>7, PageShown DEF Snapshot
  <2>4. gathered' \subseteq Orders /\ gathered' \subseteq S \cup Put
    BY <1>1, <2>1, <2>3
  <2>5. gathered' \subseteq (IF {S} = {} THEN S ELSE S \cap UNION {S}) \cup Put
    BY <1>2, <2>4
  <2>6. QED BY <1>2, <2>1, <2>2, <2>4, <2>5, ChosenStep
<1>8. ASSUME NEW S \in SUBSET Orders, NEW added \in SUBSET Orders, Append(t, S, added)
      PROVE  SelectionInv'
  <2> DEFINE ids == choice.ids \cup added
             stops == S \cup added
  <2>1. /\ gathered' = (gathered \ (tab[t].stops \ S)) \cup added
        /\ Prepare(ids, {stops})
    BY <1>8 DEF Append
  <2>2. DeskHolds' /\ drafts' = drafts /\ tab' = tab /\ check' = check
    BY <1>1, <1>8, DeskAlone DEF Append
  <2>3. tab[t].stops = ShownOf(choice)
    BY <1>1, <1>8, PageShown DEF Append
  <2>4. gathered' \subseteq Orders /\ gathered' \subseteq (ids \cap stops) \cup Put
    BY <1>1, <2>1, <2>3
  <2>5. ids \in SUBSET Orders /\ stops \in SUBSET Orders
    BY <1>1
  <2> HIDE DEF ids, stops
  <2>6. gathered' \subseteq (IF {stops} = {} THEN ids ELSE ids \cap UNION {stops}) \cup Put
    BY <1>2, <2>4, <2>5
  <2>7. QED BY <1>2, <2>1, <2>2, <2>4, <2>5, <2>6, ChosenStep
<1>9. ASSUME NEW o \in Orders, Exclude(t, o) PROVE SelectionInv'
  <2>1. /\ choice.ids \ {o} \in SUBSET Orders
        /\ gathered' = gathered \ {o}
        /\ Prepare(choice.ids \ {o}, {})
    BY <1>1, <1>9 DEF Exclude
  <2>2. DeskHolds' /\ drafts' = drafts /\ tab' = tab /\ check' = check
    BY <1>1, <1>9, DeskAlone DEF Exclude
  <2>3. gathered' \subseteq Orders /\ gathered' \subseteq (choice.ids \ {o}) \cup Put
    BY <1>1, <2>1
  <2>4. QED BY <1>2, <1>3, <2>1, <2>2, <2>3, ChosenStep
<1>10. CASE Regenerate(t)
  <2>1. Prepare(choice.ids, {}) /\ gathered' = gathered /\ choice.ids \in SUBSET Orders
    BY <1>1, <1>10 DEF Regenerate
  <2>2. DeskHolds' /\ drafts' = drafts /\ tab' = tab /\ check' = check
    BY <1>1, <1>10, DeskAlone DEF Regenerate
  <2>3. gathered' \subseteq Orders /\ gathered' \subseteq choice.ids \cup Put
    BY <1>1, <2>1
  <2>4. QED BY <1>2, <1>3, <2>1, <2>2, <2>3, ChosenStep
<1>11. QED BY <1>4, <1>5, <1>6, <1>7, <1>8, <1>9, <1>10

(* The operator corrects an order of the selection.                        *)
LEMMA ResolveStep ==
  ASSUME SelectionInv, SelectionAssumption, NEW t \in Tabs, NEW o \in Orders, NEW address \in Addresses,
         Resolve(t, o, address) \/ PlaceOnMap(t, o, address)
  PROVE  SelectionInv'
<1>1. /\ DeskHolds /\ desk[o] \in DeskOrder /\ desk[o].version \in Nat
      /\ choice.ids \in SUBSET Orders
      /\ gathered \subseteq Orders
      /\ gathered \subseteq choice.ids \cup UNION {Kept(drafts[d]) : d \in Drafts}
  BY DEF SelectionInv, DeskHolds, DeskOrder, GatheredIsKept, NothingGatheredIsLost, Kept,
         ChoiceHolds, Choice, SelectionAssumption
<1>2. DeskHolds'
  <2>1. CASE Resolve(t, o, address)
    BY <1>1, <2>1, CorrectedStep, DeskAlone DEF Resolve
  <2>2. CASE PlaceOnMap(t, o, address)
    <3> DEFINE version == desk[o].version + IF address = desk[o].address THEN 1 ELSE 2
    <3>1. version \in 0..MaxOrderVersion + 1
      BY <1>1, <2>2 DEF PlaceOnMap, SelectionAssumption
    <3>2. desk' = [desk EXCEPT ![o] =
            [status |-> "pronto", address |-> address, proof |-> address, version |-> version]]
      BY <2>2 DEF PlaceOnMap
    <3>3. address # NoAddress
      BY DEF SelectionAssumption
    <3> HIDE DEF version
    <3>4. "pronto" \in Editable \cup {"assegnato", "annullato"}
      BY DEF Editable
    <3>5. address \in Addresses \cup {NoAddress}
      OBVIOUS
    <3>6. "pronto" \in {"pronto", "assegnato"} => address # NoAddress /\ address = address
      BY <3>3
    <3>7. QED BY <1>1, <3>1, <3>2, <3>4, <3>5, <3>6, ChangedRow
  <2>3. QED BY <2>1, <2>2
<1>3. /\ Prepare(choice.ids, {})
      /\ drafts' = drafts /\ tab' = tab /\ check' = check /\ gathered' = gathered
  BY DEF Resolve, PlaceOnMap
<1>4. {} \in Prepared /\ UNION {} = {}
  BY DEF Prepared
<1>5. gathered' \subseteq choice.ids \cup UNION {Kept(drafts[d]) : d \in Drafts}
  BY <1>1, <1>3
<1>6. QED BY <1>1, <1>2, <1>3, <1>4, <1>5, ChosenStep

(* The selection is put away as a draft, taken up from it, or the draft is *)
(* deleted: what the draft shows moves with it.                            *)
LEMMA DraftsStep ==
  ASSUME SelectionInv, SelectionAssumption, NEW d \in Drafts,
         DeleteDraft(d) \/ \E t \in Tabs : CreateDraft(t, d) \/ ResumeDraft(t, d)
  PROVE  SelectionInv'
<1>1. /\ DeskHolds /\ ChecksHold /\ PagesAgree /\ ChoiceHolds /\ DraftsHold /\ GatheredIsKept
      /\ choice.ids \in SUBSET Orders /\ choice.stops \in Prepared
      /\ drafts[d] \in Draft
      /\ Kept(drafts[d]) \subseteq drafts[d].ids
  BY DEF SelectionInv, ChoiceHolds, Choice, DraftsHold, Draft, Kept
<1>2. {} \in Prepared /\ UNION {} = {}
  BY DEF Prepared
<1>3. NoDraft \in Draft /\ NoDraft.ids = {} /\ NoDraft.stops = {}
  BY <1>2 DEF NoDraft, Draft
<1>4. ASSUME NEW entry \in Draft, drafts' = [drafts EXCEPT ![d] = entry],
             ~entry.kept => entry.ids = {} /\ entry.stops = {}
      PROVE  /\ DraftsHold' /\ drafts'[d] = entry
             /\ \A e \in Drafts \ {d} : drafts'[e] = drafts[e]
  BY <1>1, <1>4 DEF DraftsHold
<1>5. CASE DeleteDraft(d)
  <2>1. /\ DraftsHold' /\ drafts'[d] = NoDraft
        /\ \A e \in Drafts \ {d} : drafts'[e] = drafts[e]
    BY <1>2, <1>3, <1>4, <1>5 DEF DeleteDraft
  <2>2. /\ choice' = choice /\ desk' = desk /\ check' = check /\ tab' = tab
        /\ gathered' = gathered \ drafts[d].ids
    BY <1>5 DEF DeleteDraft
  <2>3. GatheredIsKept'
    <3>1. SUFFICES ASSUME NEW o \in gathered'
                   PROVE o \in Kept(choice) \/ \E e \in Drafts : o \in Kept(drafts'[e])
      BY <1>1, <2>2 DEF GatheredIsKept, NothingGatheredIsLost, Kept, ShownOf
    <3>2. o \in Kept(choice) \/ \E e \in Drafts : o \in Kept(drafts[e])
      BY <1>1, <2>2 DEF GatheredIsKept, NothingGatheredIsLost
    <3>3. o \notin Kept(drafts[d])
      BY <1>1, <2>2
    <3>4. QED BY <2>1, <3>2, <3>3
  <2>4. QED
    BY <1>1, <2>1, <2>2, <2>3, DeskAlone, ChecksAlone, ChoiceAlone, PagesAlone DEF SelectionInv
<1>6. ASSUME NEW t \in Tabs, CreateDraft(t, d) PROVE SelectionInv'
  <2> DEFINE entry == [kept |-> TRUE, ids |-> choice.ids, stops |-> choice.stops]
  <2>1. /\ entry \in Draft /\ entry.ids = choice.ids /\ entry.stops = choice.stops /\ entry.kept
    BY <1>1 DEF Draft, ChoiceHolds
  <2>2. Kept(entry) = Kept(choice)
    BY <2>1 DEF Kept, ShownOf
  <2>3. drafts' = [drafts EXCEPT ![d] = entry]
    BY <1>6 DEF CreateDraft
  <2> HIDE DEF entry
  <2>4. /\ DraftsHold' /\ drafts'[d] = entry
        /\ \A e \in Drafts \ {d} : drafts'[e] = drafts[e]
    BY <1>4, <2>1, <2>3
  <2>5. /\ Prepare({}, {})
        /\ desk' = desk /\ tab' = tab /\ check' = check /\ gathered' = gathered
        /\ ~drafts[d].kept
    BY <1>6 DEF CreateDraft
  <2>6. ChoiceHolds' /\ PagesAgree'
    BY <1>1, <1>2, <2>5, PreparedStep
  <2>7. Kept(drafts[d]) = {}
    BY <1>1, <2>5 DEF DraftsHold, Kept
  <2>8. GatheredIsKept'
    <3>1. SUFFICES ASSUME NEW o \in gathered
                   PROVE \E e \in Drafts : o \in Kept(drafts'[e])
      BY <1>1, <2>5 DEF GatheredIsKept, NothingGatheredIsLost, Kept, ShownOf
    <3>2. o \in Kept(choice) \/ \E e \in Drafts : o \in Kept(drafts[e])
      BY <1>1 DEF GatheredIsKept, NothingGatheredIsLost
    <3>3. QED BY <2>2, <2>4, <2>7, <3>2
  <2>9. QED BY <1>1, <2>4, <2>5, <2>6, <2>8, DeskAlone, ChecksAlone DEF SelectionInv
<1>7. ASSUME NEW t \in Tabs, ResumeDraft(t, d) PROVE SelectionInv'
  <2>1. /\ choice.ids = {}
        /\ Prepare(Resumable(d), StopsResumed(d))
        /\ drafts' = [drafts EXCEPT ![d] = NoDraft]
        /\ gathered' = gathered \ (drafts[d].ids \ Resumable(d))
        /\ desk' = desk /\ tab' = tab /\ check' = check
    BY <1>7 DEF ResumeDraft, RoomForDraft
  <2>2. /\ Resumable(d) \in SUBSET Orders /\ Resumable(d) \subseteq drafts[d].ids
        /\ StopsResumed(d) \in Prepared
    BY <1>1, <1>2 DEF Resumable, StopsResumed, MaySelect, Draft
  <2>3. /\ ChoiceHolds' /\ PagesAgree'
        /\ choice'.ids = Resumable(d) /\ choice'.stops = StopsResumed(d)
    BY <1>1, <2>1, <2>2, PreparedStep
  <2>4. /\ DraftsHold'
        /\ \A e \in Drafts \ {d} : drafts'[e] = drafts[e]
    BY <1>2, <1>3, <1>4, <2>1
  <2>5. Kept(choice) = {}
    BY <1>1, <1>2, <2>1 DEF Kept, ChoiceHolds
  <2>6. ASSUME NEW o \in Kept(drafts[d]), o \in gathered' PROVE o \in Kept(choice')
    <3>1. o \in Resumable(d)
      BY <1>1, <2>1, <2>6
    <3>2. CASE Resumable(d) = drafts[d].ids
      BY <2>3, <2>6, <3>1, <3>2 DEF Kept, ShownOf, StopsResumed
    <3>3. CASE Resumable(d) # drafts[d].ids
      BY <2>3, <3>1, <3>3 DEF Kept, ShownOf, StopsResumed
    <3>4. QED BY <3>2, <3>3
  <2>7. GatheredIsKept'
    <3>1. SUFFICES ASSUME NEW o \in gathered'
                   PROVE o \in Kept(choice') \/ \E e \in Drafts : o \in Kept(drafts'[e])
      BY <1>1, <2>1 DEF GatheredIsKept, NothingGatheredIsLost, Kept, ShownOf
    <3>2. \E e \in Drafts : o \in Kept(drafts[e])
      BY <1>1, <2>1, <2>5 DEF GatheredIsKept, NothingGatheredIsLost
    <3>3. QED BY <2>4, <2>6, <3>2
  <2>8. QED BY <1>1, <2>1, <2>3, <2>4, <2>7, DeskAlone, ChecksAlone DEF SelectionInv
<1>8. QED BY <1>5, <1>6, <1>7

(* A verification writes its result in the order that it finds again as it *)
(* was asked about, and nowhere else.                                      *)
LEMMA ChecksStep == SelectionInv /\ SelectionAssumption /\ ChecksNext => SelectionInv'
<1> SUFFICES ASSUME SelectionInv, SelectionAssumption, ChecksNext PROVE SelectionInv'
  OBVIOUS
<1>1. /\ DeskHolds /\ ChecksHold /\ PagesAgree /\ ChoiceHolds /\ DraftsHold /\ GatheredIsKept
      /\ choice.ids \in SUBSET Orders /\ choice.version \in 0..MaxChoice
      /\ gathered \subseteq Orders
      /\ gathered \subseteq choice.ids \cup UNION {Kept(drafts[d]) : d \in Drafts}
  BY DEF SelectionInv, ChoiceHolds, Choice, GatheredIsKept, NothingGatheredIsLost, Kept
<1>2. {} \in Prepared /\ UNION {} = {}
  BY DEF Prepared
<1>3. NoCheck \in CheckRow /\ NoCheck.phase = "idle"
  BY DEF NoCheck, CheckRow, SelectionAssumption
<1>4. ASSUME NEW version \in 0..MaxChoice
      PROVE  LET entry == [NoCheck EXCEPT !.phase = "between", !.of = "selection", !.version = version]
             IN  entry \in CheckRow /\ entry.phase = "between"
  BY <1>3, <1>4 DEF NoCheck, CheckRow
<1>5. ASSUME NEW v \in Checks, NEW entry \in CheckRow, check' = [check EXCEPT ![v] = entry],
             entry.phase = "asked" => entry.address # NoAddress
      PROVE  ChecksHold'
  BY <1>1, <1>5 DEF ChecksHold
<1>6. ASSUME NEW v \in Checks, MarkVerified(v) PROVE SelectionInv'
  <2>1. PICK o \in check[v].order :
          /\ check[v].phase = "asked" /\ Unchanged(v, o) /\ desk[o].version <= MaxOrderVersion
          /\ Changed(o, "pronto", desk[o].address, check[v].address)
          /\ Renewed(v)
          /\ UNCHANGED <<drafts, tab, gathered>>
    BY <1>6 DEF MarkVerified
  <2>2. o \in Orders /\ check[v].address \in Addresses \cup {NoAddress}
        /\ check[v].address # NoAddress
    BY <1>1, <2>1 DEF ChecksHold, CheckRow
  <2>3. DeskHolds'
    <3>1. desk[o].address = check[v].address
      BY <2>1 DEF Unchanged
    <3>2. "pronto" \in Editable \cup {"assegnato", "annullato"}
      BY DEF Editable
    <3>3. "pronto" \in {"pronto", "assegnato"} =>
            desk[o].address # NoAddress /\ check[v].address = desk[o].address
      BY <2>2, <3>1
    <3>4. desk[o].address \in Addresses \cup {NoAddress}
      BY <2>2, <3>1
    <3>5. QED BY <1>1, <2>1, <2>2, <3>2, <3>3, <3>4, ChangedStep
  <2>4. CASE check[v].of = "desk"
    <3>1. choice' = choice /\ check' = [check EXCEPT ![v] = NoCheck]
      BY <2>1, <2>4 DEF Renewed
    <3>2. ChecksHold'
      BY <1>3, <1>5, <3>1
    <3>3. QED
      BY <1>1, <2>1, <2>3, <3>1, <3>2, DraftsAlone, ChoiceAlone, PagesAlone, GatheredAlone
      DEF SelectionInv
  <2>5. CASE check[v].of # "desk"
    <3>1. Prepare(choice.ids, {})
      BY <2>1, <2>5 DEF Renewed
    <3>2. /\ choice'.ids = choice.ids /\ choice'.stops = {}
          /\ ChoiceHolds' /\ PagesAgree' /\ choice.version + 1 \in 0..MaxChoice
      BY <1>1, <1>2, <2>1, <3>1, PreparedStep
    <3> DEFINE entry == [NoCheck EXCEPT !.phase = "between", !.of = "selection",
                                      !.version = choice.version + 1]
    <3>3. check' = [check EXCEPT ![v] = entry]
      BY <2>1, <2>5 DEF Renewed
    <3>4. entry \in CheckRow /\ entry.phase = "between"
      BY <1>4, <3>2
    <3> HIDE DEF entry
    <3>5. ChecksHold'
      BY <1>5, <3>3, <3>4
    <3>6. Kept(choice') = choice.ids
      BY <3>2 DEF Kept, ShownOf
    <3>7. GatheredIsKept'
      BY <1>1, <2>1, <3>6 DEF GatheredIsKept, NothingGatheredIsLost
    <3>8. QED BY <1>1, <2>1, <2>3, <3>2, <3>5, <3>7, DraftsAlone DEF SelectionInv
  <2>6. QED BY <2>4, <2>5
<1>7. ASSUME NEW v \in Checks, MarkFailed(v) PROVE SelectionInv'
  <2>1. PICK o \in check[v].order :
          /\ desk[o].version <= MaxOrderVersion /\ o \in choice.ids /\ Unchanged(v, o)
          /\ Changed(o, "da_verificare", desk[o].address, NoAddress)
          /\ check' = [check EXCEPT ![v] = [NoCheck EXCEPT !.phase = "between", !.of = "selection",
                                                           !.version = check[v].version]]
          /\ UNCHANGED <<choice, drafts, tab, gathered>>
    BY <1>7 DEF MarkFailed
  <2>2. o \in Orders
    BY <1>1, <2>1
  <2>3. DeskHolds'
    <3>1. desk[o].address \in Addresses \cup {NoAddress}
      BY <1>1, <2>2 DEF DeskHolds, DeskOrder
    <3>2. /\ "da_verificare" \in Editable \cup {"assegnato", "annullato"}
          /\ "da_verificare" \notin {"pronto", "assegnato"}
      BY DEF Editable
    <3>3. NoAddress \in Addresses \cup {NoAddress}
      OBVIOUS
    <3>4. QED BY <1>1, <2>1, <2>2, <3>1, <3>2, <3>3, ChangedStep
  <2> DEFINE entry == [NoCheck EXCEPT !.phase = "between", !.of = "selection",
                                    !.version = check[v].version]
  <2>4. check[v].version \in 0..MaxChoice
    BY <1>1 DEF ChecksHold, CheckRow
  <2>5. entry \in CheckRow /\ entry.phase = "between"
    BY <1>4, <2>4
  <2>6. check' = [check EXCEPT ![v] = entry]
    BY <2>1
  <2> HIDE DEF entry
  <2>7. ChecksHold'
    BY <1>5, <2>5, <2>6
  <2>8. QED
    BY <1>1, <2>1, <2>3, <2>7, DraftsAlone, ChoiceAlone, PagesAlone, GatheredAlone
    DEF SelectionInv
<1>8. ASSUME NEW v \in Checks, EndCheck(v) PROVE SelectionInv'
  <2>1. ChecksHold'
    BY <1>3, <1>5, <1>8 DEF EndCheck
  <2>2. QED
    BY <1>1, <1>8, <2>1, DeskAlone, DraftsAlone, ChoiceAlone, PagesAlone, GatheredAlone
    DEF EndCheck, SelectionInv
<1>9. ASSUME NEW v \in Checks, NEW t \in Tabs, BeginSelected(v, t) PROVE SelectionInv'
  <2> DEFINE entry == [NoCheck EXCEPT !.phase = "between", !.of = "selection", !.version = choice.version]
  <2>1. entry \in CheckRow /\ entry.phase = "between"
    BY <1>1, <1>4
  <2>2. check' = [check EXCEPT ![v] = entry]
    BY <1>9 DEF BeginSelected
  <2> HIDE DEF entry
  <2>3. ChecksHold'
    BY <1>5, <2>1, <2>2
  <2>4. QED
    BY <1>1, <1>9, <2>3, DeskAlone, DraftsAlone, ChoiceAlone, PagesAlone, GatheredAlone
    DEF BeginSelected, SelectionInv
<1>10. ASSUME NEW v \in Checks, NEW o \in Orders, Ask(v, o) PROVE SelectionInv'
  <2> DEFINE entry == [check[v] EXCEPT !.phase = "asked", !.order = {o},
                                     !.seen = desk[o].version, !.address = desk[o].address]
  <2>1. /\ check[v] \in CheckRow /\ {o} \in SUBSET Orders
        /\ desk[o].version \in 0..MaxOrderVersion + 1
        /\ desk[o].address \in Addresses \cup {NoAddress} /\ desk[o].address # NoAddress
    BY <1>1, <1>10 DEF ChecksHold, DeskHolds, DeskOrder, Ask, Needs
  <2>2. entry \in CheckRow /\ entry.address = desk[o].address
    BY <2>1 DEF CheckRow
  <2>3. check' = [check EXCEPT ![v] = entry]
    BY <1>10 DEF Ask
  <2> HIDE DEF entry
  <2>4. ChecksHold'
    BY <1>5, <2>1, <2>2, <2>3
  <2>5. QED
    BY <1>1, <1>10, <2>4, DeskAlone, DraftsAlone, ChoiceAlone, PagesAlone, GatheredAlone
    DEF Ask, SelectionInv
<1>11. QED BY <1>6, <1>7, <1>8, <1>9, <1>10 DEF ChecksNext

(* At first nothing is chosen.                                             *)
LEMMA SelectionBegins == SelectionAssumption /\ SelectionInit => SelectionInv
<1> SUFFICES ASSUME SelectionAssumption, SelectionInit PROVE SelectionInv
  OBVIOUS
<1>1. {} \in Prepared /\ UNION {} = {} /\ 0 \in 0..MaxChoice /\ 1 \in 0..MaxChoice
      /\ \A S \in SUBSET Orders : {S} \in Prepared /\ UNION {S} = S /\ {S} # {}
  BY DEF Prepared, SelectionAssumption
<1>2. DeskHolds
  BY DEF SelectionInit, DeskHolds, DeskOrder, Editable, ReadyMeansVerified, SelectionAssumption
<1>3. ChecksHold
  BY DEF SelectionInit, NoCheck, ChecksHold, CheckRow, SelectionAssumption
<1>4. /\ choice \in Choice /\ choice.ids = {} /\ choice.stops = {} /\ choice.version \in {0, 1}
  <2>1. PICK version \in {0, 1} : choice = [ids |-> {}, stops |-> {}, version |-> version]
    BY DEF SelectionInit
  <2>2. version \in 0..MaxChoice /\ {} \in SUBSET Orders
    BY <1>1, <2>1
  <2>3. QED BY <1>1, <2>1, <2>2 DEF Choice
<1>5. ChoiceHolds
  BY <1>1, <1>4 DEF ChoiceHolds
<1>6. PagesAgree
  <2>1. ShownOf(choice) = {}
    BY <1>4 DEF ShownOf
  <2>2. \A t \in Tabs : tab[t].version = 0 /\ tab[t].stops = {}
    BY DEF SelectionInit
  <2>3. tab \in [Tabs -> [version : 0..MaxChoice, stops : SUBSET Orders]]
    BY <1>1 DEF SelectionInit
  <2>4. QED BY <1>4, <2>1, <2>2, <2>3 DEF PagesAgree
<1>7. ASSUME NEW d \in Drafts
      PROVE  /\ drafts[d] \in Draft
             /\ ~drafts[d].kept => drafts[d].ids = {} /\ drafts[d].stops = {}
             /\ Kept(drafts[d]) = drafts[d].ids
  <2> DEFINE Fine == /\ drafts[d] \in Draft
                     /\ ~drafts[d].kept => drafts[d].ids = {} /\ drafts[d].stops = {}
                     /\ Kept(drafts[d]) = drafts[d].ids
  <2>1. ASSUME drafts = [e \in Drafts |-> NoDraft] PROVE Fine
    BY <1>1, <2>1 DEF NoDraft, Draft, Kept, ShownOf
  <2>2. ASSUME NEW S \in (SUBSET Orders) \ {{}},
               drafts \in [Drafts -> {[kept |-> TRUE, ids |-> S, stops |-> P] : P \in {{}, {S}}}]
        PROVE  Fine
    <3>1. PICK P \in {{}, {S}} : drafts[d] = [kept |-> TRUE, ids |-> S, stops |-> P]
      BY <2>2
    <3>2. drafts[d].kept /\ drafts[d].ids = S /\ drafts[d].stops = P
      BY <3>1
    <3>3. drafts[d] \in Draft
      <4>1. P \in Prepared /\ S \in SUBSET Orders /\ TRUE \in BOOLEAN
        BY <1>1, <2>2, <3>1
      <4>2. QED BY <3>1, <4>1 DEF Draft
    <3>4. S \in SUBSET Orders /\ (P = {} \/ P = {S}) /\ UNION {S} = S /\ {S} # {}
      BY <1>1, <2>2, <3>1
    <3>5. ShownOf(drafts[d]) = S
      BY <3>2, <3>4 DEF ShownOf
    <3>6. Kept(drafts[d]) = S
      BY <3>2, <3>5 DEF Kept
    <3>7. QED BY <3>2, <3>3, <3>6
  <2>3. \/ drafts = [e \in Drafts |-> NoDraft]
        \/ \E S \in (SUBSET Orders) \ {{}} :
             drafts \in [Drafts -> {[kept |-> TRUE, ids |-> S, stops |-> P] : P \in {{}, {S}}}]
    BY DEF SelectionInit
  <2> HIDE DEF Fine
  <2>4. Fine
    BY <2>1, <2>2, <2>3
  <2>5. QED BY <2>4 DEF Fine
<1>8. drafts \in [Drafts -> Draft]
  <2>1. DOMAIN drafts = Drafts /\ drafts = [d \in Drafts |-> drafts[d]]
    BY DEF SelectionInit
  <2>2. QED BY <1>7, <2>1
<1>9. DraftsHold
  BY <1>7, <1>8 DEF DraftsHold
<1>10. GatheredIsKept
  <2>1. gathered = UNION {drafts[d].ids : d \in Drafts}
    BY DEF SelectionInit
  <2>2. \A d \in Drafts : drafts[d].ids \subseteq Orders
    BY <1>7 DEF Draft
  <2>3. QED BY <1>7, <2>1, <2>2 DEF GatheredIsKept, NothingGatheredIsLost
<1>11. QED BY <1>2, <1>3, <1>5, <1>6, <1>9, <1>10 DEF SelectionInv

(* Every step keeps the invariant.                                         *)
LEMMA SelectionStep ==
  SelectionInv /\ SelectionAssumption /\ [SelectionNext]_selectionVars => SelectionInv'
<1>1. SUFFICES ASSUME SelectionInv, SelectionAssumption, [SelectionNext]_selectionVars
               PROVE SelectionInv'
  OBVIOUS
<1>2. CASE PagesNext
  BY <1>1, <1>2, PagesStep, DraftsStep, ResolveStep DEF PagesNext
<1>3. CASE UNCHANGED selectionVars
  BY <1>1, <1>3, DeskAlone, ChecksAlone, DraftsAlone, ChoiceAlone, PagesAlone, GatheredAlone
  DEF selectionVars, SelectionInv
<1>4. QED BY <1>1, <1>2, <1>3, DesksStep, ChecksStep, DraftsStep DEF SelectionNext

(* Whoever edits an order while the geocoder is asked about it, an order   *)
(* is ready or assigned only with a proof of the address that it has; and  *)
(* what an operator selected stays in the selection or in a draft, among   *)
(* the stops that it shows, until it is taken out.                         *)
THEOREM SelectionKept == SelectionSpec => []SelectionIsSound
<1>1. QED
  BY SelectionAssumption, SelectionBegins, SelectionStep, SelectionSound, PTL DEF SelectionSpec

-----------------------------------------------------------------------------
(* Registry: the vehicles within the limits of the plan.                   *)

Electrics == {v \in Present : fleet[v] = "elettrico"}

(* Of any number of vehicles that there could be, a company has finitely   *)
(* many: it registers one after another.                                   *)
RegistryInv ==
  /\ plan \in PlanLimits /\ entitled \in BOOLEAN
  /\ fleet \in [Vehicles -> Fuels \cup {"none", "archived"}]
  /\ others \in [Registers -> 0..MaxOthers]
  /\ clerk \in [Clerks -> [vehicle : SUBSET Vehicles, fuel : Fuels]]
  /\ IsFiniteSet(Present)

(* The elements of a finite set can be numbered.                           *)
LEMMA Numbered ==
  ASSUME NEW S, IsFiniteSet(S)
  PROVE  \E number \in [S -> 1..Cardinality(S)] :
           \A v, w \in S : v # w => number[v] # number[w]
<1>1. PICK f \in Bijection(1..Cardinality(S), S) : TRUE
  BY FS_CardinalityType DEF ExistsBijection
<1>2. /\ f \in [1..Cardinality(S) -> S]
      /\ \A v \in S : \E i \in 1..Cardinality(S) : f[i] = v
  BY <1>1 DEF Bijection, Surjection
<1> DEFINE number == [v \in S |-> CHOOSE i \in 1..Cardinality(S) : f[i] = v]
<1>3. \A v \in S : number[v] \in 1..Cardinality(S) /\ f[number[v]] = v
  BY <1>2
<1>4. number \in [S -> 1..Cardinality(S)]
  BY <1>3
<1> HIDE DEF number
<1>5. QED BY <1>3, <1>4

(* So many slots.                                                          *)
LEMMA SlotsCounted ==
  ASSUME NEW k \in Nat
  PROVE  IsFiniteSet(1..k) /\ Cardinality(1..k) = k
<1>1. /\ IsFiniteSet(1..k)
      /\ Cardinality(1..k) = IF 1 > k THEN 0 ELSE k - 1 + 1
  BY FS_Interval, 1 \in Int, k \in Int
<1>2. QED BY <1>1

(* The figures of the report: numbers of vehicles and of slots.            *)
LEMMA Figures ==
  ASSUME RegistryInv, RegistryAssumption
  PROVE  /\ Total \in Nat /\ Electric \in Nat /\ Electric <= Total
         /\ Electric = Cardinality(Electrics)
         /\ IsFiniteSet(Electrics) /\ IsFiniteSet(Present \ Electrics)
         /\ Cardinality(Present \ Electrics) = Total - Electric
         /\ plan.standard \in Nat /\ plan.bonus \in Nat /\ plan.most \in [Registers -> Nat]
<1>1. IsFiniteSet(Present) /\ Electrics \in SUBSET Present
  BY DEF RegistryInv, Electrics
<1>2. /\ Total \in Nat /\ Total = Cardinality(Present)
  BY <1>1, FS_CardinalityType DEF Total
<1>3. /\ IsFiniteSet(Electrics) /\ Cardinality(Electrics) <= Cardinality(Present)
  BY <1>1, FS_Subset
<1>4. /\ Cardinality(Electrics) \in Nat /\ Electric = Cardinality(Electrics)
  BY <1>3, FS_CardinalityType DEF Electric, Electrics
<1>5. /\ IsFiniteSet(Present \ Electrics)
      /\ Cardinality(Present \ Electrics) = Cardinality(Present) - Cardinality(Present \cap Electrics)
  BY <1>1, FS_Difference
<1>6. Present \cap Electrics = Electrics
  BY <1>1
<1>7. plan.standard \in Nat /\ plan.bonus \in Nat /\ plan.most \in [Registers -> Nat]
  BY DEF RegistryInv, RegistryAssumption
<1>8. QED BY <1>2, <1>3, <1>4, <1>5, <1>6, <1>7

(* The report agrees with the check: arithmetic of the two limits.         *)
LEMMA ReportAgrees == RegistryInv /\ RegistryAssumption => ReportAgreesWithCheck
<1>1. SUFFICES ASSUME RegistryInv, RegistryAssumption, NEW fuel \in Fuels
               PROVE CanAdd(fuel) <=> MayAdd(fuel)
  BY DEF ReportAgreesWithCheck
<1>2. /\ Total \in Nat /\ Electric \in Nat /\ Electric <= Total
      /\ plan.standard \in Nat /\ plan.bonus \in Nat
  BY <1>1, Figures
<1>3. CASE fuel = "elettrico"
  BY <1>2, <1>3 DEF CanAdd, MayAdd, OverLimit, OverStandard, OverTotal, Above
<1>4. CASE fuel # "elettrico"
  BY <1>2, <1>4 DEF CanAdd, MayAdd, OverLimit, OverStandard, OverTotal, Above, StandardUsed
<1>5. QED BY <1>3, <1>4

(* Within both limits, the vehicles that are not electric take the first   *)
(* slots and the electric ones those that follow; and with a slot for each *)
(* vehicle, no more than the standard ones have a vehicle not electric.    *)
LEMMA SlotsFollow == RegistryInv /\ RegistryAssumption => SlotsSuffice
<1>1. SUFFICES ASSUME RegistryInv, RegistryAssumption PROVE SlotsSuffice
  OBVIOUS
<1> DEFINE Thermal == Present \ Electrics
           Slots == 1..plan.standard + plan.bonus
           Apart(slot) == /\ \A v, w \in Present : v # w => slot[v] # slot[w]
                          /\ \A v \in Present : slot[v] > plan.standard => fleet[v] = "elettrico"
           n == Total - Electric
<1>2. /\ Total \in Nat /\ Electric \in Nat /\ n \in Nat /\ Total = n + Electric
      /\ plan.standard \in Nat /\ plan.bonus \in Nat
      /\ IsFiniteSet(Present) /\ IsFiniteSet(Electrics) /\ IsFiniteSet(Thermal)
      /\ Cardinality(Thermal) = n /\ Cardinality(Electrics) = Electric
      /\ Cardinality(Present) = Total
  BY <1>1, Figures DEF RegistryInv, Total
<1>3. OverLimit(Total, Electric) <=> n > plan.standard \/ Total > plan.standard + plan.bonus
  BY <1>2 DEF OverLimit, OverStandard, OverTotal, Above
<1>4. ASSUME n <= plan.standard, Total <= plan.standard + plan.bonus
      PROVE  \E slot \in [Present -> Slots] : Apart(slot)
  <2>1. PICK g \in [Thermal -> 1..n] : \A v, w \in Thermal : v # w => g[v] # g[w]
    BY <1>2, Numbered
  <2>2. PICK h \in [Electrics -> 1..Electric] : \A v, w \in Electrics : v # w => h[v] # h[w]
    BY <1>2, Numbered
  <2> DEFINE slot == [v \in Present |-> IF v \in Thermal THEN g[v] ELSE n + h[v]]
  <2>3. ASSUME NEW v \in Present
        PROVE  \/ v \in Thermal /\ slot[v] = g[v] /\ g[v] \in 1..n
               \/ /\ v \in Electrics /\ slot[v] = n + h[v] /\ h[v] \in 1..Electric
                  /\ fleet[v] = "elettrico"
    BY <2>1, <2>2, <2>3 DEF Electrics
  <2>4. slot \in [Present -> Slots]
    BY <1>2, <1>4, <2>3
  <2> HIDE DEF slot, Thermal
  <2>5. ASSUME NEW v \in Present, NEW w \in Present, v # w PROVE slot[v] # slot[w]
    <3>1. CASE v \in Thermal /\ slot[v] = g[v] /\ g[v] \in 1..n
      BY <1>2, <2>1, <2>3, <2>5, <3>1
    <3>2. CASE v \in Electrics /\ slot[v] = n + h[v] /\ h[v] \in 1..Electric
      BY <1>2, <2>2, <2>3, <2>5, <3>2
    <3>3. QED BY <2>3, <3>1, <3>2
  <2>6. ASSUME NEW v \in Present, slot[v] > plan.standard PROVE fleet[v] = "elettrico"
    BY <1>2, <1>4, <2>3, <2>6
  <2>7. QED BY <2>4, <2>5, <2>6
<1>5. ASSUME NEW slot \in [Present -> Slots], Apart(slot)
      PROVE  n <= plan.standard /\ Total <= plan.standard + plan.bonus
  <2>1. ~(Total > plan.standard + plan.bonus)
    <3>1. SUFFICES ASSUME Total > plan.standard + plan.bonus PROVE FALSE
      OBVIOUS
    <3>2. IsFiniteSet(Slots) /\ Cardinality(Slots) = plan.standard + plan.bonus
      BY <1>2, SlotsCounted, plan.standard + plan.bonus \in Nat
    <3>3. Cardinality(Slots) \in Nat
      BY <3>2, FS_CardinalityType
    <3>4. Cardinality(Slots) < Cardinality(Present)
      BY <1>2, <3>1, <3>2, <3>3
    <3> HIDE DEF Slots
    <3>5. \E v, w \in Present : v # w /\ slot[v] = slot[w]
      BY <1>2, <3>2, <3>4, FS_PigeonHole
    <3>6. QED BY <1>5, <3>5
  <2>2. ~(n > plan.standard)
    <3>1. SUFFICES ASSUME n > plan.standard PROVE FALSE
      OBVIOUS
    <3> DEFINE first == [v \in Thermal |-> slot[v]]
               Firsts == 1..plan.standard
    <3>2. first \in [Thermal -> Firsts]
      <4>1. ASSUME NEW v \in Thermal PROVE slot[v] \in Firsts
        <5>1. slot[v] \in Slots /\ ~(slot[v] > plan.standard)
          BY <1>5, <4>1 DEF Electrics
        <5>2. QED BY <1>2, <5>1
      <4>2. QED BY <4>1
    <3>3. IsFiniteSet(Firsts) /\ Cardinality(Firsts) = plan.standard
      BY <1>2, SlotsCounted
    <3>4. Cardinality(Firsts) \in Nat
      BY <3>3, FS_CardinalityType
    <3>5. Cardinality(Firsts) < Cardinality(Thermal)
      BY <1>2, <3>1, <3>3, <3>4
    <3>6. \A v \in Thermal : first[v] = slot[v] /\ v \in Present
      OBVIOUS
    <3> HIDE DEF first, Firsts, Thermal
    <3>7. \E v, w \in Thermal : v # w /\ first[v] = first[w]
      BY <1>2, <3>2, <3>3, <3>5, FS_PigeonHole
    <3>8. QED BY <1>5, <3>6, <3>7
  <2>3. QED BY <1>2, <2>1, <2>2
<1>6. QED BY <1>2, <1>3, <1>4, <1>5 DEF SlotsSuffice

(* What a step that keeps the plan may do to the excess.                   *)
NoMoreExcess ==
  plan' = plan =>
    /\ OverStandard(Total, Electric)' <= OverStandard(Total, Electric)
    /\ OverTotal(Total)' <= OverTotal(Total)
    /\ \A k \in Registers : Above(others[k], plan.most[k])' <= Above(others[k], plan.most[k])

(* A number that does not grow, or stays within the limit, is not further  *)
(* above it.                                                               *)
LEMMA AboveGrows ==
  ASSUME NEW limit \in Nat, NEW before \in Int, NEW after \in Int,
         after <= before \/ after <= limit
  PROVE  Above(after, limit) <= Above(before, limit)
BY DEF Above

(* The excess of vehicles follows from the numbers before and after.       *)
LEMMA VehicleExcess ==
  ASSUME RegistryInv, RegistryAssumption, plan' = plan, others' = others,
         Total' \in Nat, Electric' \in Nat,
         \/ Total' - Electric' <= Total - Electric
         \/ Total' - Electric' <= plan.standard,
         Total' <= Total \/ Total' <= plan.standard + plan.bonus
  PROVE  NoMoreExcess
<1>1. /\ Total \in Nat /\ Electric \in Nat
      /\ plan.standard \in Nat /\ plan.bonus \in Nat /\ plan.most \in [Registers -> Nat]
  BY Figures
<1>2. OverStandard(Total, Electric)' <= OverStandard(Total, Electric)
  <2>1. Total - Electric \in Int /\ Total' - Electric' \in Int
    BY <1>1
  <2>2. Total' - Electric' <= Total - Electric \/ Total' - Electric' <= plan.standard
    OBVIOUS
  <2>3. Above(Total' - Electric', plan.standard) <= Above(Total - Electric, plan.standard)
    BY <1>1, <2>1, <2>2, AboveGrows
  <2>4. OverStandard(Total, Electric)' = Above(Total' - Electric', plan'.standard)
    BY DEF OverStandard
  <2>5. QED BY <2>3, <2>4 DEF OverStandard
<1>3. OverTotal(Total)' <= OverTotal(Total)
  <2> DEFINE limit == plan.standard + plan.bonus
  <2>1. limit \in Nat
    BY <1>1
  <2>2. Above(Total', limit) <= Above(Total, limit)
    <3>1. Total \in Int /\ Total' \in Int
      BY <1>1
    <3>2. Total' <= Total \/ Total' <= limit
      OBVIOUS
    <3> HIDE DEF limit
    <3>3. QED BY <2>1, <3>1, <3>2, AboveGrows
  <2>3. OverTotal(Total)' = Above(Total', plan'.standard + plan'.bonus)
    BY DEF OverTotal
  <2>4. QED BY <2>2, <2>3 DEF OverTotal
<1>4. ASSUME NEW k \in Registers
      PROVE  Above(others[k], plan.most[k])' <= Above(others[k], plan.most[k])
  <2>1. others[k] \in Nat /\ plan.most[k] \in Nat
    BY <1>1 DEF RegistryInv, RegistryAssumption
  <2>2. QED BY <2>1 DEF Above
<1>5. QED BY <1>2, <1>3, <1>4 DEF NoMoreExcess

(* A vehicle that comes, changes or goes.                                  *)
LEMMA VehicleWritten ==
  ASSUME RegistryInv, NEW v \in Vehicles, NEW is \in Fuels \cup {"none", "archived"},
         fleet' = [fleet EXCEPT ![v] = is]
  PROVE  /\ fleet' \in [Vehicles -> Fuels \cup {"none", "archived"}]
         /\ Present' = (IF is \in Fuels THEN Present \cup {v} ELSE Present \ {v})
         /\ Electrics' = (IF is = "elettrico" THEN Electrics \cup {v} ELSE Electrics \ {v})
<1>1. /\ fleet' \in [Vehicles -> Fuels \cup {"none", "archived"}]
      /\ fleet'[v] = is /\ \A w \in Vehicles \ {v} : fleet'[w] = fleet[w]
  BY DEF RegistryInv
<1>2. Present' = (IF is \in Fuels THEN Present \cup {v} ELSE Present \ {v})
  BY <1>1 DEF Present
<1>3. Electrics' = (IF is = "elettrico" THEN Electrics \cup {v} ELSE Electrics \ {v})
  BY <1>1 DEF Electrics, Present, Fuels
<1>4. QED BY <1>1, <1>2, <1>3

(* Every change of a vehicle keeps the registry and adds no excess.        *)
LEMMA VehicleStep ==
  ASSUME RegistryInv, RegistryAssumption, NEW v \in Vehicles,
         \/ DeleteVehicle(v)
         \/ \E fuel \in Fuels : CreateVehicle(v, fuel)
         \/ \E q \in Clerks, fuel \in Fuels :
              /\ ChangeVehicle(q, fuel) /\ v \in Present /\ MayChangeFuel(fleet[v], fuel)
              /\ fleet' = [fleet EXCEPT ![v] = fuel]
  PROVE  fleet' \in [Vehicles -> Fuels \cup {"none", "archived"}] /\ IsFiniteSet(Present') /\ NoMoreExcess
<1>1. /\ Total \in Nat /\ Electric \in Nat /\ Electric <= Total
      /\ Total = Cardinality(Present) /\ Electric = Cardinality(Electrics)
      /\ IsFiniteSet(Present) /\ IsFiniteSet(Electrics)
      /\ plan.standard \in Nat /\ plan.bonus \in Nat
  BY Figures DEF RegistryInv, Total
<1>2. /\ Total' = Cardinality(Present') /\ Electric' = Cardinality(Electrics')
  BY DEF Total, Electric, Electrics
<1>3. /\ IsFiniteSet(Present \cup {v}) /\ IsFiniteSet(Present \ {v})
      /\ Cardinality(Present \cup {v}) = IF v \in Present THEN Total ELSE Total + 1
      /\ Cardinality(Present \ {v}) = IF v \in Present THEN Total - 1 ELSE Total
  BY <1>1, FS_AddElement, FS_RemoveElement
<1>4. /\ IsFiniteSet(Electrics \cup {v}) /\ IsFiniteSet(Electrics \ {v})
      /\ Cardinality(Electrics \cup {v}) = IF v \in Electrics THEN Electric ELSE Electric + 1
      /\ Cardinality(Electrics \ {v}) = IF v \in Electrics THEN Electric - 1 ELSE Electric
  BY <1>1, FS_AddElement, FS_RemoveElement
<1>5. /\ Cardinality(Present \cup {v}) \in Nat /\ Cardinality(Present \ {v}) \in Nat
      /\ Cardinality(Electrics \cup {v}) \in Nat /\ Cardinality(Electrics \ {v}) \in Nat
  BY <1>3, <1>4, FS_CardinalityType
<1>6. CASE DeleteVehicle(v)
  <2>1. /\ v \in Present /\ fleet' = [fleet EXCEPT ![v] = "archived"]
        /\ plan' = plan /\ others' = others
    BY <1>6 DEF DeleteVehicle
  <2>2. /\ fleet' \in [Vehicles -> Fuels \cup {"none", "archived"}]
        /\ Present' = Present \ {v} /\ Electrics' = Electrics \ {v}
    BY <2>1, VehicleWritten, "archived" \in Fuels \cup {"none", "archived"} DEF Fuels
  <2>3. /\ Total' = Total - 1 /\ Total' \in Nat /\ Electric' \in Nat
        /\ Electric' = IF v \in Electrics THEN Electric - 1 ELSE Electric
    BY <1>2, <1>3, <1>4, <1>5, <2>1, <2>2
  <2>4. Total' <= Total /\ Total' - Electric' <= Total - Electric
    BY <1>1, <2>3
  <2>5. NoMoreExcess
    BY <2>1, <2>3, <2>4, VehicleExcess
  <2>6. QED BY <1>3, <2>2, <2>5
<1>7. ASSUME NEW fuel \in Fuels, CreateVehicle(v, fuel)
      PROVE  /\ fleet' \in [Vehicles -> Fuels \cup {"none", "archived"}]
             /\ IsFiniteSet(Present') /\ NoMoreExcess
  <2>1. /\ fleet[v] = "none" /\ MayAdd(fuel) /\ fleet' = [fleet EXCEPT ![v] = fuel]
        /\ plan' = plan /\ others' = others
    BY <1>7 DEF CreateVehicle
  <2>2. v \notin Present /\ v \notin Electrics
    BY <2>1 DEF Present, Electrics, Fuels
  <2>3. /\ fleet' \in [Vehicles -> Fuels \cup {"none", "archived"}]
        /\ Present' = Present \cup {v}
        /\ Electrics' = IF fuel = "elettrico" THEN Electrics \cup {v} ELSE Electrics \ {v}
    BY <2>1, VehicleWritten
  <2>4. /\ Total' = Total + 1 /\ Total' \in Nat /\ Electric' \in Nat
        /\ Electric' = Electric + IF fuel = "elettrico" THEN 1 ELSE 0
    BY <1>1, <1>2, <1>3, <1>4, <1>5, <2>2, <2>3
  <2>5. ~OverLimit(Total + 1, Electric + IF fuel = "elettrico" THEN 1 ELSE 0)
    BY <2>1 DEF MayAdd
  <2>6. ~OverLimit(Total', Electric')
    BY <2>4, <2>5
  <2>7. Total' - Electric' <= plan.standard /\ Total' <= plan.standard + plan.bonus
    BY <1>1, <2>4, <2>6 DEF OverLimit, OverStandard, OverTotal, Above
  <2>8. NoMoreExcess
    BY <2>1, <2>4, <2>7, VehicleExcess
  <2>9. QED BY <1>3, <2>3, <2>8
<1>8. ASSUME NEW fuel \in Fuels, v \in Present, MayChangeFuel(fleet[v], fuel),
             fleet' = [fleet EXCEPT ![v] = fuel], plan' = plan, others' = others
      PROVE  /\ fleet' \in [Vehicles -> Fuels \cup {"none", "archived"}]
             /\ IsFiniteSet(Present') /\ NoMoreExcess
  <2>1. /\ fleet' \in [Vehicles -> Fuels \cup {"none", "archived"}]
        /\ Present' = Present \cup {v}
        /\ Electrics' = IF fuel = "elettrico" THEN Electrics \cup {v} ELSE Electrics \ {v}
    BY <1>8, VehicleWritten
  <2>2. /\ Total' = Total /\ Total' \in Nat /\ Electric' \in Nat
        /\ Electric' = IF fuel = "elettrico" THEN Cardinality(Electrics \cup {v})
                                             ELSE Cardinality(Electrics \ {v})
    BY <1>1, <1>2, <1>3, <1>5, <1>8, <2>1
  <2>3. v \in Electrics <=> fleet[v] = "elettrico"
    BY <1>8 DEF Electrics
  <2>4. Total' - Electric' <= Total - Electric \/ Total' - Electric' <= plan.standard
    <3>1. CASE fuel = "elettrico"
      BY <1>1, <1>4, <2>2, <3>1
    <3>2. CASE fuel # "elettrico" /\ fleet[v] = fuel
      BY <1>1, <1>4, <2>2, <2>3, <3>2
    <3>3. CASE fuel # "elettrico" /\ fleet[v] # fuel
      <4>1. OverStandard(Total, Electric - 1) = 0
        BY <1>8, <3>3 DEF MayChangeFuel
      <4>2. fleet[v] = "elettrico"
        BY <1>8, <3>3 DEF Present, Fuels
      <4>3. Electric' = Electric - 1
        BY <1>4, <2>2, <2>3, <3>3, <4>2
      <4>4. Total - (Electric - 1) <= plan.standard
        BY <1>1, <4>1 DEF OverStandard, Above
      <4>5. QED BY <2>2, <4>3, <4>4
    <3>4. QED BY <3>1, <3>2, <3>3
  <2>5. Total' <= Total
    BY <1>1, <2>2
  <2>6. NoMoreExcess
    BY <1>8, <2>2, <2>4, <2>5, VehicleExcess
  <2>7. QED BY <1>3, <2>1, <2>6
<1>9. QED BY <1>6, <1>7, <1>8 DEF ChangeVehicle

(* A step that changes no vehicle leaves the numbers of vehicles.          *)
LEMMA FleetAlone ==
  ASSUME RegistryInv, RegistryAssumption, fleet' = fleet, others' = others
  PROVE  /\ Present' = Present
         /\ NoMoreExcess
<1>1. Present' = Present /\ Total' = Total /\ Electric' = Electric
  BY DEF Present, Total, Electric
<1>2. Total \in Nat /\ Electric \in Nat
  BY Figures
<1>3. CASE plan' = plan
  BY <1>1, <1>2, <1>3, VehicleExcess
<1>4. QED BY <1>1, <1>3 DEF NoMoreExcess

(* Registering or archiving one of another kind.                           *)
LEMMA OthersExcess ==
  ASSUME RegistryInv, RegistryAssumption, NEW k \in Registers, NEW m \in 0..MaxOthers,
         fleet' = fleet, plan' = plan, others' = [others EXCEPT ![k] = m],
         m <= others[k] \/ m <= plan.most[k]
  PROVE  Present' = Present /\ others' \in [Registers -> 0..MaxOthers] /\ NoMoreExcess
<1>1. Present' = Present /\ Total' = Total /\ Electric' = Electric
  BY DEF Present, Total, Electric
<1>2. /\ Total \in Nat /\ Electric \in Nat
      /\ plan.standard \in Nat /\ plan.bonus \in Nat /\ plan.most \in [Registers -> Nat]
  BY Figures
<1>3. /\ OverStandard(Total, Electric)' <= OverStandard(Total, Electric)
      /\ OverTotal(Total)' <= OverTotal(Total)
  BY <1>1, <1>2 DEF OverStandard, OverTotal, Above
<1>4. /\ others' \in [Registers -> 0..MaxOthers] /\ others'[k] = m
      /\ \A j \in Registers \ {k} : others'[j] = others[j]
  BY DEF RegistryInv
<1>5. ASSUME NEW j \in Registers
      PROVE  Above(others[j], plan.most[j])' <= Above(others[j], plan.most[j])
  <2>1. others[j] \in Nat /\ plan.most[j] \in Nat /\ m \in Nat
    BY <1>2 DEF RegistryInv, RegistryAssumption
  <2>2. CASE j = k
    BY <1>4, <2>1, <2>2 DEF Above
  <2>3. CASE j # k
    BY <1>4, <2>1, <2>3 DEF Above
  <2>4. QED BY <2>2, <2>3
<1>6. QED BY <1>1, <1>3, <1>4, <1>5 DEF NoMoreExcess

(* So does every step.                                                     *)
LEMMA RegistryStep ==
  RegistryInv /\ RegistryAssumption /\ [RegistryNext]_registryVars => RegistryInv' /\ NoMoreExcess
<1>1. SUFFICES ASSUME RegistryInv, RegistryAssumption, [RegistryNext]_registryVars
               PROVE RegistryInv' /\ NoMoreExcess
  OBVIOUS
<1>2. NotReading \in [vehicle : SUBSET Vehicles, fuel : Fuels]
  BY DEF NotReading, Fuels
<1>3. ASSUME NEW v \in Vehicles, DeleteVehicle(v) PROVE RegistryInv' /\ NoMoreExcess
  BY <1>1, <1>3, VehicleStep DEF DeleteVehicle, RegistryInv
<1>4. ASSUME NEW v \in Vehicles, NEW fuel \in Fuels, CreateVehicle(v, fuel)
      PROVE  RegistryInv' /\ NoMoreExcess
  BY <1>1, <1>4, VehicleStep DEF CreateVehicle, RegistryInv
<1>5. ASSUME NEW q \in Clerks, NEW fuel \in Fuels, ChangeVehicle(q, fuel)
      PROVE  RegistryInv' /\ NoMoreExcess
  <2>1. PICK v \in clerk[q].vehicle :
          /\ v \in Present /\ MayChangeFuel(fleet[v], fuel)
          /\ fleet' = [fleet EXCEPT ![v] = fuel]
          /\ clerk' = [clerk EXCEPT ![q] = NotReading]
          /\ UNCHANGED <<plan, entitled, others>>
    BY <1>5 DEF ChangeVehicle, Previous
  <2>2. v \in Vehicles
    BY <2>1 DEF Present
  <2>3. /\ fleet' \in [Vehicles -> Fuels \cup {"none", "archived"}]
        /\ IsFiniteSet(Present') /\ NoMoreExcess
    BY <1>1, <1>5, <2>1, <2>2, VehicleStep
  <2>4. QED BY <1>1, <1>2, <2>1, <2>3 DEF RegistryInv
<1>6. ASSUME NEW q \in Clerks, RefuseVehicle(q) PROVE RegistryInv' /\ NoMoreExcess
  BY <1>1, <1>2, <1>6, FleetAlone DEF RefuseVehicle, RegistryInv
<1>7. ASSUME NEW q \in Clerks, NEW v \in Vehicles, ReadVehicle(q, v)
      PROVE  RegistryInv' /\ NoMoreExcess
  <2>1. [vehicle |-> {v}, fuel |-> fleet[v]] \in [vehicle : SUBSET Vehicles, fuel : Fuels]
    BY <1>7 DEF ReadVehicle, Present
  <2>2. QED BY <1>1, <1>7, <2>1, FleetAlone DEF ReadVehicle, RegistryInv
<1>8. ASSUME NEW k \in Registers, NEW n \in 1..2, Register(k, n)
      PROVE  RegistryInv' /\ NoMoreExcess
  <2>1. /\ others[k] + n <= plan.most[k] /\ others[k] + n <= MaxOthers
        /\ others' = [others EXCEPT ![k] = others[k] + n]
        /\ fleet' = fleet /\ plan' = plan /\ entitled' = entitled /\ clerk' = clerk
    BY <1>8 DEF Register
  <2>2. others[k] + n \in 0..MaxOthers
    BY <1>1, <2>1 DEF RegistryInv, RegistryAssumption
  <2>3. Present' = Present /\ others' \in [Registers -> 0..MaxOthers] /\ NoMoreExcess
    BY <1>1, <2>1, <2>2, OthersExcess
  <2>4. QED BY <1>1, <2>1, <2>3 DEF RegistryInv
<1>9. ASSUME NEW k \in Registers, Archive(k) PROVE RegistryInv' /\ NoMoreExcess
  <2>1. /\ others[k] > 0
        /\ others' = [others EXCEPT ![k] = others[k] - 1]
        /\ fleet' = fleet /\ plan' = plan /\ entitled' = entitled /\ clerk' = clerk
    BY <1>9 DEF Archive
  <2>2. others[k] - 1 \in 0..MaxOthers /\ others[k] - 1 <= others[k]
    BY <1>1, <2>1 DEF RegistryInv, RegistryAssumption
  <2>3. Present' = Present /\ others' \in [Registers -> 0..MaxOthers] /\ NoMoreExcess
    BY <1>1, <2>1, <2>2, OthersExcess
  <2>4. QED BY <1>1, <2>1, <2>3 DEF RegistryInv
<1>10. ASSUME NEW p \in PlanLimits, NEW is \in BOOLEAN, ChangeEntitlement(p, is)
       PROVE  RegistryInv' /\ NoMoreExcess
  BY <1>1, <1>10, FleetAlone DEF ChangeEntitlement, RegistryInv
<1>11. CASE UNCHANGED registryVars
  BY <1>1, <1>11, FleetAlone DEF registryVars, RegistryInv
<1>12. QED
  BY <1>1, <1>3, <1>4, <1>5, <1>6, <1>7, <1>8, <1>9, <1>10, <1>11 DEF RegistryNext

(* A company begins with no vehicle and nothing else.                      *)
LEMMA RegistryBegins == RegistryAssumption /\ RegistryInit => RegistryInv
<1>1. SUFFICES ASSUME RegistryAssumption, RegistryInit PROVE RegistryInv
  OBVIOUS
<1>2. Present = {}
  BY <1>1 DEF RegistryInit, Present, Fuels
<1>3. IsFiniteSet(Present)
  BY <1>2, FS_EmptySet
<1>4. others \in [Registers -> 0..MaxOthers]
  BY <1>1 DEF RegistryInit, RegistryAssumption
<1>5. QED BY <1>1, <1>3, <1>4 DEF RegistryInit, RegistryInv, NotReading, Fuels

(* A clerk holds a vehicle that was created: it may be archived, never gone.*)
VehiclesWere == \A q \in Clerks : \A v \in clerk[q].vehicle : v \in Vehicles /\ fleet[v] # "none"

LEMMA VehiclesStay ==
  RegistryInv /\ VehiclesWere /\ [RegistryNext]_registryVars => VehiclesWere'
<1>1. SUFFICES ASSUME RegistryInv, VehiclesWere, [RegistryNext]_registryVars,
                      NEW q \in Clerks, NEW v \in clerk'[q].vehicle
               PROVE  v \in Vehicles /\ fleet'[v] # "none"
  BY DEF VehiclesWere
<1>2. ASSUME v \in Vehicles, fleet[v] # "none" PROVE fleet'[v] # "none"
  <2>1. CASE fleet' = fleet
    BY <1>2, <2>1
  <2>2. CASE \E w \in Vehicles, fuel \in Fuels \cup {"archived"} : fleet' = [fleet EXCEPT ![w] = fuel]
    BY <1>1, <1>2, <2>2 DEF RegistryInv, Fuels
  <2>3. QED
    BY <1>1, <2>1, <2>2
       DEF RegistryNext, registryVars, DeleteVehicle, CreateVehicle, RefuseVehicle, ReadVehicle,
           ChangeVehicle, Register, Archive, ChangeEntitlement, Present
<1>3. CASE v \in clerk[q].vehicle
  BY <1>1, <1>2, <1>3 DEF VehiclesWere
<1>4. CASE v \notin clerk[q].vehicle
  <2>1. PICK p \in Clerks, w \in Vehicles : ReadVehicle(p, w)
    BY <1>1, <1>4
       DEF RegistryNext, registryVars, DeleteVehicle, CreateVehicle, RefuseVehicle, NotReading,
           ChangeVehicle, Register, Archive, ChangeEntitlement, RegistryInv
  <2>2. v = w /\ fleet[w] \in Fuels
    BY <1>1, <1>4, <2>1 DEF ReadVehicle, Present, RegistryInv
  <2>3. QED BY <1>2, <2>2 DEF Fuels
<1>5. QED BY <1>3, <1>4

(* The report of a fleet says that it is within the plan exactly when      *)
(* every vehicle can have a slot of its own; it offers what a request      *)
(* would get; and no request adds to what is beyond the limits, also after *)
(* a smaller plan, deletions and changes of fuel that overlap.             *)
THEOREM LimitsKept == RegistrySpec => LimitsHold
<1>1. RegistryAssumption /\ RegistryInit => RegistryInv
  BY RegistryBegins
<1>2. RegistrySpec => []RegistryInv
  BY <1>1, RegistryAssumption, RegistryStep, PTL DEF RegistrySpec
<1>3. RegistrySpec => []SlotsSuffice
  BY <1>2, RegistryAssumption, SlotsFollow, PTL
<1>4. RegistrySpec => []ReportAgreesWithCheck
  BY <1>2, RegistryAssumption, ReportAgrees, PTL
<1>5. RegistrySpec => ExcessNeverGrows
  <2>1. RegistryInv /\ RegistryAssumption /\ [RegistryNext]_registryVars => [NoMoreExcess]_registryVars
    BY RegistryStep
  <2>2. RegistrySpec => [][NoMoreExcess]_registryVars
    BY <1>2, <2>1, RegistryAssumption, PTL DEF RegistrySpec
  <2>3. QED BY <2>2 DEF ExcessNeverGrows, NoMoreExcess
<1>6. QED BY <1>3, <1>4, <1>5, PTL DEF LimitsHold

-----------------------------------------------------------------------------
(* Intake: the orders of a source, its runs and batches, and the quota.    *)

(* The orders that got in this month from the source.                      *)
InMonth == {e \in Externals : order[e].version > 0 /\ order[e].month = month}

(* A correction that is kept is not what the source says.                  *)
OrdersHold ==
  /\ order \in [Externals -> Intaken]
  /\ \A e \in Externals : order[e].version > 0 => order[e].month <= month
  /\ \A e \in Externals : order[e].version = 0 => order[e].said = NoContent
  /\ \A e \in Externals : order[e].corrected # NoContent =>
       order[e].value = order[e].corrected /\ order[e].corrected # order[e].said

CountsHold ==
  /\ month \in 0..LastMonth /\ counted \in Nat /\ typed \in Nat
  /\ IsFiniteSet(InMonth)
  /\ counted = typed + Cardinality(InMonth) /\ counted <= Quota

(* A preview that names the version of the source has its columns; what it *)
(* says of an order holds as long as the order has the version it saw.     *)
PreviewHolds(r) ==
  /\ run[r].version <= source.version
  /\ run[r].status = "preview_ready" /\ run[r].rows # NoContent =>
       /\ run[r].version = source.version => run[r].mapping = source.mapping
       /\ \A e \in Externals :
            IF run[r].rows[e] = NoContent THEN run[r].report[e] = "none"
            ELSE /\ run[r].expected[e] <= order[e].version
                 /\ run[r].expected[e] = order[e].version =>
                      run[r].report[e] = ActionOf(e, run[r].rows[e])

RunsHold == run \in [Runs -> Run] /\ \A r \in Runs : PreviewHolds(r)

(* Receipts are forgotten with the source only, which takes no batch then. *)
ReceiptsHold ==
  /\ receipt \in [Batches -> Receipt]
  /\ \A b \in Batches :
       /\ receipt[b].times <= 1
       /\ receipt[b].status = "none" /\ source.status # "deleted" => receipt[b].times = 0

IntakeInv == source \in Source /\ OrdersHold /\ CountsHold /\ RunsHold /\ ReceiptsHold

(* The invariant implies what the sources were promised.                   *)
LEMMA IntakeSound == IntakeInv => IntakeIsSound
BY DEF IntakeInv, IntakeIsSound, OrdersHold, CorrectionsSurvive, CountsHold, QuotaCountsOrders,
       InMonth, ReceiptsHold, BatchesApplyOnce

(* What a step may do to the orders: one that changes has a newer version. *)
OrdersGrow == \A e \in Externals : order'[e] = order[e] \/ order'[e].version > order[e].version

(* An order that was never taken in is new.                                *)
LEMMA ActionIs ==
  ASSUME NEW e \in Externals, NEW content, order[e].version \in Nat, content # NoContent,
         order[e].version = 0 => order[e].said = NoContent
  PROVE  /\ ActionOf(e, content) \in Actions
         /\ ActionOf(e, content) = "new" <=> order[e].version = 0
         /\ ActionOf(e, content) # "none"
<1>1. CASE order[e].version = 0
  BY <1>1 DEF ActionOf, Actions
<1>2. CASE order[e].version # 0 /\ order[e].said = content
  BY <1>2 DEF ActionOf, Actions
<1>3. CASE order[e].version # 0 /\ order[e].said # content /\ ~order[e].free
  BY <1>3 DEF ActionOf, Actions
<1>4. CASE order[e].version # 0 /\ order[e].said # content /\ order[e].free
  BY <1>4 DEF ActionOf, Actions
<1>5. QED BY <1>1, <1>2, <1>3, <1>4

(* A preview names an action for each order of the document.               *)
LEMMA ReportIs ==
  ASSUME OrdersHold, NEW rows, IntakeAssumption
  PROVE  /\ Report(rows) \in [Externals -> Actions]
         /\ \A e \in Externals :
              /\ Report(rows)[e] = IF rows[e] = NoContent THEN "none" ELSE ActionOf(e, rows[e])
              /\ Report(rows)[e] = "new" => rows[e] # NoContent /\ order[e].version = 0
              /\ Report(rows)[e] = "updated" => rows[e] # NoContent /\ order[e].version > 0
<1>1. \A e \in Externals :
        order[e].version \in Nat /\ (order[e].version = 0 => order[e].said = NoContent)
  BY DEF OrdersHold, Intaken, IntakeAssumption
<1>2. \A e \in Externals :
        Report(rows)[e] = IF rows[e] = NoContent THEN "none" ELSE ActionOf(e, rows[e])
  BY DEF Report
<1>3. ASSUME NEW e \in Externals, rows[e] # NoContent
      PROVE  /\ ActionOf(e, rows[e]) \in Actions
             /\ ActionOf(e, rows[e]) = "new" <=> order[e].version = 0
             /\ ActionOf(e, rows[e]) # "none"
  <2> DEFINE content == rows[e]
  <2>1. content # NoContent
    BY <1>3
  <2>2. order[e].version \in Nat /\ (order[e].version = 0 => order[e].said = NoContent)
    BY <1>1
  <2> HIDE DEF content
  <2>3. /\ ActionOf(e, content) \in Actions
        /\ ActionOf(e, content) = "new" <=> order[e].version = 0
        /\ ActionOf(e, content) # "none"
    BY <2>1, <2>2, ActionIs
  <2>4. QED BY <2>3 DEF content
<1>4. \A e \in Externals : Report(rows)[e] \in Actions
  BY <1>2, <1>3 DEF Actions
<1>5. Report(rows) \in [Externals -> Actions]
  BY <1>4 DEF Report
<1>6. ASSUME NEW e \in Externals
      PROVE  /\ Report(rows)[e] = "new" => rows[e] # NoContent /\ order[e].version = 0
             /\ Report(rows)[e] = "updated" => rows[e] # NoContent /\ order[e].version > 0
  BY <1>1, <1>2, <1>3
<1>7. QED BY <1>2, <1>5, <1>6

(* Two versions of the same order: one merged, one acquired.               *)
LEMMA MergedIs ==
  ASSUME NEW o \in Intaken, NEW content \in Contents, o.version \in Nat, o.version < MaxTouched,
         IntakeAssumption,
         o.corrected # NoContent => o.value = o.corrected /\ o.corrected # o.said
  PROVE  /\ Merged(o, content) \in Intaken
         /\ Merged(o, content).version = o.version + 1
         /\ Merged(o, content).month = o.month
         /\ Merged(o, content).corrected # NoContent =>
              /\ Merged(o, content).value = Merged(o, content).corrected
              /\ Merged(o, content).corrected # Merged(o, content).said
<1> DEFINE value == IF o.value = o.said THEN content ELSE o.value
           corrected == IF o.corrected = content THEN NoContent ELSE o.corrected
<1>1. /\ value \in Contents \cup {NoContent} /\ corrected \in Contents \cup {NoContent}
      /\ content \in Contents \cup {NoContent} /\ o.version + 1 \in 0..MaxTouched
  BY DEF Intaken, IntakeAssumption
<1>2. Merged(o, content) =
        [o EXCEPT !.value = value, !.said = content, !.version = o.version + 1, !.corrected = corrected]
  BY DEF Merged
<1>3. corrected # NoContent => value = corrected /\ corrected # content
  OBVIOUS
<1> HIDE DEF value, corrected
<1>4. /\ Merged(o, content) \in Intaken
      /\ Merged(o, content).version = o.version + 1 /\ Merged(o, content).month = o.month
      /\ Merged(o, content).value = value /\ Merged(o, content).said = content
      /\ Merged(o, content).corrected = corrected
  BY <1>1, <1>2 DEF Intaken
<1>5. QED BY <1>3, <1>4

(* An order that is taken in has its first version and its month.          *)
LEMMA AcquiredIs ==
  ASSUME NEW content \in Contents, IntakeAssumption, month \in 0..LastMonth
  PROVE  /\ Acquired(content) \in Intaken
         /\ Acquired(content).version = 1 /\ Acquired(content).month = month
         /\ Acquired(content).corrected = NoContent
<1>1. NotTaken \in Intaken /\ NotTaken.corrected = NoContent
  BY DEF NotTaken, Intaken, IntakeAssumption
<1>2. 1 \in 0..MaxTouched
  BY DEF IntakeAssumption
<1>3. Acquired(content) \in Intaken
  BY <1>1, <1>2 DEF Acquired, Intaken
<1>4. QED BY <1>1, <1>3 DEF Acquired, NotTaken

(* An order that is written keeps what it got in with; the month of one    *)
(* that got in does not change.                                            *)
LEMMA OrderWritten ==
  ASSUME OrdersHold, CountsHold, IntakeAssumption, NEW e \in Externals, NEW o \in Intaken,
         order[e].version > 0, o.version > order[e].version, o.month = order[e].month,
         o.corrected # NoContent => o.value = o.corrected /\ o.corrected # o.said,
         order' = [order EXCEPT ![e] = o],
         month' = month, counted' = counted, typed' = typed
  PROVE  OrdersHold' /\ CountsHold' /\ OrdersGrow
<1>1. /\ order' \in [Externals -> Intaken] /\ order'[e] = o
      /\ \A d \in Externals \ {e} : order'[d] = order[d]
  BY DEF OrdersHold
<1>2. \A d \in Externals : order[d].version \in Nat
  BY DEF OrdersHold, Intaken, IntakeAssumption
<1>3. o.version \in Nat /\ o.version > 0
  BY <1>2 DEF Intaken, IntakeAssumption
<1>4. OrdersHold'
  BY <1>1, <1>3 DEF OrdersHold
<1>5. InMonth' = InMonth
  BY <1>1, <1>3 DEF InMonth
<1>6. CountsHold'
  BY <1>5 DEF CountsHold
<1>7. OrdersGrow
  BY <1>1 DEF OrdersGrow
<1>8. QED BY <1>4, <1>6, <1>7

(* The orders and their counts only depend on themselves.                  *)
LEMMA OrdersAlone ==
  ASSUME OrdersHold, CountsHold,
         UNCHANGED <<order, month, counted, typed>>
  PROVE  OrdersHold' /\ CountsHold' /\ OrdersGrow
BY DEF OrdersHold, CountsHold, InMonth, OrdersGrow

(* A document that is executed: every new order is counted, once; a        *)
(* correction survives; nothing is written when it fails.                  *)
LEMMA ExecuteStep ==
  ASSUME OrdersHold, CountsHold, IntakeAssumption,
         NEW rows \in [Externals -> Contents \cup {NoContent}],
         IsFiniteSet({e \in Externals : rows[e] # NoContent}),
         NEW breaks,
         breaks \/ ~Valid(Report(rows)) \/ WithinQuota(New(Report(rows))),
         Execute(rows, Report(rows), breaks),
         month' = month, typed' = typed
  PROVE  OrdersHold' /\ CountsHold' /\ OrdersGrow
<1>1. CASE breaks \/ ~Valid(Report(rows))
  <2>1. UNCHANGED <<order, counted>>
    BY <1>1 DEF Execute
  <2>2. QED BY <2>1, OrdersAlone
<1>2. CASE ~(breaks \/ ~Valid(Report(rows)))
  <2> DEFINE report == Report(rows)
             came == {e \in Externals : report[e] = "new"}
  <2>1. /\ \A e \in Externals : report[e] = "updated" => order[e].version < MaxTouched
        /\ order' = Applied(rows, report)
        /\ counted' = counted + New(report)
        /\ WithinQuota(New(report))
    BY <1>2 DEF Execute
  <2>2. \A e \in Externals :
          /\ report[e] = "new" => rows[e] # NoContent /\ order[e].version = 0
          /\ report[e] = "updated" => rows[e] # NoContent /\ order[e].version > 0
    BY ReportIs
  <2>3. IsFiniteSet(came) /\ Cardinality(came) \in Nat /\ New(report) = Cardinality(came)
    <3>1. came \in SUBSET {e \in Externals : rows[e] # NoContent}
      BY <2>2
    <3>2. IsFiniteSet(came)
      BY <3>1, FS_Subset
    <3>3. QED BY <3>2, FS_CardinalityType DEF New
  <2> HIDE DEF report
  <2>4. ASSUME NEW e \in Externals
        PROVE  \/ e \in came /\ order'[e] = Acquired(rows[e])
               \/ report[e] = "updated" /\ order'[e] = Merged(order[e], rows[e])
               \/ report[e] \notin {"new", "updated"} /\ order'[e] = order[e]
    BY <2>1, <2>4 DEF Applied
  <2>5. DOMAIN order' = Externals /\ order' = [e \in Externals |-> order'[e]]
    BY <2>1 DEF Applied
  <2>6. \A e \in Externals : /\ order[e] \in Intaken /\ order[e].version \in Nat
                             /\ order[e].month \in 0..LastMonth
    BY DEF OrdersHold, Intaken, IntakeAssumption
  <2>7. month \in 0..LastMonth /\ month <= month /\ counted \in Nat /\ typed \in Nat
    BY DEF CountsHold, IntakeAssumption
  <2>8. ASSUME NEW e \in Externals
        PROVE  /\ order'[e] \in Intaken
               /\ order'[e].version > 0 => order'[e].month <= month
               /\ order'[e].version = 0 => order'[e].said = NoContent
               /\ order'[e].corrected # NoContent =>
                    order'[e].value = order'[e].corrected /\ order'[e].corrected # order'[e].said
               /\ order'[e] = order[e] \/ order'[e].version > order[e].version
               /\ (order'[e].version > 0 /\ order'[e].month = month) <=>
                    e \in came \/ (order[e].version > 0 /\ order[e].month = month)
    <3>1. CASE e \in came /\ order'[e] = Acquired(rows[e])
      <4>1. rows[e] \in Contents /\ order[e].version = 0
        BY <2>2, <3>1
      <4>2. /\ Acquired(rows[e]) \in Intaken
            /\ Acquired(rows[e]).version = 1 /\ Acquired(rows[e]).month = month
            /\ Acquired(rows[e]).corrected = NoContent
        BY <2>7, <4>1, AcquiredIs
      <4>3. QED BY <2>7, <3>1, <4>1, <4>2
    <3>2. CASE report[e] = "updated" /\ order'[e] = Merged(order[e], rows[e])
      <4> DEFINE o == order[e]
                 content == rows[e]
                 m == Merged(o, content)
      <4>1. /\ content \in Contents /\ o.version > 0 /\ o.version < MaxTouched
            /\ o \in Intaken /\ o.version \in Nat
            /\ o.corrected # NoContent => o.value = o.corrected /\ o.corrected # o.said
        BY <2>1, <2>2, <2>6, <3>2 DEF OrdersHold
      <4>2. o.month <= month /\ e \notin came
        BY <2>8, <3>2, <4>1 DEF OrdersHold
      <4> HIDE DEF o, content
      <4>3. /\ m \in Intaken /\ m.version = o.version + 1 /\ m.month = o.month
            /\ m.corrected # NoContent => m.value = m.corrected /\ m.corrected # m.said
        BY <4>1, MergedIs
      <4> HIDE DEF m
      <4>4. order'[e] = m
        BY <3>2 DEF m, o, content
      <4>5. QED BY <4>1, <4>2, <4>3, <4>4 DEF o
    <3>3. CASE report[e] \notin {"new", "updated"} /\ order'[e] = order[e]
      BY <2>6, <3>3 DEF OrdersHold
    <3>4. QED BY <2>4, <3>1, <3>2, <3>3
  <2>9. order' \in [Externals -> Intaken]
    BY <2>5, <2>8
  <2>10. OrdersHold'
    BY <2>8, <2>9 DEF OrdersHold
  <2>11. OrdersGrow
    BY <2>8 DEF OrdersGrow
  <2>12. CountsHold'
    <3>1. InMonth' = InMonth \cup came
      BY <2>8 DEF InMonth
    <3>2. InMonth \cap came = {}
      BY <2>2 DEF InMonth, report
    <3>3. IsFiniteSet(InMonth) /\ Cardinality(InMonth) \in Nat
      BY FS_CardinalityType DEF CountsHold
    <3> HIDE DEF came
    <3>4. /\ IsFiniteSet(InMonth \cup came)
          /\ Cardinality(InMonth \cup came) =
               Cardinality(InMonth) + Cardinality(came) - Cardinality(InMonth \cap came)
      BY <2>3, <3>3, FS_Union
    <3>5. Cardinality(InMonth \cap came) = 0
      BY <3>2, FS_EmptySet
    <3>6. Cardinality(InMonth') = Cardinality(InMonth) + Cardinality(came)
      BY <2>3, <3>1, <3>3, <3>4, <3>5
    <3>7. counted + Cardinality(came) <= Quota
      BY <2>1, <2>3 DEF WithinQuota, CountsHold
    <3>8. counted = typed + Cardinality(InMonth) /\ counted' = counted + Cardinality(came)
      BY <2>1, <2>3 DEF CountsHold
    <3>9. IsFiniteSet(InMonth')
      BY <3>1, <3>4
    <3>10. counted' \in Nat /\ counted' = typed + Cardinality(InMonth') /\ counted' <= Quota
      BY <2>3, <2>7, <3>3, <3>6, <3>7, <3>8
    <3>11. QED BY <2>7, <3>9, <3>10 DEF CountsHold
  <2>13. QED BY <2>10, <2>11, <2>12
<1>3. QED BY <1>1, <1>2

(* Whoever changes the columns or the state of a source makes a version of *)
(* it, and a source that is deleted stays so.                              *)
SourceGrows ==
  /\ \/ source'.version > source.version
     \/ source'.version = source.version /\ source'.mapping = source.mapping
  /\ source'.status = "deleted" \/ source.status # "deleted"

(* A source that stays has grown.                                          *)
LEMMA SourceAlone == IntakeAssumption /\ source \in Source /\ source' = source => source' \in Source /\ SourceGrows
BY DEF SourceGrows

(* A receipt holds while its source only grows.                            *)
LEMMA ReceiptsAlone ==
  ReceiptsHold /\ SourceGrows /\ receipt' = receipt => ReceiptsHold'
BY DEF ReceiptsHold, SourceGrows

(* A run that a step leaves alone: its preview is still what it says, or   *)
(* it names versions that have passed.                                     *)
LEMMA PreviewAlone ==
  ASSUME IntakeAssumption, source \in Source, source' \in Source, OrdersHold, OrdersHold', RunsHold,
         OrdersGrow, SourceGrows, NEW r \in Runs, run'[r] = run[r]
  PROVE  PreviewHolds(r)'
<1>1. /\ run[r] \in Run /\ PreviewHolds(r)
      /\ run[r].version \in Nat /\ source.version \in Nat /\ source'.version \in Nat
  BY DEF RunsHold, Run, Source, IntakeAssumption
<1>2. run[r].version <= source'.version
  BY <1>1 DEF PreviewHolds, SourceGrows
<1>3. ASSUME run[r].status = "preview_ready", run[r].rows # NoContent,
             run[r].version = source'.version
      PROVE  run[r].mapping = source'.mapping
  BY <1>1, <1>3 DEF PreviewHolds, SourceGrows
<1>4. ASSUME run[r].status = "preview_ready", run[r].rows # NoContent, NEW e \in Externals
      PROVE  IF run[r].rows[e] = NoContent THEN run[r].report[e] = "none"
             ELSE /\ run[r].expected[e] <= order'[e].version
                  /\ run[r].expected[e] = order'[e].version =>
                       run[r].report[e] = ActionOf(e, run[r].rows[e])'
  <2>1. CASE run[r].rows[e] = NoContent
    BY <1>1, <1>4, <2>1 DEF PreviewHolds
  <2>2. CASE run[r].rows[e] # NoContent
    <3>1. /\ run[r].expected[e] <= order[e].version
          /\ run[r].expected[e] = order[e].version => run[r].report[e] = ActionOf(e, run[r].rows[e])
      BY <1>1, <1>4, <2>2 DEF PreviewHolds
    <3>2. /\ run[r].expected[e] \in Nat /\ order[e].version \in Nat /\ order'[e].version \in Nat
      BY <1>1 DEF Run, OrdersHold, Intaken, IntakeAssumption
    <3>3. CASE order'[e] = order[e]
      <4>1. ActionOf(e, run[r].rows[e])' = ActionOf(e, run[r].rows[e])
        BY <3>3 DEF ActionOf
      <4>2. QED BY <2>2, <3>1, <3>3, <4>1
    <3>4. CASE order'[e].version > order[e].version
      BY <2>2, <3>1, <3>2, <3>4
    <3>5. QED BY <3>3, <3>4 DEF OrdersGrow
  <2>3. QED BY <2>1, <2>2
<1>5. QED BY <1>2, <1>3, <1>4 DEF PreviewHolds

(* A run holds while its orders and its source only grow.                  *)
LEMMA RunsAlone ==
  ASSUME IntakeAssumption, source \in Source, source' \in Source, OrdersHold, OrdersHold', RunsHold,
         OrdersGrow, SourceGrows, run' = run
  PROVE  RunsHold'
BY PreviewAlone DEF RunsHold

(* One run is written.                                                     *)
LEMMA RunWritten ==
  ASSUME IntakeAssumption, source \in Source, source' \in Source, OrdersHold, OrdersHold', RunsHold,
         OrdersGrow, SourceGrows, NEW r \in Runs,
         run' \in [Runs -> Run], \A q \in Runs \ {r} : run'[q] = run[q], PreviewHolds(r)'
  PROVE  RunsHold'
BY PreviewAlone DEF RunsHold

(* The changes of a source that leave its runs to themselves.              *)
LEMMA SourceStep ==
  ASSUME IntakeInv, IntakeAssumption,
         \/ Configure \/ ResumeSource \/ PauseSource \/ RotateKey
         \/ \E status \in {"removed", "paused"} : CutSource(status)
  PROVE  IntakeInv' /\ run' = run
<1>1. /\ source \in Source /\ source.version \in Nat /\ source.mapping \in Nat /\ MaxSettings \in Nat
  BY DEF IntakeInv, Source, IntakeAssumption
<1>2. /\ source' \in Source /\ source'.version > source.version
      /\ source.status # "deleted"
  <2>1. CASE Configure
    <3>1. source.version + 1 \in 0..MaxSettings + 1 /\ source.mapping + 1 \in 0..MaxSettings
      BY <1>1, <2>1 DEF Configure
    <3>2. source' = [source EXCEPT !.status = "draft", !.validated = FALSE,
                       !.mapping = source.mapping + 1, !.version = source.version + 1]
      BY <2>1 DEF Configure
    <3>3. source' \in Source /\ source'.version = source.version + 1
      BY <1>1, <3>1, <3>2 DEF Source
    <3>4. QED BY <1>1, <2>1, <3>3 DEF Configure
  <2>2. ASSUME NEW status \in {"active", "paused"}, Settings(status)
        PROVE  /\ source' \in Source /\ source'.version > source.version
               /\ source.status # "deleted"
    <3>1. source.version + 1 \in 0..MaxSettings + 1
      BY <1>1, <2>2 DEF Settings
    <3>2. source' = [source EXCEPT !.status = status, !.version = source.version + 1]
      BY <2>2 DEF Settings
    <3>3. source' \in Source /\ source'.version = source.version + 1
      BY <1>1, <3>1, <3>2 DEF Source
    <3>4. QED BY <1>1, <2>2, <3>3 DEF Settings
  <2>3. CASE RotateKey
    <3>1. source.version + 1 \in 0..MaxSettings + 1
      BY <1>1, <2>3 DEF RotateKey
    <3>2. source' = [source EXCEPT !.key = TRUE, !.version = source.version + 1]
      BY <2>3 DEF RotateKey
    <3>3. source' \in Source /\ source'.version = source.version + 1
      BY <1>1, <3>1, <3>2 DEF Source
    <3>4. QED BY <1>1, <2>3, <3>3 DEF RotateKey
  <2>4. ASSUME NEW status \in {"removed", "paused"}, CutSource(status)
        PROVE  /\ source' \in Source /\ source'.version > source.version
               /\ source.status # "deleted"
    <3>1. source.version + 1 \in 0..MaxSettings + 1
      BY <1>1, <2>4 DEF CutSource
    <3>2. source' = [source EXCEPT !.status = status, !.key = FALSE, !.version = source.version + 1]
      BY <2>4 DEF CutSource
    <3>3. source' \in Source /\ source'.version = source.version + 1
      BY <1>1, <3>1, <3>2 DEF Source
    <3>4. QED BY <1>1, <2>4, <3>3 DEF CutSource
  <2>5. QED BY <2>1, <2>2, <2>3, <2>4 DEF ResumeSource, PauseSource
<1>3. SourceGrows
  BY <1>2 DEF SourceGrows
<1>4. UNCHANGED <<order, run, receipt, month, counted, typed>>
  BY DEF Configure, ResumeSource, PauseSource, RotateKey, CutSource
<1>5. OrdersHold' /\ CountsHold' /\ OrdersGrow
  BY <1>4, OrdersAlone DEF IntakeInv
<1>6. RunsHold'
  BY <1>1, <1>2, <1>3, <1>4, <1>5, RunsAlone DEF IntakeInv
<1>7. QED BY <1>2, <1>3, <1>4, <1>5, <1>6, ReceiptsAlone DEF IntakeInv

(* When a source is deleted its runs go with it.                           *)
LEMMA DeleteSourceStep ==
  ASSUME IntakeInv, IntakeAssumption, DeleteSource
  PROVE  IntakeInv' /\ \A r \in Runs : run'[r].status # "completed"
<1>1. /\ source \in Source /\ source.version \in Nat
  BY DEF IntakeInv, Source, IntakeAssumption
<1>2. /\ source' \in Source /\ source'.status = "deleted" /\ source'.version = source.version
      /\ source'.mapping = source.mapping
  BY <1>1 DEF DeleteSource, Source
<1>3. NotRun \in Run /\ NotRun.status = "none" /\ NotRun.version = 0
  BY DEF NotRun, Run, Actions, IntakeAssumption
<1>4. \A r \in Runs : run'[r] = NotRun
  BY DEF DeleteSource
<1>5. RunsHold'
  BY <1>1, <1>2, <1>3, <1>4 DEF DeleteSource, RunsHold, PreviewHolds
<1>6. ReceiptsHold'
  <2>1. \A b \in Batches : /\ receipt'[b] = [receipt[b] EXCEPT !.status = "none"]
                           /\ receipt[b] \in Receipt /\ receipt[b].times <= 1
    BY DEF DeleteSource, IntakeInv, ReceiptsHold
  <2>2. \A b \in Batches : receipt'[b] \in Receipt /\ receipt'[b].times <= 1
    BY <2>1 DEF Receipt
  <2>3. receipt' \in [Batches -> Receipt]
    BY <2>2 DEF DeleteSource
  <2>4. QED BY <1>2, <2>2, <2>3 DEF ReceiptsHold
<1>7. OrdersHold' /\ CountsHold'
  BY OrdersAlone DEF IntakeInv, DeleteSource
<1>8. QED BY <1>2, <1>3, <1>4, <1>5, <1>6, <1>7 DEF IntakeInv

(* A run that is completed did what its preview said.                      *)
Imported == \A r \in Runs : run[r].status # "completed" /\ run'[r].status = "completed" =>
              /\ run[r].report = Report(run[r].rows)
              /\ run[r].mapping = source.mapping

(* A run is staged, previewed or expires.                                  *)
LEMMA RunStep ==
  ASSUME IntakeInv, IntakeAssumption, NEW r \in Runs,
         \/ \E rows \in Documents : Upload(r, rows)
         \/ PreviewRun(r) \/ RunExpires(r)
  PROVE  IntakeInv' /\ Imported
<1>1. /\ source \in Source /\ source.version \in 0..MaxSettings + 1 /\ source.version \in Nat
      /\ source.mapping \in 0..MaxSettings
      /\ OrdersHold /\ CountsHold /\ RunsHold /\ ReceiptsHold
      /\ run \in [Runs -> Run] /\ run[r] \in Run /\ PreviewHolds(r)
  BY DEF IntakeInv, RunsHold, Source, IntakeAssumption
<1>2. UNCHANGED <<source, order, receipt, month, counted, typed>>
  BY DEF Upload, PreviewRun, RunExpires
<1>3. OrdersHold' /\ CountsHold' /\ OrdersGrow
  BY <1>1, <1>2, OrdersAlone
<1>4. source' \in Source /\ SourceGrows /\ ReceiptsHold'
  BY <1>1, <1>2, SourceAlone, ReceiptsAlone
<1>5. ASSUME NEW x \in Run, run' = [run EXCEPT ![r] = x]
      PROVE  run' \in [Runs -> Run] /\ run'[r] = x /\ \A q \in Runs \ {r} : run'[q] = run[q]
  BY <1>1, <1>5
<1>6. ASSUME run' \in [Runs -> Run], \A q \in Runs \ {r} : run'[q] = run[q],
             PreviewHolds(r)', run'[r].status = "completed" => run[r].status = "completed"
      PROVE  IntakeInv' /\ Imported
  <2>1. RunsHold'
    BY <1>1, <1>3, <1>4, <1>6, RunWritten
  <2>2. QED BY <1>2, <1>3, <1>4, <1>6, <2>1 DEF IntakeInv, Imported
<1>7. ASSUME NEW rows \in Documents, Upload(r, rows) PROVE IntakeInv' /\ Imported
  <2> DEFINE x == [NotRun EXCEPT !.status = "uploaded", !.rows = rows, !.version = source.version]
  <2>1. NotRun \in Run
    BY DEF NotRun, Run, Actions, IntakeAssumption
  <2>2. x \in Run /\ x.status = "uploaded" /\ x.version = source.version
    BY <1>1, <2>1 DEF Run, NotRun
  <2>3. run' = [run EXCEPT ![r] = x]
    BY <1>7 DEF Upload
  <2> HIDE DEF x
  <2>4. run'[r] = x
    BY <1>5, <2>2, <2>3
  <2>5. source'.version = source.version /\ source.version <= source.version
    BY <1>1, <1>2
  <2>6. PreviewHolds(r)'
    BY <2>2, <2>4, <2>5 DEF PreviewHolds
  <2>7. QED BY <1>5, <1>6, <2>2, <2>3, <2>4, <2>6
<1>8. CASE RunExpires(r)
  <2> DEFINE x == [run[r] EXCEPT !.rows = NoContent]
  <2>1. x \in Run /\ x.rows = NoContent /\ x.version = run[r].version /\ x.status = run[r].status
    BY <1>1 DEF Run
  <2>2. run' = [run EXCEPT ![r] = x]
    BY <1>8 DEF RunExpires
  <2> HIDE DEF x
  <2>3. run'[r] = x
    BY <1>5, <2>1, <2>2
  <2>4. PreviewHolds(r)'
    BY <1>1, <1>2, <2>1, <2>3 DEF PreviewHolds
  <2>5. QED BY <1>5, <1>6, <2>1, <2>2, <2>3, <2>4
<1>9. CASE PreviewRun(r)
  <2> DEFINE rows == run[r].rows
             report == Report(rows)
             status == IF Valid(report) THEN "preview_ready" ELSE "preview_invalid"
  <2>1. /\ report \in [Externals -> Actions]
        /\ \A e \in Externals : report[e] = IF rows[e] = NoContent THEN "none" ELSE ActionOf(e, rows[e])
    BY <1>1, ReportIs
  <2>2. /\ Versions \in [Externals -> 0..MaxTouched]
        /\ \A e \in Externals : Versions[e] = order[e].version /\ order[e].version <= order[e].version
    BY <1>1 DEF Versions, OrdersHold, Intaken, IntakeAssumption
  <2>3. status \in {"preview_ready", "preview_invalid"}
    OBVIOUS
  <2>4. run' = [run EXCEPT ![r].report = report, ![r].expected = Versions, ![r].version = source.version,
                           ![r].mapping = source.mapping, ![r].status = status]
    BY <1>9 DEF PreviewRun
  <2> HIDE DEF report, status
  <2>5. /\ run' \in [Runs -> Run] /\ \A q \in Runs \ {r} : run'[q] = run[q]
        /\ run'[r].report = report /\ run'[r].expected = Versions /\ run'[r].version = source.version
        /\ run'[r].mapping = source.mapping /\ run'[r].status = status /\ run'[r].rows = rows
    BY <1>1, <2>1, <2>2, <2>3, <2>4 DEF Run
  <2>6. PreviewHolds(r)'
    <3>1. \A e \in Externals : ActionOf(e, run[r].rows[e])' = ActionOf(e, run[r].rows[e])
      <4>1. run'[r].rows = run[r].rows
        BY <2>5
      <4>2. QED BY <1>2, <4>1 DEF ActionOf
    <3>2. source'.version = source.version /\ source.version <= source.version
          /\ source'.mapping = source.mapping
      BY <1>1, <1>2
    <3>3. \A e \in Externals : order'[e] = order[e]
      BY <1>2
    <3>4. ASSUME NEW e \in Externals
          PROVE  IF rows[e] = NoContent THEN report[e] = "none"
                 ELSE /\ Versions[e] <= order'[e].version
                      /\ Versions[e] = order'[e].version => report[e] = ActionOf(e, rows[e])
      BY <2>1, <2>2, <3>3
    <3>5. QED BY <2>5, <3>1, <3>2, <3>4 DEF PreviewHolds
  <2>7. run'[r].status # "completed"
    BY <2>3, <2>5
  <2>8. QED BY <1>6, <2>5, <2>6, <2>7
<1>10. QED BY <1>7, <1>8, <1>9

(* The source is activated with the preview of a run, which moves on with  *)
(* the version of the source.                                              *)
LEMMA ActivateStep ==
  ASSUME IntakeInv, IntakeAssumption, NEW r \in Runs, ActivateSource(r)
  PROVE  IntakeInv' /\ Imported
<1>1. /\ source \in Source /\ source.version \in Nat
      /\ OrdersHold /\ CountsHold /\ RunsHold /\ ReceiptsHold
      /\ run \in [Runs -> Run] /\ run[r] \in Run /\ PreviewHolds(r)
  BY DEF IntakeInv, RunsHold, Source, IntakeAssumption
<1>2. UNCHANGED <<order, receipt, month, counted, typed>>
  BY DEF ActivateSource
<1>3. OrdersHold' /\ CountsHold' /\ OrdersGrow
  BY <1>1, <1>2, OrdersAlone
<1>4. /\ source.version + 1 \in 0..MaxSettings + 1
      /\ source.status # "deleted" /\ run[r].status = "preview_ready" /\ run[r].rows # NoContent
      /\ run[r].version = source.version
      /\ source' = [source EXCEPT !.status = "active", !.validated = TRUE, !.version = source.version + 1]
      /\ run' = [run EXCEPT ![r].version = source.version + 1]
  BY <1>1 DEF ActivateSource, IntakeAssumption
<1>5. /\ source' \in Source /\ source'.version = source.version + 1 /\ source'.mapping = source.mapping
  BY <1>1, <1>4 DEF Source
<1>6. SourceGrows
  BY <1>1, <1>4, <1>5 DEF SourceGrows
<1>7. /\ run' \in [Runs -> Run] /\ \A q \in Runs \ {r} : run'[q] = run[q]
      /\ run'[r].version = source.version + 1 /\ run'[r].mapping = run[r].mapping
      /\ run'[r].status = run[r].status /\ run'[r].rows = run[r].rows
      /\ run'[r].report = run[r].report /\ run'[r].expected = run[r].expected
  BY <1>1, <1>4 DEF Run
<1>8. PreviewHolds(r)'
  <2>1. \A e \in Externals : ActionOf(e, run[r].rows[e])' = ActionOf(e, run[r].rows[e])
    BY <1>2, <1>7 DEF ActionOf
  <2>2. /\ run'[r].version <= source'.version
        /\ run[r].mapping = source.mapping
        /\ order' = order
    BY <1>1, <1>2, <1>4, <1>5, <1>7 DEF PreviewHolds
  <2>3. QED BY <1>1, <1>4, <1>5, <1>7, <2>1, <2>2 DEF PreviewHolds
<1>9. RunsHold'
  BY <1>1, <1>3, <1>5, <1>6, <1>7, <1>8, RunWritten
<1>10. ReceiptsHold'
  BY <1>1, <1>2, <1>6, ReceiptsAlone
<1>11. Imported
  BY <1>4, <1>7 DEF Imported
<1>12. QED BY <1>3, <1>5, <1>9, <1>10, <1>11 DEF IntakeInv

(* A file is imported: with the orders as they were when it was previewed, *)
(* the report of now is that of the preview.                               *)
LEMMA ConfirmStep ==
  ASSUME IntakeInv, IntakeAssumption, NEW r \in Runs, NEW breaks \in BOOLEAN, ConfirmRun(r, breaks)
  PROVE  IntakeInv' /\ Imported /\ OrdersGrow
<1> DEFINE rows == run[r].rows
           report == Report(rows)
           fails == breaks \/ ~StillAsPreviewed(r)
           kept == IF Ended(report, fails) = "completed" THEN NoContent ELSE rows
<1>1. /\ source \in Source /\ source.version \in Nat
      /\ OrdersHold /\ CountsHold /\ RunsHold /\ ReceiptsHold
      /\ run \in [Runs -> Run] /\ run[r] \in Run /\ PreviewHolds(r)
  BY DEF IntakeInv, RunsHold, Source, IntakeAssumption
<1>2. /\ rows # NoContent /\ run[r].status = "preview_ready" /\ run[r].version = source.version
      /\ fails \/ ~Valid(report) \/ WithinQuota(New(report))
      /\ Execute(rows, report, fails)
      /\ run' = [run EXCEPT ![r].status = Ended(report, fails), ![r].rows = kept]
      /\ UNCHANGED <<source, receipt, month, typed>>
  BY DEF ConfirmRun
<1>3. rows \in Documents
  BY <1>1, <1>2 DEF Run
<1>4. /\ rows \in [Externals -> Contents \cup {NoContent}]
      /\ IsFiniteSet({e \in Externals : rows[e] # NoContent})
  BY <1>3 DEF IntakeAssumption
<1>5. OrdersHold' /\ CountsHold' /\ OrdersGrow
  <2> HIDE DEF rows, fails
  <2>1. QED BY <1>1, <1>2, <1>4, ExecuteStep
<1>6. source' \in Source /\ SourceGrows /\ ReceiptsHold'
  BY <1>1, <1>2, SourceAlone, ReceiptsAlone
<1>7. Ended(report, fails) \in {"failed", "completed"} /\ kept \in Documents \cup {NoContent}
  BY <1>3 DEF Ended
<1>8. /\ run' \in [Runs -> Run] /\ \A q \in Runs \ {r} : run'[q] = run[q]
      /\ run'[r].version = run[r].version /\ run'[r].status = Ended(report, fails)
  <2> HIDE DEF report, fails, kept
  <2>1. QED BY <1>1, <1>2, <1>7 DEF Run
<1>9. PreviewHolds(r)'
  BY <1>1, <1>2, <1>7, <1>8 DEF PreviewHolds
<1>10. RunsHold'
  BY <1>1, <1>5, <1>6, <1>8, <1>9, RunWritten
<1>11. Imported
  <2>1. SUFFICES ASSUME Ended(report, fails) = "completed"
                 PROVE  run[r].report = report /\ run[r].mapping = source.mapping
    BY <1>8 DEF Imported
  <2>2. StillAsPreviewed(r)
    BY <2>1 DEF Ended
  <2>3. run[r].mapping = source.mapping
    BY <1>1, <1>2 DEF PreviewHolds
  <2>4. /\ report \in [Externals -> Actions]
        /\ \A e \in Externals : report[e] = IF rows[e] = NoContent THEN "none" ELSE ActionOf(e, rows[e])
    BY <1>1, ReportIs
  <2>5. run[r].report \in [Externals -> Actions]
    BY <1>1 DEF Run
  <2>6. ASSUME NEW e \in Externals PROVE run[r].report[e] = report[e]
    <3>1. CASE rows[e] = NoContent
      BY <1>1, <1>2, <2>4, <3>1 DEF PreviewHolds
    <3>2. CASE rows[e] # NoContent
      <4>1. run[r].expected[e] = order[e].version
        BY <2>2, <3>2 DEF StillAsPreviewed, Reported
      <4>2. QED BY <1>1, <1>2, <2>4, <3>2, <4>1 DEF PreviewHolds
    <3>3. QED BY <3>1, <3>2
  <2> HIDE DEF report
  <2>7. QED BY <2>3, <2>4, <2>5, <2>6
<1>12. QED BY <1>5, <1>6, <1>10, <1>11 DEF IntakeInv

(* A batch or an event is executed, and remembered.                        *)
LEMMA ReceivedStep ==
  ASSUME ReceiptsHold, NEW b \in Batches, NEW status \in {"failed", "completed"}, Fresh(b),
         Received(b, status), source' = source, source.status # "deleted"
  PROVE  ReceiptsHold'
<1>1. receipt[b] \in Receipt /\ receipt[b].times = 0
  BY DEF ReceiptsHold, Fresh
<1>2. receipt' = [receipt EXCEPT ![b] = [status |-> status, times |-> receipt[b].times + 1]]
  BY DEF Received
<1>3. [status |-> status, times |-> receipt[b].times + 1] \in Receipt
  BY <1>1 DEF Receipt
<1>4. /\ receipt' \in [Batches -> Receipt] /\ receipt'[b].status = status /\ receipt'[b].times = 1
      /\ \A c \in Batches \ {b} : receipt'[c] = receipt[c]
  BY <1>1, <1>2, <1>3 DEF ReceiptsHold
<1>5. QED BY <1>4 DEF ReceiptsHold

(* Every step of a sender keeps the invariant.                             *)
LEMMA SenderStep ==
  ASSUME IntakeInv, IntakeAssumption, NEW b \in Batches, NEW breaks \in BOOLEAN,
         \/ \E rows \in Documents : Acquire(b, rows, breaks)
         \/ \E e \in Externals, content \in Contents : Receive(b, e, content, breaks)
  PROVE  IntakeInv' /\ run' = run /\ OrdersGrow
<1>1. /\ source \in Source /\ OrdersHold /\ CountsHold /\ RunsHold /\ ReceiptsHold
  BY DEF IntakeInv
<1>2. /\ UNCHANGED <<source, run, month, typed>>
      /\ Fresh(b) /\ source.status = "active"
      /\ \E status \in {"failed", "completed"} : Received(b, status)
  BY DEF Acquire, Receive, Ended
<1>3. OrdersHold' /\ CountsHold' /\ OrdersGrow
  <2>1. ASSUME NEW rows \in Documents, Acquire(b, rows, breaks)
        PROVE  OrdersHold' /\ CountsHold' /\ OrdersGrow
    <3>1. /\ rows \in [Externals -> Contents \cup {NoContent}]
          /\ IsFiniteSet({e \in Externals : rows[e] # NoContent})
      BY <2>1 DEF IntakeAssumption
    <3>2. /\ breaks \/ ~Valid(Report(rows)) \/ WithinQuota(New(Report(rows)))
          /\ Execute(rows, Report(rows), breaks)
      BY <2>1 DEF Acquire
    <3>3. QED BY <1>1, <1>2, <3>1, <3>2, ExecuteStep
  <2>2. ASSUME NEW e \in Externals, NEW content \in Contents, Receive(b, e, content, breaks)
        PROVE  OrdersHold' /\ CountsHold' /\ OrdersGrow
    <3> DEFINE rows == [x \in Externals |-> IF x = e THEN content ELSE NoContent]
               fails == breaks \/ ~WithinQuota(New(Report(rows)))
    <3>1. rows \in [Externals -> Contents \cup {NoContent}]
      OBVIOUS
    <3>2. {x \in Externals : rows[x] # NoContent} \in SUBSET {e}
      OBVIOUS
    <3>3. Execute(rows, Report(rows), fails)
      BY <2>2 DEF Receive
    <3> HIDE DEF rows
    <3>4. IsFiniteSet({x \in Externals : rows[x] # NoContent})
      BY <3>2, FS_Singleton, FS_Subset
    <3>5. fails \/ ~Valid(Report(rows)) \/ WithinQuota(New(Report(rows)))
      OBVIOUS
    <3> HIDE DEF fails
    <3>6. QED BY <1>1, <1>2, <3>1, <3>3, <3>4, <3>5, ExecuteStep
  <2>3. QED BY <2>1, <2>2
<1>4. source' \in Source /\ SourceGrows
  BY <1>1, <1>2, SourceAlone
<1>5. RunsHold'
  BY <1>1, <1>2, <1>3, <1>4, RunsAlone
<1>6. ReceiptsHold'
  BY <1>1, <1>2, ReceivedStep
<1>7. QED BY <1>2, <1>3, <1>4, <1>5, <1>6 DEF IntakeInv

(* Every step of the desk does, and leaves the runs alone.                 *)
LEMMA DeskStep ==
  ASSUME IntakeInv, IntakeAssumption, DeskNext
  PROVE  IntakeInv' /\ run' = run /\ OrdersGrow
<1>1. /\ source \in Source /\ OrdersHold /\ CountsHold /\ RunsHold /\ ReceiptsHold
      /\ month \in Nat /\ counted \in Nat /\ typed \in Nat /\ LastMonth \in Nat
  BY DEF IntakeInv, CountsHold, IntakeAssumption
<1>2. UNCHANGED <<source, run, receipt>>
  BY DEF DeskNext, TypeOrder, NextMonth, PlanOrder, CorrectOrder
<1>3. OrdersHold' /\ CountsHold' /\ OrdersGrow
  <2>1. CASE TypeOrder
    <3>1. InMonth' = InMonth /\ OrdersHold' /\ OrdersGrow
      BY <1>1, <2>1 DEF TypeOrder, InMonth, OrdersHold, OrdersGrow
    <3>2. IsFiniteSet(InMonth) /\ Cardinality(InMonth) \in Nat
      BY <1>1, FS_CardinalityType DEF CountsHold
    <3>3. /\ counted' = counted + 1 /\ typed' = typed + 1 /\ counted + 1 <= Quota
          /\ counted = typed + Cardinality(InMonth) /\ month' = month /\ month \in 0..LastMonth
      BY <1>1, <2>1 DEF TypeOrder, WithinQuota, CountsHold
    <3>4. counted' \in Nat /\ typed' \in Nat /\ counted' = typed' + Cardinality(InMonth)
          /\ counted' <= Quota
      BY <1>1, <3>2, <3>3
    <3>5. QED BY <3>1, <3>2, <3>3, <3>4 DEF CountsHold
  <2>2. CASE NextMonth
    <3>1. /\ month' = month + 1 /\ counted' = 0 /\ typed' = 0 /\ order' = order
          /\ month + 1 \in 0..LastMonth
      BY <1>1, <2>2 DEF NextMonth
    <3>2. \A e \in Externals :
            /\ order[e].month \in Nat
            /\ order[e].version > 0 => order[e].month <= month
      BY <1>1 DEF OrdersHold, Intaken, IntakeAssumption
    <3>3. OrdersHold' /\ OrdersGrow
      BY <1>1, <3>1, <3>2 DEF OrdersHold, OrdersGrow
    <3>4. InMonth' = {}
      BY <1>1, <3>1, <3>2 DEF InMonth
    <3>5. IsFiniteSet(InMonth') /\ Cardinality(InMonth') = 0
      BY <3>4, FS_EmptySet
    <3>6. 0 <= Quota
      BY DEF IntakeAssumption
    <3>7. QED BY <3>1, <3>3, <3>5, <3>6 DEF CountsHold
  <2>3. ASSUME NEW e \in Externals, PlanOrder(e) PROVE OrdersHold' /\ CountsHold' /\ OrdersGrow
    <3> DEFINE o == [order[e] EXCEPT !.free = ~order[e].free, !.version = order[e].version + 1]
    <3>1. /\ order[e] \in Intaken /\ order[e].version \in Nat /\ order[e].version > 0
          /\ order[e].version + 1 \in 0..MaxTouched /\ (~order[e].free) \in BOOLEAN
          /\ order[e].corrected # NoContent =>
               order[e].value = order[e].corrected /\ order[e].corrected # order[e].said
      BY <1>1, <2>3 DEF PlanOrder, OrdersHold, Intaken, IntakeAssumption
    <3>2. order' = [order EXCEPT ![e] = o]
      BY <2>3 DEF PlanOrder
    <3>3. /\ o \in Intaken /\ o.version = order[e].version + 1 /\ o.month = order[e].month
          /\ o.corrected = order[e].corrected /\ o.value = order[e].value /\ o.said = order[e].said
      BY <3>1 DEF Intaken
    <3>4. month' = month /\ counted' = counted /\ typed' = typed
      BY <2>3 DEF PlanOrder
    <3> HIDE DEF o
    <3>5. o.version > order[e].version
      BY <3>1, <3>3
    <3>6. o.corrected # NoContent => o.value = o.corrected /\ o.corrected # o.said
      BY <3>1, <3>3
    <3>7. QED BY <1>1, <3>1, <3>2, <3>3, <3>4, <3>5, <3>6, OrderWritten
  <2>4. ASSUME NEW e \in Externals, NEW content \in Contents, CorrectOrder(e, content)
        PROVE  OrdersHold' /\ CountsHold' /\ OrdersGrow
    <3> DEFINE corrected == IF content = order[e].said THEN NoContent ELSE content
               o == [order[e] EXCEPT !.value = content, !.version = order[e].version + 1,
                                     !.corrected = corrected]
    <3>1. /\ order[e] \in Intaken /\ order[e].version \in Nat /\ order[e].version > 0
          /\ order[e].version + 1 \in 0..MaxTouched
          /\ content \in Contents \cup {NoContent} /\ corrected \in Contents \cup {NoContent}
          /\ corrected # NoContent => content = corrected /\ corrected # order[e].said
      BY <1>1, <2>4 DEF CorrectOrder, OrdersHold, Intaken, IntakeAssumption
    <3>2. order' = [order EXCEPT ![e] = o]
      BY <2>4 DEF CorrectOrder
    <3> HIDE DEF corrected
    <3>3. /\ o \in Intaken /\ o.version = order[e].version + 1 /\ o.month = order[e].month
          /\ o.corrected = corrected /\ o.value = content /\ o.said = order[e].said
      BY <3>1 DEF Intaken
    <3>4. month' = month /\ counted' = counted /\ typed' = typed
      BY <2>4 DEF CorrectOrder
    <3> HIDE DEF o
    <3>5. o.version > order[e].version
      BY <3>1, <3>3
    <3>6. o.corrected # NoContent => o.value = o.corrected /\ o.corrected # o.said
      BY <3>1, <3>3
    <3>7. QED BY <1>1, <3>1, <3>2, <3>3, <3>4, <3>5, <3>6, OrderWritten
  <2>5. QED BY <2>1, <2>2, <2>3, <2>4 DEF DeskNext
<1>4. source' \in Source /\ SourceGrows
  BY <1>1, <1>2, SourceAlone
<1>5. RunsHold' /\ ReceiptsHold'
  BY <1>1, <1>2, <1>3, <1>4, RunsAlone, ReceiptsAlone
<1>6. QED BY <1>2, <1>3, <1>4, <1>5 DEF IntakeInv

(* Every step does, and a run that completes has imported its document.    *)
LEMMA IntakeStep ==
  IntakeInv /\ IntakeAssumption /\ [IntakeNext]_intakeVars => IntakeInv' /\ Imported /\ OrdersGrow
<1>1. SUFFICES ASSUME IntakeInv, IntakeAssumption, [IntakeNext]_intakeVars
               PROVE IntakeInv' /\ Imported /\ OrdersGrow
  OBVIOUS
<1>2. /\ run' = run => Imported
      /\ order' = order => OrdersGrow
  BY DEF Imported, OrdersGrow
<1>3. CASE PageNext
  <2>1. CASE DeleteSource
    BY <1>1, <1>2, <2>1, DeleteSourceStep DEF DeleteSource, Imported
  <2>2. CASE \E r \in Runs, breaks \in BOOLEAN : ConfirmRun(r, breaks)
    BY <1>1, <2>2, ConfirmStep
  <2>3. CASE ~ \E r \in Runs, breaks \in BOOLEAN : ConfirmRun(r, breaks)
    <3>1. order' = order
      BY <1>3, <2>3
         DEF PageNext, Configure, ResumeSource, PauseSource, RotateKey, DeleteSource, CutSource,
             PreviewRun, ActivateSource, RunExpires, Upload
    <3>2. QED
      BY <1>1, <1>2, <1>3, <2>1, <2>3, <3>1, SourceStep, RunStep, ActivateStep DEF PageNext
  <2>4. QED BY <2>2, <2>3
<1>4. CASE SenderNext
  BY <1>1, <1>2, <1>4, SenderStep DEF SenderNext
<1>5. CASE DeskNext
  BY <1>1, <1>2, <1>5, DeskStep
<1>6. CASE UNCHANGED intakeVars
  <2>1. source' \in Source /\ SourceGrows /\ OrdersHold' /\ CountsHold' /\ OrdersGrow
    BY <1>1, <1>6, SourceAlone, OrdersAlone DEF intakeVars, IntakeInv
  <2>2. QED
    BY <1>1, <1>2, <1>6, <2>1, RunsAlone, ReceiptsAlone DEF intakeVars, IntakeInv
<1>7. QED BY <1>1, <1>3, <1>4, <1>5, <1>6 DEF IntakeNext

(* An order that never came in is as it was.                               *)
OrdersUntouched == \A e \in Externals : order[e].version = 0 => order[e] = NotTaken

LEMMA OrdersStay ==
  ASSUME IntakeInv, IntakeAssumption, OrdersUntouched, OrdersGrow, IntakeInv'
  PROVE  OrdersUntouched'
<1>1. \A e \in Externals : order[e].version \in Nat /\ order'[e].version \in Nat
  BY DEF IntakeInv, OrdersHold, Intaken, IntakeAssumption
<1>2. QED BY <1>1 DEF OrdersUntouched, OrdersGrow

(* At first nothing was taken in.                                          *)
LEMMA IntakeBegins == IntakeAssumption /\ IntakeInit => IntakeInv
<1>1. SUFFICES ASSUME IntakeAssumption, IntakeInit PROVE IntakeInv
  OBVIOUS
<1>2. source \in Source /\ source.version = 0
  <2>1. source \in [kind : SourceKinds, status : {"draft", "active"}, version : {0},
                    validated : BOOLEAN, key : {FALSE}, mapping : {0}]
    BY <1>1 DEF IntakeInit
  <2>2. 0 \in 0..MaxSettings + 1 /\ 0 \in 0..MaxSettings /\ FALSE \in BOOLEAN
    BY <1>1 DEF IntakeAssumption
  <2>3. QED BY <2>1, <2>2 DEF Source
<1>3. /\ NotTaken \in Intaken /\ NotTaken.version = 0 /\ NotTaken.said = NoContent
      /\ NotTaken.corrected = NoContent
  BY <1>1 DEF NotTaken, Intaken, IntakeAssumption
<1>4. OrdersHold
  BY <1>1, <1>3 DEF IntakeInit, OrdersHold
<1>5. CountsHold
  <2>1. InMonth = {}
    BY <1>1, <1>3 DEF IntakeInit, InMonth
  <2>2. IsFiniteSet(InMonth) /\ Cardinality(InMonth) = 0
    BY <2>1, FS_EmptySet
  <2>3. QED BY <1>1, <2>2 DEF IntakeInit, CountsHold, IntakeAssumption
<1>6. RunsHold
  <2>1. NotRun \in Run /\ NotRun.status = "none" /\ NotRun.version = 0
    BY <1>1 DEF NotRun, Run, Actions, IntakeAssumption
  <2>2. QED BY <1>1, <1>2, <2>1 DEF IntakeInit, RunsHold, PreviewHolds
<1>7. ReceiptsHold
  BY <1>1 DEF IntakeInit, ReceiptsHold, Receipt
<1>8. QED BY <1>2, <1>4, <1>5, <1>6, <1>7 DEF IntakeInv

(* Whatever is uploaded, repeated, late or refused: what the operator      *)
(* corrected stays until the source says the same, the use of the month is *)
(* the number of orders that got in and within the quota, a batch is       *)
(* executed once, and a file does to the orders what its preview said.     *)
THEOREM IntakeKept == IntakeSpec => OrdersComeInAsShown
<1>1. IntakeSpec => []IntakeInv
  BY IntakeAssumption, IntakeBegins, IntakeStep, PTL DEF IntakeSpec
<1>2. IntakeSpec => []IntakeIsSound
  BY <1>1, IntakeSound, PTL
<1>3. IntakeSpec => PreviewIsImported
  <2>1. IntakeInv /\ IntakeAssumption /\ [IntakeNext]_intakeVars => [Imported]_intakeVars
    BY IntakeStep
  <2>2. IntakeSpec => [][Imported]_intakeVars
    BY <1>1, <2>1, IntakeAssumption, PTL DEF IntakeSpec
  <2>3. QED BY <2>2 DEF PreviewIsImported, Imported
<1>4. QED BY <1>2, <1>3, PTL DEF OrdersComeInAsShown

-----------------------------------------------------------------------------
(* The composition that TLC runs.                                          *)

(* A step of the office is a step of each of its parts, or none.           *)
LEMMA OfficeSteps ==
  ASSUME [OfficeNext]_officeVars
  PROVE  /\ [Next]_vars /\ [IntakeNext]_intakeVars /\ [SelectionNext]_selectionVars
         /\ [RegistryNext]_registryVars /\ [CustomersNext]_customerVars
  BY DEF OfficeNext, EvidencePart, IntakePart, SelectionPart, RegistryPart, CustomersPart, officeVars

(* A behaviour of the office is a behaviour of each of its parts, so that  *)
(* what is true of a part alone is true of it there: its rows have their   *)
(* types, an order that never came in is untouched, and a clerk changes    *)
(* only a vehicle that was created (registries, orders, delivery_evidence).*)
THEOREM OfficeIsTyped == OfficeSpec => []OfficeTypeOK
<1>1. OfficeSpec => Spec /\ IntakeSpec /\ SelectionSpec /\ RegistrySpec /\ CustomersSpec
  <2>1. OfficeInit => Init /\ IntakeInit /\ SelectionInit /\ RegistryInit /\ CustomersInit
    BY DEF OfficeInit
  <2>2. [OfficeNext]_officeVars =>
          /\ [Next]_vars /\ [IntakeNext]_intakeVars /\ [SelectionNext]_selectionVars
          /\ [RegistryNext]_registryVars /\ [CustomersNext]_customerVars
    BY OfficeSteps
  <2>3. QED
    BY <2>1, <2>2, PTL DEF OfficeSpec, Spec, IntakeSpec, SelectionSpec, RegistrySpec, CustomersSpec
<1>2. IntakeSpec => [](IntakeInv /\ OrdersUntouched)
  <2>1. IntakeInit => OrdersUntouched
    BY DEF IntakeInit, OrdersUntouched
  <2>2. IntakeInv /\ IntakeAssumption /\ OrdersUntouched /\ [IntakeNext]_intakeVars =>
          IntakeInv' /\ OrdersUntouched'
    BY IntakeStep, OrdersStay
  <2>3. QED BY <2>1, <2>2, IntakeAssumption, IntakeBegins, PTL DEF IntakeSpec
<1>3. RegistrySpec => [](RegistryInv /\ VehiclesWere)
  <2>1. RegistryInit => VehiclesWere
    BY DEF RegistryInit, VehiclesWere, NotReading
  <2>2. RegistryInv /\ RegistryAssumption /\ [RegistryNext]_registryVars => RegistryInv'
    BY RegistryStep
  <2>3. QED BY <2>1, <2>2, VehiclesStay, RegistryAssumption, RegistryBegins, PTL DEF RegistrySpec
<1>4. SelectionSpec => []SelectionInv
  BY SelectionAssumption, SelectionBegins, SelectionStep, PTL DEF SelectionSpec
<1>5. CustomersSpec => []CustomerInv
  BY CustomerBegins, CustomerStep, PTL DEF CustomersSpec
<1>6. IntakeInv /\ OrdersUntouched => IntakeTypeOK
  BY DEF IntakeInv, OrdersUntouched, IntakeTypeOK, OrdersHold, CountsHold, RunsHold, ReceiptsHold
<1>7. RegistryInv /\ VehiclesWere => RegistryTypeOK
  BY DEF RegistryInv, VehiclesWere, RegistryTypeOK
<1>8. SelectionInv => SelectionTypeOK
  BY DEF SelectionInv, SelectionTypeOK, DeskHolds, ChecksHold, PagesAgree, ChoiceHolds, DraftsHold,
         GatheredIsKept, CheckRow, Draft
<1>9. CustomerInv => CustomersTypeOK
  BY DEF CustomerInv
<1>10. EvidenceTypeOK /\ IntakeTypeOK /\ SelectionTypeOK /\ RegistryTypeOK /\ CustomersTypeOK =>
         OfficeTypeOK
  BY DEF OfficeTypeOK
<1>11. QED
  BY <1>1, <1>2, <1>3, <1>4, <1>5, <1>6, <1>7, <1>8, <1>9, <1>10, EvidenceTypeCorrect, PTL

=============================================================================
