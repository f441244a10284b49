----------------------------- MODULE Identities -----------------------------
(***************************************************************************)
(* Who may log in with an e-mail address, and the number of a customer.    *)
(*                                                                         *)
(* An address belongs to one identity of the whole platform: an owner, a   *)
(* driver, an agent or a collaborator.  The tables are several, and the    *)
(* address of a driver or an agent stands in two of them (the registry and *)
(* the account), so that no unique index covers it: a request takes the    *)
(* advisory lock of the address, looks through the tables and holds the    *)
(* lock until it commits.  The registrations number their companies under  *)
(* a lock of the table.                                                    *)
(***************************************************************************)
EXTENDS Naturals, FiniteSets

CONSTANTS
  Owners,            (* Companies.                                         *)
  Drivers, Agents,   (* A collaborator is an agent who never uses a link.  *)
  Emails, NoEmail,
  Savers,            (* Requests that run at a time.                       *)
  MaxNumber          (* Bound: customer numbers.                           *)

ASSUME IdentitiesAssumption ==
  /\ Owners \cap (Drivers \cup Agents) = {} /\ Drivers \cap Agents = {}
  /\ NoEmail \notin Emails /\ MaxNumber \in Nat

VARIABLES
  registry,          (* The address in the registry.                       *)
  workerLogin,       (* The address with which a worker logs in.           *)
  number,            (* The customer number of a company; 0: not there.    *)
  saver              (* What each request holds.                           *)

identityVars == <<registry, workerLogin, number, saver>>

Workers == Drivers \cup Agents

Ids == Owners \cup Workers

Saver == [phase : {"idle", "read", "checked", "numbered"}, kind : {"save", "setup", "signup"},
          id : SUBSET Ids, email : Emails \cup {NoEmail}, account : BOOLEAN, next : Nat]

AtRest == [phase |-> "idle", kind |-> "save", id |-> {}, email |-> NoEmail, account |-> FALSE, next |-> 0]

IdentitiesTypeOK ==
  /\ registry \in [Ids -> Emails \cup {NoEmail}]
  /\ workerLogin \in [Workers -> Emails \cup {NoEmail}]
  /\ number \in [Owners -> 0..MaxNumber]
  /\ saver \in [Savers -> Saver]
  /\ \A i \in Owners : number[i] = 0 => registry[i] = NoEmail

-----------------------------------------------------------------------------

EmailsOf(i) ==
  ({registry[i]} \cup IF i \in Workers THEN {workerLogin[i]} ELSE {}) \ {NoEmail}

FreeFor(i, e) == \A j \in Ids \ {i} : e \notin EmailsOf(j)

(* Mutant: there is no lock. *)
EmailLockedNever(q, e) == FALSE

(* pg_advisory_xact_lock: another request of the same address waits. *)
EmailLocked(q, e) ==
  \E p \in Savers \ {q} : saver[p].phase \in {"checked", "numbered"} /\ saver[p].email = e

MayWrite(q, i, e) == e # NoEmail => ~EmailLocked(q, e) /\ FreeFor(i, e)

(* LOCK TABLE users: another registration, and whatever writes a row of    *)
(* that table, waits.                                                      *)
UsersLocked == \E p \in Savers : saver[p].phase = "numbered"

Set(q, record) == saver' = [saver EXCEPT ![q] = record]

(* A driver, an agent or a collaborator is saved, or an owner's profile.   *)
(* The account of a driver is looked for after the check and follows; that *)
(* of an agent waits for the new invitation to be used.                    *)
BeginSave(q, i, e) ==
  /\ saver[q] = AtRest
  /\ i \in Owners => number[i] > 0
  /\ MayWrite(q, i, e)
  /\ Set(q, [AtRest EXCEPT !.phase = "checked", !.id = {i}, !.email = e,
                           !.account = i \in Drivers /\ workerLogin[i] # NoEmail])
  /\ UNCHANGED <<registry, workerLogin, number>>

StillThere(i) == i \in Owners => number[i] > 0

CommitSave(q) ==
  \E i \in saver[q].id :
    /\ saver[q].phase = "checked" /\ saver[q].kind = "save"
    /\ StillThere(i) /\ (i \in Owners => ~UsersLocked)
    /\ registry' = [registry EXCEPT ![i] = saver[q].email]
    /\ workerLogin' = IF saver[q].account /\ saver[q].email # NoEmail
                        THEN [workerLogin EXCEPT ![i] = saver[q].email] ELSE workerLogin
    /\ Set(q, AtRest)
    /\ UNCHANGED number

(* complete_setup: the address of the registry as it was read. *)
ReadSetup(q, i) ==
  /\ saver[q] = AtRest /\ registry[i] # NoEmail
  /\ Set(q, [AtRest EXCEPT !.phase = "read", !.kind = "setup", !.id = {i}, !.email = registry[i]])
  /\ UNCHANGED <<registry, workerLogin, number>>

CheckSetup(q) ==
  \E i \in saver[q].id :
    /\ saver[q].phase = "read" /\ MayWrite(q, i, saver[q].email)
    /\ Set(q, [saver[q] EXCEPT !.phase = "checked"])
    /\ UNCHANGED <<registry, workerLogin, number>>

(* The account of a driver, if there is one, keeps its address. *)
CommitSetup(q) ==
  \E i \in saver[q].id :
    /\ saver[q].phase = "checked" /\ saver[q].kind = "setup"
    /\ workerLogin' = [workerLogin EXCEPT ![i] = IF i \in Drivers /\ @ # NoEmail THEN @ ELSE saver[q].email]
    /\ Set(q, AtRest)
    /\ UNCHANGED <<registry, number>>

BeginSignup(q, i, e) ==
  /\ saver[q] = AtRest /\ number[i] = 0 /\ MayWrite(q, i, e)
  /\ Set(q, [AtRest EXCEPT !.phase = "checked", !.kind = "signup", !.id = {i}, !.email = e])
  /\ UNCHANGED <<registry, workerLogin, number>>

Greatest == CHOOSE n \in 0..MaxNumber :
  /\ \A i \in Owners : n >= number[i]
  /\ \E i \in Owners : n = number[i]

NextNumber == Greatest + 1

(* LOCK TABLE users, then the greatest number. *)
LockUsers(q) ==
  /\ saver[q].phase = "checked" /\ saver[q].kind = "signup" /\ NextNumber <= MaxNumber
  /\ ~UsersLocked
  /\ Set(q, [saver[q] EXCEPT !.phase = "numbered", !.next = NextNumber])
  /\ UNCHANGED <<registry, workerLogin, number>>

CommitSignup(q) ==
  \E i \in saver[q].id :
    /\ saver[q].phase = "numbered" /\ number[i] = 0
    /\ number' = [number EXCEPT ![i] = saver[q].next]
    /\ registry' = [registry EXCEPT ![i] = saver[q].email]
    /\ Set(q, AtRest)
    /\ UNCHANGED workerLogin

(* A refusal, or an error before the commit. *)
AbandonSave(q) ==
  /\ saver[q] # AtRest
  /\ Set(q, AtRest)
  /\ UNCHANGED <<registry, workerLogin, number>>

(* admin_delete_user *)
DeleteOwner(i) ==
  /\ number[i] > 0
  /\ ~UsersLocked
  /\ number' = [number EXCEPT ![i] = 0]
  /\ registry' = [registry EXCEPT ![i] = NoEmail]
  /\ UNCHANGED <<workerLogin, saver>>

-----------------------------------------------------------------------------

IdentitiesInit ==
  /\ registry = [i \in Ids |-> NoEmail] /\ workerLogin = [i \in Workers |-> NoEmail]
  /\ number = [i \in Owners |-> 0] /\ saver = [q \in Savers |-> AtRest]

IdentitiesNext ==
  \/ \E i \in Owners : DeleteOwner(i)
  \/ \E q \in Savers :
       \/ CommitSave(q) \/ CheckSetup(q) \/ CommitSetup(q)
       \/ LockUsers(q) \/ CommitSignup(q) \/ AbandonSave(q)
       \/ \E i \in Workers : ReadSetup(q, i)
       \/ \E i \in Ids, e \in Emails \cup {NoEmail} : BeginSave(q, i, e)
       \/ \E i \in Owners, e \in Emails : BeginSignup(q, i, e)

IdentitiesSpec == IdentitiesInit /\ [][IdentitiesNext]_identityVars

-----------------------------------------------------------------------------

(* An address never belongs to two identities, whichever of its tables it  *)
(* stands in, also when two requests give it at the same time and when a   *)
(* link is used after the office changed the address.                      *)
LoginEmailsAreUnique == \A i, j \in Ids : i # j => EmailsOf(i) \cap EmailsOf(j) = {}

(* Two companies never have the same customer number, also when they       *)
(* register together and after one was deleted.                            *)
CustomerNumbersAreDistinct ==
  \A i, j \in Owners : i # j /\ number[i] > 0 => number[i] # number[j]

(* Addresses and customer numbers tell identities apart. *)
IdentitiesAreDistinct == LoginEmailsAreUnique /\ CustomerNumbersAreDistinct

=============================================================================
