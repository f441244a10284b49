------------------------------ MODULE Accounts ------------------------------
(***************************************************************************)
(* One login of a company: its owner, a collaborator, a driver or an agent.*)
(*                                                                         *)
(* Sessions are bound to the password, so nothing has to be deleted when   *)
(* it changes.  Passwords are set through links that were sent by e-mail,  *)
(* and changed by requests that know the present one, while the owner      *)
(* changes addresses and closes accounts.  A link that was sent may be     *)
(* late, or used by two requests at once.                                  *)
(*                                                                         *)
(* A password is its number and 0 is none.  A hash is the number of the    *)
(* time it was made; 0 is one in an old form, which the next login writes  *)
(* again.  An agent differs from a driver only in names; the e-mail address*)
(* is unique among all logins.                                             *)
(***************************************************************************)
EXTENDS Naturals

CONSTANTS
  Roles,             (* Subset of "user", "collaborator", "driver".        *)
  Mailboxes,         (* E-mail addresses.                                  *)
  NoMailbox,         (* Of a request that was not made.                    *)
  Letters,           (* Links that are sent.                               *)
  NoLetter,
  Cookies,           (* Sessions.                                          *)
  Visitors,          (* Requests that run at a time.                       *)
  MaxHash,           (* Bound: the hashes that are made.                   *)
  MaxVersion         (* Bound: how often a collaborator's sessions end.    *)

ASSUME AccountsAssumption ==
  /\ Roles \subseteq {"user", "collaborator", "driver"}
  /\ NoMailbox \notin Mailboxes /\ NoLetter \notin Letters
  /\ MaxHash \in Nat \ {0} /\ MaxVersion \in Nat

VARIABLES
  login,             (* The account.                                       *)
  letters,           (* Reset tokens, setup tokens and invitations.        *)
  cookies,           (* The credentials that sessions are bound to.        *)
  revoked,           (* The RevokedSession rows.                           *)
  visitor,           (* What each request holds.                           *)
  hashes,            (* How many hashes were made.                         *)
  ended,             (* History: the sessions that something ended.        *)
  moved              (* History: the links made before the present address.*)

accountVars == <<login, letters, cookies, revoked, visitor, hashes, ended, moved>>

-----------------------------------------------------------------------------

(* "pending" is password_setup_required, "version" session_version.        *)
Login ==
  [role : Roles, password : 0..MaxHash, hash : 0..MaxHash, version : 0..MaxVersion, email : Mailboxes,
   active : BOOLEAN, pending : BOOLEAN]

(* "password" and "uses" are history: the password when the link was made, *)
(* and how often it was used.                                              *)
Letter ==
  [kind : {"none", "reset", "setup", "invite"}, email : Mailboxes \cup {NoMailbox},
   used : BOOLEAN, sent : BOOLEAN, password : 0..MaxHash, uses : Nat]

NotWritten == [kind |-> "none", email |-> NoMailbox, used |-> FALSE, sent |-> FALSE,
               password |-> 0, uses |-> 0]

Credentials == [password : 0..MaxHash, hash : 0..MaxHash, version : 0..MaxVersion]
NoCredential == [password |-> 0, hash |-> 0, version |-> 0]

Visitor == [phase : {"idle", "verified", "committed", "opened", "known"},
            seen : Credentials, letter : Letters \cup {NoLetter}]

Away == [phase |-> "idle", seen |-> NoCredential, letter |-> NoLetter]

AccountsTypeOK ==
  /\ login \in Login
  /\ letters \in [Letters -> Letter]
  /\ cookies \in [Cookies -> Credentials]
  /\ revoked \subseteq Cookies /\ ended \subseteq Cookies /\ moved \subseteq Letters
  /\ visitor \in [Visitors -> Visitor]
  /\ hashes \in 1..MaxHash
  /\ login.password <= hashes
  /\ \A l \in Letters : letters[l].uses > 0 => letters[l].used

(* Mutant: every session is bound to the hash alone. *)
CredentialOfHash == [password |-> login.password, hash |-> login.hash, version |-> 0]

(* credential *)
Credential ==
  [password |-> login.password, hash |-> login.hash,
   version |-> IF login.role = "collaborator" THEN login.version ELSE 0]

(* active_identity *)
ActiveIdentity == login.role = "user" \/ (login.active /\ ~login.pending)

(* read_session: a cookie that opens the account. *)
Works(c) ==
  /\ cookies[c] # NoCredential /\ cookies[c] = Credential
  /\ c \notin revoked /\ ActiveIdentity

Unused(l) == letters[l].kind # "none" /\ ~letters[l].used

Of(kind) == {l \in Letters : letters[l].kind = kind}

Spent(S) == [l \in Letters |-> IF l \in S THEN [letters[l] EXCEPT !.used = TRUE] ELSE letters[l]]

Written(l, kind, email) ==
  [NotWritten EXCEPT !.kind = kind, !.email = email, !.password = login.password]

Goes(v) == visitor' = [visitor EXCEPT ![v] = Away]

Given == {c \in Cookies : cookies[c] # NoCredential}
Made == {l \in Letters : letters[l].kind # "none"}

(* What every new password does. *)
Choose(pending) ==
  /\ hashes < MaxHash /\ hashes' = hashes + 1
  /\ login' = [login EXCEPT !.password = hashes + 1, !.hash = hashes + 1, !.pending = pending]
  /\ ended' = Given

-----------------------------------------------------------------------------
(* Logging in and out.                                                     *)

GiveCookie(c) ==
  /\ cookies[c] = NoCredential
  /\ cookies' = [cookies EXCEPT ![c] = Credential]

(* The owner's cookie is made of the hash that was compared. *)
LogInOwner(c) ==
  /\ login.role = "user" /\ login.password # 0
  /\ GiveCookie(c)
  /\ UNCHANGED <<login, letters, revoked, visitor, hashes, ended, moved>>

VerifyPassword(v) ==
  /\ login.role # "user" /\ login.password # 0 /\ ActiveIdentity
  /\ visitor[v].phase = "idle"
  /\ visitor' = [visitor EXCEPT ![v] = [Away EXCEPT !.phase = "verified", !.seen = Credential]]
  /\ UNCHANGED <<login, letters, cookies, revoked, hashes, ended, moved>>

(* last_login is committed, and with it the new form of an old hash: of    *)
(* the password that was compared, whatever the row holds by now.          *)
CommitLogin(v) ==
  LET seen == visitor[v].seen IN
  /\ visitor[v].phase = "verified"
  /\ visitor' = [visitor EXCEPT ![v].phase = "committed"]
  /\ \/ /\ seen.hash # 0
        /\ UNCHANGED <<login, ended, hashes>>
     \/ /\ seen.hash = 0 /\ hashes < MaxHash /\ hashes' = hashes + 1
        /\ login' = [login EXCEPT !.password = seen.password, !.hash = hashes']
        /\ ended' = Given
  /\ UNCHANGED <<letters, cookies, revoked, moved>>

(* The row is read again after the commit. *)
LogIn(v, c) ==
  /\ visitor[v].phase = "committed"
  /\ GiveCookie(c)
  /\ Goes(v)
  /\ UNCHANGED <<login, letters, revoked, hashes, ended, moved>>

LogOut(c) ==
  /\ cookies[c] # NoCredential /\ c \notin revoked
  /\ revoked' = revoked \cup {c}
  /\ UNCHANGED <<login, letters, cookies, visitor, hashes, ended, moved>>

-----------------------------------------------------------------------------
(* Resetting a password.                                                   *)

(* request_password_reset: the mail goes out before the commit, which may  *)
(* fail.  Earlier links stay.                                              *)
RequestReset(l, stops) ==
  /\ ActiveIdentity /\ login.password # 0
  /\ letters[l].kind = "none"
  /\ letters' = [letters EXCEPT ![l] = [Written(l, "reset", login.email) EXCEPT !.used = stops]]
  /\ UNCHANGED <<login, cookies, revoked, visitor, hashes, ended, moved>>

(* The link is found without a lock; the setup of a driver also looks at   *)
(* its use here, and only here.                                            *)
OpenLetter(v, l) ==
  /\ visitor[v].phase = "idle" /\ letters[l].kind # "none"
  /\ letters[l].kind = "setup" => Unused(l) /\ login.active
  /\ visitor' = [visitor EXCEPT ![v] = [Away EXCEPT !.phase = "opened", !.letter = l]]
  /\ UNCHANGED <<login, letters, cookies, revoked, hashes, ended, moved>>

(* _lock_reset_account, then the token again. *)
StillGood(l) == Unused(l) /\ ActiveIdentity /\ letters[l].email = login.email

Uses(S, l) == [x \in Letters |-> IF x = l THEN [S[x] EXCEPT !.used = TRUE, !.uses = @ + 1] ELSE S[x]]

(* _invalidate_reset_tokens *)
ResetSpends == Of("reset")

ConfirmReset(v) ==
  LET l == visitor[v].letter IN
  /\ visitor[v].phase = "opened" /\ letters[l].kind = "reset" /\ StillGood(l)
  /\ Choose(login.pending)
  /\ letters' = Uses(Spent(ResetSpends), l)
  /\ Goes(v)
  /\ UNCHANGED <<cookies, revoked, moved>>

(* The setup of a driver makes the account or takes it over, and logs in. *)
CompleteSetup(v, c) ==
  LET l == visitor[v].letter IN
  /\ visitor[v].phase = "opened" /\ letters[l].kind = "setup"
  /\ Choose(FALSE)
  /\ letters' = Uses(letters, l)
  /\ cookies' = IF cookies[c] = NoCredential
       THEN [cookies EXCEPT ![c] = [password |-> hashes', hash |-> hashes', version |-> 0]]
       ELSE cookies
  /\ Goes(v)
  /\ UNCHANGED <<revoked, moved>>

(* create_driver_setup_token: unused links are deleted. *)
SetupSpends == {l \in Of("setup") : Unused(l)}

(* A driver is created or invited again; a setup that holds a deleted link *)
(* finds no row to write.  The mail is not waited for.                     *)
InviteDriver(l) ==
  /\ login.role = "driver" /\ login.active /\ letters[l].kind = "none"
  /\ letters' = [Spent(SetupSpends) EXCEPT ![l] = Written(l, "setup", login.email)]
  /\ visitor' = [v \in Visitors |-> IF visitor[v].letter \in SetupSpends THEN Away ELSE visitor[v]]
  /\ UNCHANGED <<login, cookies, revoked, hashes, ended, moved>>

-----------------------------------------------------------------------------
(* Changes by whoever is logged in.                                        *)

Authenticate(v, c) ==
  /\ login.role # "driver" /\ visitor[v].phase = "idle" /\ Works(c)
  /\ visitor' = [visitor EXCEPT ![v] = [Away EXCEPT !.phase = "known", !.seen = cookies[c]]]
  /\ UNCHANGED <<login, letters, cookies, revoked, hashes, ended, moved>>

(* "Do not let a request authenticated before an email change overwrite    *)
(* the password subsequently chosen": the row is locked and compared; the  *)
(* owner's password is only compared with the one that was typed.          *)
StillKnown(v) ==
  /\ visitor[v].phase = "known"
  /\ login.role = "collaborator" => Credential = visitor[v].seen /\ ActiveIdentity

ChangePassword(v) ==
  /\ StillKnown(v) /\ visitor[v].seen.password = login.password
  /\ Choose(login.pending)
  /\ letters' = Spent(Of("reset") \cup IF login.role = "collaborator" THEN Of("invite") ELSE {})
  /\ Goes(v)
  /\ UNCHANGED <<cookies, revoked, moved>>

ProfileSpends(email) == IF email = login.email THEN {} ELSE Of("reset")

(* update_account_profile of the owner. *)
ChangeProfile(v, email) ==
  /\ login.role = "user" /\ visitor[v].phase = "known"
  /\ visitor[v].seen.hash = login.hash
  /\ login' = [login EXCEPT !.email = email]
  /\ letters' = Spent(ProfileSpends(email))
  /\ moved' = IF email = login.email THEN moved ELSE Made
  /\ Goes(v)
  /\ UNCHANGED <<cookies, revoked, hashes, ended>>

-----------------------------------------------------------------------------
(* Changes by the owner.                                                   *)

(* A driver gets another address; the setup link for it is InviteDriver, a *)
(* transaction of its own whose failure is not an error of this one.       *)
SaveDriver(email) ==
  /\ login.role = "driver" /\ login.active /\ email # login.email
  /\ login' = [login EXCEPT !.email = email]
  /\ moved' = Made
  /\ UNCHANGED <<letters, cookies, revoked, visitor, hashes, ended>>

ArchiveDriver ==
  /\ login.role = "driver" /\ login.active
  /\ login' = [login EXCEPT !.active = FALSE]
  /\ ended' = Given
  /\ UNCHANGED <<letters, cookies, revoked, visitor, hashes, moved>>

(* issue_invitation: a new letter ends those before it. *)
Issued(old, l, email) ==
  [x \in Letters |-> IF x = l THEN Written(l, "invite", email)
                     ELSE IF old[x].kind = "invite" THEN [old[x] EXCEPT !.used = TRUE] ELSE old[x]]

(* collaborators.save with issue_invitation: an e-mail change or closing   *)
(* the account revokes every link and session; the letter is committed,    *)
(* then sent without a lock.                                               *)
SaveCollaborator(email, active, l) ==
  LET changed == email # login.email
      pending == login.pending \/ changed
      sends == active /\ pending /\ (changed \/ ~login.active)
      revokes == changed \/ (login.active /\ ~active)
      kept == IF revokes THEN Spent(Of("reset") \cup Of("invite")) ELSE letters IN
  /\ login.role = "collaborator"
  /\ sends => letters[l].kind = "none"
  /\ revokes => login.version < MaxVersion
  /\ login' = [login EXCEPT !.email = email, !.active = active, !.pending = pending,
                            !.version = IF revokes THEN @ + 1 ELSE @]
  /\ letters' = IF sends THEN Issued(kept, l, email) ELSE kept
  /\ ended' = IF revokes THEN Given ELSE ended
  /\ moved' = IF changed THEN Made ELSE moved
  /\ UNCHANGED <<cookies, revoked, visitor, hashes>>

(* Another letter for a collaborator who has not accepted; one that is on  *)
(* its way may be too recent.                                              *)
InviteAgain(l) ==
  /\ login.role = "collaborator" /\ login.active /\ login.pending /\ letters[l].kind = "none"
  /\ letters' = Issued(letters, l, login.email)
  /\ UNCHANGED <<login, cookies, revoked, visitor, hashes, ended, moved>>

(* "Later status writes target only this id": the outcome of the mail is   *)
(* written to a letter that is still good.                                 *)
AcknowledgeLetter(l, sent) ==
  /\ l \in Of("invite") /\ Unused(l) /\ ~letters[l].sent
  /\ letters' = [letters EXCEPT ![l] = IF sent THEN [@ EXCEPT !.sent = TRUE] ELSE [@ EXCEPT !.used = TRUE]]
  /\ UNCHANGED <<login, cookies, revoked, visitor, hashes, ended, moved>>

InvitationHolds(l) ==
  Unused(l) /\ login.active /\ login.pending /\ letters[l].email = login.email

(* confirm_invitation: every mutation takes the actor lock first. *)
AcceptInvitation(v) ==
  LET l == visitor[v].letter IN
  /\ visitor[v].phase = "opened" /\ letters[l].kind = "invite" /\ InvitationHolds(l)
  /\ hashes < MaxHash /\ hashes' = hashes + 1 /\ login.version < MaxVersion
  /\ login' = [login EXCEPT !.password = hashes', !.hash = hashes', !.pending = FALSE,
                            !.version = @ + 1]
  /\ ended' = Given
  /\ letters' = Uses(Spent(Of("invite") \cup Of("reset")), l)
  /\ Goes(v)
  /\ UNCHANGED <<cookies, revoked, moved>>

(* A link is used too late. *)
LetterExpires(l) ==
  /\ Unused(l)
  /\ letters' = Spent({l})
  /\ UNCHANGED <<login, cookies, revoked, visitor, hashes, ended, moved>>

(* The request is refused or ends. *)
GiveUp(v) ==
  /\ visitor[v].phase # "idle"
  /\ Goes(v)
  /\ UNCHANGED <<login, letters, cookies, revoked, hashes, ended, moved>>

-----------------------------------------------------------------------------

(* A collaborator is created with an invitation; an owner and an old       *)
(* collaborator have a password, and a driver may have one.                *)
AccountsInit ==
  /\ login \in [role : Roles, password : {0, 1}, hash : {0, 1}, version : {0}, email : Mailboxes,
                active : {TRUE}, pending : BOOLEAN]
  /\ login.password = 0 => login.hash = 1
  /\ login.role = "user" => login.password = 1
  /\ login.pending <=> login.role = "collaborator" /\ login.password = 0
  /\ letters = [l \in Letters |-> NotWritten]
  /\ cookies = [c \in Cookies |-> NoCredential]
  /\ revoked = {} /\ visitor = [v \in Visitors |-> Away]
  /\ hashes = 1 /\ ended = {} /\ moved = {}

VisitorNext(v) ==
  \/ VerifyPassword(v) \/ CommitLogin(v) \/ ConfirmReset(v) \/ ChangePassword(v)
  \/ AcceptInvitation(v) \/ GiveUp(v)
  \/ \E c \in Cookies : LogIn(v, c) \/ CompleteSetup(v, c) \/ Authenticate(v, c)
  \/ \E l \in Letters : OpenLetter(v, l)
  \/ \E email \in Mailboxes : ChangeProfile(v, email)

OfficeNext ==
  \/ \E c \in Cookies : LogInOwner(c) \/ LogOut(c)
  \/ \E l \in Letters :
       \/ InviteDriver(l) \/ InviteAgain(l) \/ LetterExpires(l)
       \/ \E stops \in BOOLEAN : RequestReset(l, stops)
       \/ \E sent \in BOOLEAN : AcknowledgeLetter(l, sent)
       \/ \E email \in Mailboxes, active \in BOOLEAN : SaveCollaborator(email, active, l)
  \/ \E email \in Mailboxes : SaveDriver(email)
  \/ ArchiveDriver

AccountsNext == OfficeNext \/ \E v \in Visitors : VisitorNext(v)

AccountsSpec == AccountsInit /\ [][AccountsNext]_accountVars

-----------------------------------------------------------------------------

(* A session ends for good when a password is chosen, the account is       *)
(* closed or, for a collaborator, gets another address: it does not work   *)
(* again when the account is opened again or the address comes back.       *)
SessionsEndForGood == \A c \in ended : ~Works(c)

(* A letter of the office or a reset link sets one password at most, also  *)
(* when two requests use it at the same time.  (The link of a driver's     *)
(* first access is only checked before it is used.)                        *)
LinksWorkOnce == \A l \in Of("reset") \cup Of("invite") : letters[l].uses <= 1

(* Of several reset links of an owner, the first that is used ends the     *)
(* others, and so does a change of the password: no link works that was    *)
(* made under an earlier password.                                         *)
ResetEndsOtherLinks ==
  \A l \in Of("reset") :
    login.role = "user" /\ Unused(l) /\ letters[l].email = login.email
      => letters[l].password = login.password

(* The links that were sent to an earlier address of an owner or a         *)
(* collaborator never work again, even if the address comes back.          *)
AddressEndsLinks ==
  login.role # "driver" => \A l \in moved \cap (Of("reset") \cup Of("invite")) : ~Unused(l)

(* The credentials of an account, sessions and links, end when they should *)
(* and never come back.                                                    *)
CredentialsEndForGood ==
  SessionsEndForGood /\ LinksWorkOnce /\ ResetEndsOtherLinks /\ AddressEndsLinks

=============================================================================
