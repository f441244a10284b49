------------------------------ MODULE Billing ------------------------------
(***************************************************************************)
(* The subscription of one company, which three parties write: requests of *)
(* the company (checkout, change of plan, cancellation, "update state"),   *)
(* the notifications of the payment provider, and the provider itself,     *)
(* which charges, renews and cancels on its own.                           *)
(*                                                                         *)
(* Every transaction of the application locks the row of the company, and  *)
(* some commit and lock again between two calls of the provider.  The      *)
(* provider changes between any two of its answers.  It sends the          *)
(* notifications of a change in any order, late, more than once, and again *)
(* until one is answered.                                                  *)
(*                                                                         *)
(* A plan is its rank in the price list and 0 is none.  Prices, dates,     *)
(* invoices and the customer's data are left out; an hour and the seven    *)
(* days of grace pass in a step of their own.                              *)
(***************************************************************************)
EXTENDS Naturals, FiniteSets

CONSTANTS
  BillingRequests,   (* Requests and notifications handled at a time.      *)
  CheckoutKeys,      (* Idempotency keys, drawn once each.                 *)
  Subscriptions,     (* What the provider may create.                      *)
  Plans,             (* Ranks of the plans.                                *)
  NoKey, NoSubscription,
  MaxChanges         (* Bound: changes at the provider.                    *)

ASSUME BillingAssumption ==
  /\ NoKey \notin CheckoutKeys /\ NoSubscription \notin Subscriptions
  /\ Plans \subseteq Nat \ {0}
  /\ MaxChanges \in Nat

VARIABLES
  account,           (* The billing columns of the company.                *)
  sessions,          (* Checkouts at the provider, by key.                 *)
  subs,              (* Subscriptions at the provider.                     *)
  late,              (* Keys whose hour is over.                           *)
  changes,           (* How often the provider has changed.                *)
  sent,              (* Notifications of the provider.                     *)
  answered,          (* Those that were answered with success.             *)
  recorded,          (* The BillingEvent rows.                             *)
  billing,           (* What each request holds.                           *)
  mails,             (* How often the first payment was announced.         *)
  past               (* History: plans and subscriptions that were paid,   *)
                     (* subscriptions that were not renewed in time or     *)
                     (* ended, whether the row let go of a session that    *)
                     (* was open, and whether a process stopped with a     *)
                     (* schedule that was not committed.                   *)

billingVars == <<account, sessions, subs, late, changes, sent, answered, recorded, billing,
                 mails, past>>
provider == <<sessions, subs, late, changes, sent, past>>
notifications == <<answered, recorded, mails>>

-----------------------------------------------------------------------------

Ranks == Plans \cup {0}

(* "update" is an upgrade that waits for its payment, "schedule" the plan  *)
(* of the next period; "paid" is about the last invoice.                   *)
Contract ==
  [status : {"none", "incomplete", "active", "past_due", "canceled"}, plan : Ranks,
   paid : BOOLEAN, update : Ranks, schedule : Ranks, ends : BOOLEAN]

NoContract == [status |-> "none", plan |-> 0, paid |-> FALSE, update |-> 0,
               schedule |-> 0, ends |-> FALSE]

(* A key is "pending_..." until its session is known (ready); "timed" says *)
(* that billing_checkout_expires is set.                                   *)
Checkout == [key : CheckoutKeys \cup {NoKey}, ready : BOOLEAN, plan : Ranks, timed : BOOLEAN]

NoCheckout == [key |-> NoKey, ready |-> FALSE, plan |-> 0, timed |-> FALSE]

Account ==
  [sub : Subscriptions \cup {NoSubscription}, plan : Ranks, checkout : Checkout,
   status : {"trial", "active", "incomplete", "past_due", "cancelled"},
   grace : {"none", "running", "over"}, pending : Ranks, noticed : BOOLEAN]

(* One notification per change and kind. *)
Event == [change : 1..MaxChanges, kind : {"checkout", "subscription", "invoice"},
          sub : Subscriptions]
NoEvent == [change |-> 0, kind |-> "none", sub |-> NoSubscription]

(* "clears": the checkout, or the pending plan, is dropped in the end. *)
Request ==
  [phase : {"idle", "asking", "preparing", "creating", "clearing", "selected", "syncing",
            "scheduling"},
   clears : BOOLEAN, plan : Ranks, sub : Subscriptions \cup {NoSubscription},
   seen : Contract, event : Event \cup {NoEvent}]

Waiting == [phase |-> "idle", clears |-> FALSE, plan |-> 0, sub |-> NoSubscription,
            seen |-> NoContract, event |-> NoEvent]

BillingTypeOK ==
  /\ account \in Account
  /\ sessions \in [CheckoutKeys -> [status : {"none", "open", "complete", "expired"}, plan : Ranks]]
  /\ subs \in [Subscriptions -> Contract]
  /\ late \subseteq CheckoutKeys
  /\ changes \in 0..MaxChanges
  /\ sent \subseteq Event /\ answered \subseteq sent /\ recorded \subseteq answered
  /\ billing \in [BillingRequests -> Request]
  /\ mails \in Nat
  /\ past \in [paid : SUBSET Plans, settled : SUBSET Subscriptions, lapsed : SUBSET Subscriptions,
               doubled : BOOLEAN, cut : BOOLEAN]

(* The row of the company is locked while a request waits for an answer of *)
(* the provider.                                                           *)
CompanyLocked == \E r \in BillingRequests : billing[r].phase \in {"creating", "selected", "syncing"}

Begins(r) == billing[r].phase = "idle" /\ ~CompanyLocked

(* Subscription.list without those that are canceled or never got paid. *)
LiveSubs == {s \in Subscriptions : subs[s].status \notin {"none", "canceled"}}

(* Mutant: a key whose session is not known is not used again. *)
TimelyWhenReady ==
  account.checkout.ready /\ account.checkout.timed /\ account.checkout.key \notin late

(* The checkout of the company is not older than an hour. *)
Timely == account.checkout.timed /\ account.checkout.key \notin late

Holds(r, held) == billing' = [billing EXCEPT ![r] = held]

Ends(r) == Holds(r, Waiting)

(* The row lets go of a checkout whose session can still be paid. *)
LetsGo(ofKey) == past' = [past EXCEPT !.doubled = @ \/ \E k \in ofKey : sessions'[k].status = "open"]

-----------------------------------------------------------------------------
(* What the provider does.                                                 *)

(* A change and the notifications of it.  That of an invoice does what one *)
(* of the subscription does, but for the first payment, so it is only sent *)
(* for payments.                                                           *)
Tell(kinds, s) ==
  /\ changes < MaxChanges
  /\ changes' = changes + 1
  /\ sent' = sent \cup {[change |-> changes + 1, kind |-> k, sub |-> s] : k \in kinds}

Paid(s, plan) == past' = [past EXCEPT !.paid = @ \cup {plan}, !.settled = @ \cup {s}]

(* The customer completes the page of a session, with a payment that       *)
(* succeeds or has to be confirmed.                                        *)
PayCheckout(key, s, paid) ==
  /\ sessions[key].status = "open" /\ subs[s].status = "none"
  /\ sessions' = [sessions EXCEPT ![key].status = "complete"]
  /\ subs' = [subs EXCEPT ![s] =
       [NoContract EXCEPT !.status = IF paid THEN "active" ELSE "incomplete",
                          !.plan = sessions[key].plan, !.paid = paid]]
  /\ Tell({"checkout", "subscription", "invoice"}, s)
  /\ IF paid THEN Paid(s, sessions[key].plan) ELSE UNCHANGED past
  /\ UNCHANGED <<account, late, billing, notifications>>

(* An open invoice is paid: the first one, that of a renewal or that of an *)
(* upgrade.                                                                *)
PayInvoice(s) ==
  LET plan == IF subs[s].update # 0 THEN subs[s].update ELSE subs[s].plan IN
  /\ s \in LiveSubs /\ (~subs[s].paid \/ subs[s].update # 0)
  /\ subs' = [subs EXCEPT ![s] =
       [@ EXCEPT !.status = "active", !.plan = plan, !.paid = TRUE, !.update = 0]]
  /\ Tell({"subscription", "invoice"}, s) /\ Paid(s, plan)
  /\ UNCHANGED <<account, sessions, late, billing, notifications>>

(* It is not: an upgrade is dropped, a renewal is tried for a while, and   *)
(* then, like a first payment, given up.                                   *)
FailInvoice(s) ==
  /\ s \in LiveSubs /\ (~subs[s].paid \/ subs[s].update # 0)
  /\ subs' = [subs EXCEPT ![s] =
       IF @.update # 0 THEN [@ EXCEPT !.update = 0]
       ELSE IF @.status = "active" THEN [@ EXCEPT !.status = "past_due"]
       ELSE [NoContract EXCEPT !.status = "canceled", !.plan = subs[s].plan]]
  /\ Tell({"subscription"}, s)
  /\ UNCHANGED <<account, sessions, late, billing, past, notifications>>

(* The period ends: with the subscription, or with the scheduled plan and  *)
(* a new invoice.                                                          *)
Renew(s, paid) ==
  LET plan == IF subs[s].schedule # 0 THEN subs[s].schedule ELSE subs[s].plan IN
  /\ subs[s].status = "active" /\ subs[s].paid /\ subs[s].update = 0
  /\ subs' = [subs EXCEPT ![s] =
       IF @.ends THEN [NoContract EXCEPT !.status = "canceled", !.plan = subs[s].plan]
       ELSE [@ EXCEPT !.plan = plan, !.schedule = 0, !.paid = paid]]
  /\ Tell({"subscription"}, s)
  /\ IF paid /\ ~subs[s].ends THEN Paid(s, plan)
       ELSE past' = [past EXCEPT !.lapsed = @ \cup {s}]
  /\ UNCHANGED <<account, sessions, late, billing, notifications>>

(* The hour of a key is over, for the row and for the session. *)
HourPasses(key) ==
  /\ key \notin late
  /\ \/ account.checkout.key = key
     \/ sessions[key].status # "none"
  /\ late' = late \cup {key}
  /\ sessions' = [sessions EXCEPT ![key].status = IF @ = "open" THEN "expired" ELSE @]
  /\ UNCHANGED <<account, subs, changes, sent, billing, past, notifications>>

GraceEnds ==
  /\ account.grace = "running"
  /\ account' = [account EXCEPT !.grace = "over"]
  /\ UNCHANGED <<billing, provider, notifications>>

-----------------------------------------------------------------------------
(* Checkout.                                                               *)

(* A request for plan starts, or starts over. *)
Asks(r, plan) ==
  /\ ~CompanyLocked
  /\ billing[r].phase = "idle" \/ (billing[r].phase = "asking" /\ billing[r].plan = plan)

(* A company with a subscription manages that one. *)
FindSubscription(r, plan, s) ==
  /\ Asks(r, plan) /\ s \in LiveSubs
  /\ account' = [account EXCEPT !.sub = s]
  /\ Ends(r)
  /\ UNCHANGED <<provider, notifications>>

(* A session that is open is used again, or refused for another plan; one  *)
(* that is complete waits for its notification.                            *)
Reused == account.checkout.ready /\ Timely /\ sessions[account.checkout.key].status # "expired"

AnswerCheckout(r) ==
  /\ Asks(r, billing[r].plan) /\ LiveSubs = {} /\ Reused
  /\ Ends(r)
  /\ UNCHANGED <<account, provider, notifications>>

(* "Persist operation key before HTTP: retry after a crash cannot create   *)
(* two sessions."                                                          *)
PrepareCheckout(r, plan, key) ==
  /\ Asks(r, plan) /\ LiveSubs = {} /\ ~Timely
  /\ sessions[key].status = "none" /\ key \notin late /\ account.checkout.key # key
  /\ account' = [account EXCEPT !.checkout =
       [key |-> key, ready |-> FALSE, plan |-> plan, timed |-> TRUE]]
  /\ Holds(r, [Waiting EXCEPT !.phase = "preparing", !.plan = plan])
  /\ UNCHANGED <<provider, notifications>>

(* With the lock: again after the commit, or while the key is still good.  *)
Proceeds(r, plan) ==
  \/ billing[r].phase = "preparing" /\ billing[r].plan = plan /\ ~CompanyLocked
  \/ Asks(r, plan) /\ LiveSubs = {} /\ ~Reused /\ Timely

(* Another plan is being prepared, or the checkout was cancelled. *)
RefuseCheckout(r, plan) ==
  /\ Proceeds(r, plan) /\ ~account.checkout.ready
  /\ account.checkout.plan # plan
  /\ Ends(r)
  /\ UNCHANGED <<account, provider, notifications>>

(* The key has a session by now, and the checkout starts over. *)
RestartCheckout(r, plan) ==
  /\ Proceeds(r, plan) /\ account.checkout.ready
  /\ account' = [account EXCEPT !.checkout.timed = FALSE]
  /\ Holds(r, [Waiting EXCEPT !.phase = "asking", !.plan = plan])
  /\ UNCHANGED <<sessions, subs, late, changes, sent, notifications>>
  /\ LetsGo({account.checkout.key})

(* Session.create answers a repeated key with the session it has. *)
Created(key, plan) ==
  sessions' = [sessions EXCEPT ![key] =
    IF @.status = "none"
      THEN [status |-> IF key \in late THEN "expired" ELSE "open", plan |-> plan]
      ELSE @]

CreateSession(r, plan) ==
  /\ Proceeds(r, plan) /\ ~account.checkout.ready /\ account.checkout.timed
  /\ account.checkout.plan = plan
  /\ Created(account.checkout.key, plan)
  /\ Holds(r, [Waiting EXCEPT !.phase = "creating", !.plan = plan])
  /\ UNCHANGED <<account, subs, late, changes, sent, past, notifications>>

(* A checkout that was only finished to be cancelled is cancelled next. *)
CommitSession(r) ==
  /\ billing[r].phase = "creating"
  /\ account' = [account EXCEPT !.checkout.ready = TRUE, !.checkout.timed = TRUE]
  /\ Holds(r, IF billing[r].clears THEN [Waiting EXCEPT !.phase = "clearing"] ELSE Waiting)
  /\ UNCHANGED <<provider, notifications>>

(* A session may exist whose name is not known. *)
InPreparation == account.checkout.key # NoKey /\ ~account.checkout.ready /\ Timely

(* A checkout in preparation is finished before it is cancelled: "Recover  *)
(* an API response lost after creation".                                   *)
CancelCheckout(r) ==
  /\ Begins(r) /\ LiveSubs = {} /\ InPreparation
  /\ Created(account.checkout.key, account.checkout.plan)
  /\ Holds(r, [Waiting EXCEPT !.phase = "creating", !.clears = TRUE,
                              !.plan = account.checkout.plan])
  /\ UNCHANGED <<account, subs, late, changes, sent, past, notifications>>

(* The session is closed at the provider, then forgotten; the process may  *)
(* stop in between.  A request that finished a checkout forgets whichever  *)
(* one is there when it has the lock again.                                *)
ClearCheckout(r, stops) ==
  LET key == account.checkout.key IN
  /\ ~CompanyLocked /\ key # NoKey
  /\ \/ billing[r].phase = "clearing"
     \/ billing[r].phase = "idle" /\ ~InPreparation
  /\ sessions' = [k \in CheckoutKeys |->
       IF account.checkout.ready /\ k = key /\ sessions[k].status = "open"
         THEN [sessions[k] EXCEPT !.status = "expired"] ELSE sessions[k]]
  /\ account' = IF stops THEN account ELSE [account EXCEPT !.checkout = NoCheckout]
  /\ Ends(r)
  /\ UNCHANGED <<subs, late, changes, sent, notifications>>
  /\ LetsGo(IF stops THEN {} ELSE {key})

-----------------------------------------------------------------------------
(* Reading the state of the provider.                                      *)

(* Mutant: an upgrade that is not paid is taken for an unpaid invoice.     *)
SyncedAtOnce(a, s, x) ==
  LET old == [a EXCEPT !.sub = s] IN
  IF x.status = "active" /\ x.paid /\ x.update = 0
    THEN [old EXCEPT !.plan = x.plan, !.status = "active", !.grace = "none"]
  ELSE IF x.status = "active" THEN [old EXCEPT !.status = "incomplete"]
  ELSE [old EXCEPT !.status = "cancelled"]

(* Mutant: the status is stored in the provider's words. *)
SyncedVerbatim(a, s, x) ==
  [a EXCEPT !.sub = s, !.status = IF x.update = 0 THEN x.status ELSE @]

(* The account after subscription s was read as x.  "The previous paid     *)
(* plan stays usable while the upgrade is unpaid"; "only customers with a  *)
(* previously paid subscription receive grace".                            *)
Synced(a, s, x) ==
  LET old == [a EXCEPT !.sub = s] IN
  CASE x.status = "active" /\ x.update # 0 -> old
    [] x.status = "active" /\ x.update = 0 /\ x.paid ->
         [old EXCEPT !.plan = x.plan, !.status = "active", !.grace = "none",
                     !.pending = IF @ = x.plan THEN 0 ELSE @]
    [] x.status = "active" /\ x.update = 0 /\ ~x.paid ->
         [old EXCEPT !.status = "incomplete"]
    [] x.status = "past_due" /\ a.status \in {"active", "past_due"} ->
         [old EXCEPT !.status = "past_due", !.grace = IF @ = "none" THEN "running" ELSE @]
    [] x.status = "past_due" /\ a.status \notin {"active", "past_due"} ->
         [old EXCEPT !.status = "incomplete"]
    [] OTHER ->
         [old EXCEPT !.status = IF x.status = "canceled" THEN "cancelled" ELSE "incomplete",
                     !.grace = "none"]

(* The one subscription that is alive, or the one the account knows. *)
Current == IF LiveSubs = {} THEN account.sub ELSE CHOOSE s \in LiveSubs : TRUE

Selectable == Cardinality(LiveSubs) <= 1

(* "Update state" and the reconciliation by an administrator. *)
SelectForUpdate(r) ==
  /\ Begins(r) /\ Selectable /\ Current # NoSubscription
  /\ Holds(r, [Waiting EXCEPT !.phase = "selected", !.sub = Current])
  /\ UNCHANGED <<account, provider, notifications>>

(* A notification that was recorded is a duplicate; one of a subscription  *)
(* that is not the current one is answered and changes nothing.            *)
Foreign(e) == e.kind = "subscription" /\ Current \notin {NoSubscription, e.sub}

IgnoreEvent(e) ==
  /\ ~CompanyLocked /\ e \notin recorded /\ Selectable /\ Foreign(e)
  /\ answered' = answered \cup {e}
  /\ UNCHANGED <<account, provider, billing, recorded, mails>>

(* Of a notification only the name of its object is used. *)
Named(e) ==
  IF e.kind = "subscription" \/ (e.kind = "checkout" /\ Current = NoSubscription)
    THEN e.sub ELSE Current

SelectForEvent(r, e) ==
  /\ Begins(r) /\ e \notin recorded /\ Selectable /\ ~Foreign(e)
  /\ Holds(r, [Waiting EXCEPT !.phase = "selected", !.sub = Named(e), !.event = e])
  /\ UNCHANGED <<account, provider, notifications>>

(* "Read current Stripe state, never overwrite it with an older event      *)
(* snapshot."                                                              *)
Retrieved(r) == subs[billing[r].sub]

RetrieveSubscription(r) ==
  /\ billing[r].phase = "selected" /\ billing[r].sub # NoSubscription
  /\ Holds(r, [billing[r] EXCEPT !.phase = "syncing", !.seen = Retrieved(r)])
  /\ UNCHANGED <<account, provider, notifications>>

(* The first invoice that is really paid is announced. *)
Announces(r, paid) == billing[r].event.kind = "invoice" /\ paid /\ ~account.noticed

(* The completion of a checkout, when it is that of the subscription, ends *)
(* the time of the checkout that the account has by then.                  *)
Completes(r) == billing[r].event.kind = "checkout" /\ billing[r].event.sub = billing[r].sub

(* The account after the transaction. *)
Reconciled(r) ==
  LET read == IF billing[r].sub = NoSubscription THEN account
              ELSE Synced(account, billing[r].sub, billing[r].seen) IN
  [read EXCEPT !.checkout.timed = @ /\ ~Completes(r),
               !.pending = IF billing[r].clears THEN 0 ELSE @]

(* "paid" is about the invoice that a notification names.  The mail goes   *)
(* out after the commit, if the process is still there.                    *)
CommitSync(r, paid, stops) ==
  LET e == billing[r].event IN
  /\ \/ billing[r].phase = "syncing"
     \/ billing[r].phase = "selected" /\ billing[r].sub = NoSubscription
  /\ account' = [Reconciled(r) EXCEPT !.noticed = @ \/ Announces(r, paid)]
  /\ answered' = IF e = NoEvent THEN answered ELSE answered \cup {e}
  /\ recorded' = IF e = NoEvent THEN recorded ELSE recorded \cup {e}
  /\ mails' = IF Announces(r, paid) /\ ~stops THEN mails + 1 ELSE mails
  /\ Ends(r)
  /\ UNCHANGED <<sessions, subs, late, changes, sent>>
  /\ LetsGo(IF Completes(r) THEN {account.checkout.key} \ {NoKey} ELSE {})

-----------------------------------------------------------------------------
(* Changing the plan.                                                      *)

(* The subscription can be changed: no upgrade is unpaid, and no change    *)
(* but the same one is scheduled.                                          *)
Changeable(plan) ==
  LET x == subs[account.sub] IN
  /\ account.sub # NoSubscription /\ x.status = "active" /\ x.update = 0
  /\ x.schedule # 0 => account.pending = plan

(* The quote is confirmed; the provider charges at once or waits.  The     *)
(* answer is committed like any other state of the subscription.           *)
Upgrade(r, plan, paid) ==
  LET s == account.sub IN
  /\ Begins(r) /\ Changeable(plan) /\ plan > subs[s].plan
  /\ subs' = [subs EXCEPT ![s] = IF paid THEN [@ EXCEPT !.plan = plan, !.paid = TRUE]
                                         ELSE [@ EXCEPT !.update = plan]]
  /\ Tell({"subscription"}, s)
  /\ IF paid THEN Paid(s, plan) ELSE UNCHANGED past
  /\ Holds(r, [Waiting EXCEPT !.phase = "syncing", !.sub = s, !.seen = subs'[s]])
  /\ UNCHANGED <<account, sessions, late, notifications>>

(* A downgrade is announced first. *)
RequestDowngrade(r, plan) ==
  /\ Begins(r) /\ Changeable(plan) /\ plan < subs[account.sub].plan
  /\ account' = [account EXCEPT !.pending = plan]
  /\ Holds(r, [Waiting EXCEPT !.phase = "scheduling", !.plan = plan])
  /\ UNCHANGED <<provider, notifications>>

(* With the lock again: schedule at the provider, and commit, unless the   *)
(* process stops in between.                                               *)
ScheduleDowngrade(r, stops) ==
  LET s == account.sub IN
  /\ billing[r].phase = "scheduling" /\ ~CompanyLocked
  /\ subs[s].status # "canceled"
  /\ subs' = [subs EXCEPT ![s].schedule = billing[r].plan]
  /\ Tell({"subscription"}, s)
  /\ account' = IF stops THEN account ELSE [account EXCEPT !.pending = billing[r].plan]
  /\ past' = [past EXCEPT !.cut = @ \/ stops]
  /\ Ends(r)
  /\ UNCHANGED <<sessions, late, notifications>>

Released(x) == [x EXCEPT !.schedule = 0]

(* Cancel at the end of the period, or resume; both release the schedule.  *)
CancelOrResume(r, cancel) ==
  LET s == account.sub IN
  /\ Begins(r) /\ s # NoSubscription /\ subs[s].status # "canceled"
  /\ subs' = [subs EXCEPT ![s] = [Released(@) EXCEPT !.ends = cancel]]
  /\ Tell({"subscription"}, s)
  /\ Holds(r, [Waiting EXCEPT !.phase = "syncing", !.sub = s, !.seen = subs'[s],
                              !.clears = TRUE])
  /\ UNCHANGED <<account, sessions, late, past, notifications>>

(* The process stops, or a call of the provider fails: the transaction is  *)
(* rolled back.                                                            *)
FailRequest(r) ==
  /\ billing[r].phase # "idle"
  /\ Ends(r)
  /\ UNCHANGED <<account, provider, notifications>>

-----------------------------------------------------------------------------

BillingInit ==
  /\ account = [sub |-> NoSubscription, plan |-> 0, checkout |-> NoCheckout, status |-> "trial",
                grace |-> "none", pending |-> 0, noticed |-> FALSE]
  /\ sessions = [k \in CheckoutKeys |-> [status |-> "none", plan |-> 0]]
  /\ subs = [s \in Subscriptions |-> NoContract]
  /\ late = {} /\ changes = 0 /\ sent = {} /\ answered = {} /\ recorded = {}
  /\ billing = [r \in BillingRequests |-> Waiting]
  /\ mails = 0
  /\ past = [paid |-> {}, settled |-> {}, lapsed |-> {}, doubled |-> FALSE, cut |-> FALSE]

ProviderNext ==
  \/ \E key \in CheckoutKeys :
       HourPasses(key) \/ \E s \in Subscriptions, paid \in BOOLEAN : PayCheckout(key, s, paid)
  \/ \E s \in Subscriptions :
       PayInvoice(s) \/ FailInvoice(s) \/ \E paid \in BOOLEAN : Renew(s, paid)
  \/ GraceEnds

CheckoutNext(r) ==
  \/ \E plan \in Plans :
       \/ \E s \in Subscriptions : FindSubscription(r, plan, s)
       \/ \E key \in CheckoutKeys : PrepareCheckout(r, plan, key)
       \/ RefuseCheckout(r, plan) \/ RestartCheckout(r, plan) \/ CreateSession(r, plan)
  \/ AnswerCheckout(r)
  \/ CommitSession(r)
  \/ CancelCheckout(r) \/ \E stops \in BOOLEAN : ClearCheckout(r, stops)

SyncNext(r) ==
  \/ SelectForUpdate(r) \/ RetrieveSubscription(r)
  \/ \E paid, stops \in BOOLEAN : CommitSync(r, paid, stops)
  \/ \E e \in sent : SelectForEvent(r, e)

ChangeNext(r) ==
  \/ \E plan \in Plans :
       RequestDowngrade(r, plan) \/ \E paid \in BOOLEAN : Upgrade(r, plan, paid)
  \/ \E stops \in BOOLEAN : ScheduleDowngrade(r, stops)
  \/ \E cancel \in BOOLEAN : CancelOrResume(r, cancel)

BillingNext ==
  \/ ProviderNext
  \/ \E e \in sent : IgnoreEvent(e)
  \/ \E r \in BillingRequests :
       CheckoutNext(r) \/ SyncNext(r) \/ ChangeNext(r) \/ FailRequest(r)

BillingSpec == BillingInit /\ [][BillingNext]_billingVars

-----------------------------------------------------------------------------

(* "Persist operation key before HTTP: retry after a crash cannot create   *)
(* two sessions": however often a checkout is repeated, stopped, cancelled *)
(* or answered too late, the customer can pay one session at most, unless  *)
(* the row let go of one: a checkout that ran at the same time started     *)
(* over, one that was being cancelled had been replaced, or the completion *)
(* of an older one arrived late.                                           *)
OneOpenSession ==
  ~past.doubled => Cardinality({k \in CheckoutKeys : sessions[k].status = "open"}) <= 1

(* Test test_checkout_is_reused_and_redirect_does_not_activate: a checkout *)
(* that is asked for again is the same checkout.                           *)
CheckoutIsReused == Cardinality({k \in CheckoutKeys : sessions[k].status = "open"}) <= 1

(* When every notification is answered, one more look at the provider      *)
(* would change nothing: late, repeated, reordered and ignored ones leave  *)
(* the account at the present state.                                       *)
AccountIsCurrent ==
  sent = answered /\ ~CompanyLocked /\ Selectable /\ Current # NoSubscription =>
    Synced(account, Current, subs[Current]) = account

(* The plan a company uses as active was paid: not one that is scheduled,  *)
(* chosen in a checkout, renewed without payment or waiting for it.        *)
ActivePlanWasPaid == account.status = "active" => account.plan \in past.paid

(* A company that pays keeps its access while an upgrade is unpaid, dropped*)
(* or changed again: only a renewal that was not paid, the end, or a first *)
(* payment that was missing when it was asked for takes it away.           *)
PaidAccessIsKept ==
  [][account.status = "active" /\ account'.status # "active" =>
       \/ account'.sub \in past.lapsed \/ account'.sub \notin past.settled
       \/ \E r \in BillingRequests :
            billing[r].sub = account'.sub /\ billing[r].seen.status = "incomplete"]_billingVars

(* The seven days after a failed renewal do not start again.               *)
GraceIsGivenOnce ==
  [][account.grace = "over" /\ account'.status = "past_due" => account'.grace = "over"]_billingVars

(* A downgrade that will happen at the renewal is shown as pending, unless *)
(* the process stopped before it could say so, or two sessions were paid.  *)
ScheduleIsAnnounced ==
  ~past.cut /\ ~past.doubled => \A s \in LiveSubs :
    account.sub = s /\ subs[s].schedule \notin {0, subs[s].plan} =>
      account.pending = subs[s].schedule

(* The operator hears of a company's first payment at most once.           *)
FirstPaymentIsMailedOnce == mails <= 1

(* What the account, the mails and the page say agrees with what the       *)
(* company bought and paid.                                                *)
AccountFollowsPayments ==
  AccountIsCurrent /\ ActivePlanWasPaid /\ ScheduleIsAnnounced /\ FirstPaymentIsMailedOnce

(* No notification takes more from a company that pays, or gives more to   *)
(* one that does not, than the renewal it is about.                        *)
AccessFollowsPayments == PaidAccessIsKept /\ GraceIsGivenOnce

(* A company is asked for its money once, and has what it paid for.         *)
PaidOnce == OneOpenSession /\ AccountFollowsPayments

=============================================================================
