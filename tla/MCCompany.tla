------------------------------ MODULE MCCompany ------------------------------
(* Instances, for TLC, of the modules about a company's subscription, its  *)
(* accounts, what tells them apart, and the upgrade of the database they   *)
(* are in.                                                                 *)
(* They share no variable: in a behaviour one part takes all of the steps, *)
(* and the others stay as they begin.                                      *)
EXTENDS Billing, Accounts, Identities, Migrations, TLC

CONSTANTS
  x1, x2, y1, y2,
  Worker             (* The one request where two are not needed.          *)

ASSUME CompanyAssumption == Worker \in BillingRequests

VARIABLE part

Symmetry == Permutations({x1, x2}) \cup Permutations({y1, y2})

(* A company that bought its subscription. *)
Subscribed ==
  \E s \in Subscriptions, p \in Plans :
    /\ account = [sub |-> s, plan |-> p, checkout |-> NoCheckout, status |-> "active",
                  grace |-> "none", pending |-> 0, noticed |-> TRUE]
    /\ subs = [x \in Subscriptions |->
                 IF x = s THEN [NoContract EXCEPT !.status = "active", !.plan = p, !.paid = TRUE]
                 ELSE NoContract]
    /\ past = [paid |-> {p}, settled |-> {s}, lapsed |-> {}, doubled |-> FALSE, cut |-> FALSE]
    /\ sessions = [k \in CheckoutKeys |-> [status |-> "none", plan |-> 0]]
    /\ late = {} /\ changes = 0 /\ sent = {} /\ answered = {} /\ recorded = {}
    /\ billing = [r \in BillingRequests |-> Waiting]
    /\ mails = 1

(* Two requests buy; the provider changes little meanwhile. *)
BuyingNext ==
  \/ \E key \in CheckoutKeys :
       \/ HourPasses(key)
       \/ \E s \in Subscriptions, paid \in BOOLEAN : PayCheckout(key, s, paid) /\ changes' <= 2
  \/ \E e \in sent : IgnoreEvent(e)
  \/ SyncNext(Worker)
  \/ \E r \in BillingRequests : CheckoutNext(r) \/ FailRequest(r)

(* One request follows a subscription that the provider changes. *)
ManagingNext ==
  \/ ProviderNext
  \/ \E e \in sent : IgnoreEvent(e)
  \/ CheckoutNext(Worker) \/ SyncNext(Worker) \/ ChangeNext(Worker) \/ FailRequest(Worker)

-----------------------------------------------------------------------------

companyVars == <<part, billingVars, accountVars, identityVars, migrationVars>>

(* No upgrade happens. *)
Upgraded ==
  /\ markers = {} /\ built = {} /\ content = <<>> /\ repeated = FALSE /\ upgrader = <<>>
  /\ servers = {} /\ origin = <<>> /\ given = {} /\ cut = FALSE

CompanyInit ==
  /\ part \in {"buying", "managing", "accounts", "identities", "upgrade"}
  /\ IF part = "managing" THEN Subscribed ELSE BillingInit
  /\ AccountsInit
  /\ IdentitiesInit
  /\ IF part = "upgrade" THEN MigrationsInit ELSE Upgraded
  /\ part # "accounts" =>
       login.role = "user" /\ login.hash = 0 /\ login.email = CHOOSE a \in Mailboxes : TRUE

BuyingPart ==
  /\ part = "buying" /\ BuyingNext
  /\ UNCHANGED <<part, accountVars, identityVars, migrationVars>>

ManagingPart ==
  /\ part = "managing" /\ ManagingNext
  /\ UNCHANGED <<part, accountVars, identityVars, migrationVars>>

AccountsPart ==
  /\ part = "accounts" /\ AccountsNext
  /\ UNCHANGED <<part, billingVars, identityVars, migrationVars>>

IdentitiesPart ==
  /\ part = "identities" /\ IdentitiesNext
  /\ UNCHANGED <<part, billingVars, accountVars, migrationVars>>

UpgradePart ==
  /\ part = "upgrade" /\ MigrationsNext
  /\ UNCHANGED <<part, billingVars, accountVars, identityVars>>

CompanyNext == BuyingPart \/ ManagingPart \/ AccountsPart \/ IdentitiesPart \/ UpgradePart

CompanySpec == CompanyInit /\ [][CompanyNext]_companyVars

(* The type invariant of the run. *)
CompanyTypeOK ==
  /\ BillingTypeOK /\ AccountsTypeOK /\ IdentitiesTypeOK
  /\ part = "upgrade" => MigrationsTypeOK

==============================================================================
