------------------------------- MODULE Intake -------------------------------
(***************************************************************************)
(* How orders get in: typed at the desk, from a file that is uploaded,     *)
(* previewed and confirmed, by batches of a management system, and by the  *)
(* events of a shop.  The system repeats a batch whose answer was lost, and*)
(* the last one may arrive late; the operator corrects orders and plans    *)
(* them meanwhile; the month has a quota that all of them share.           *)
(*                                                                         *)
(* Every request of a source locks the company, then the source, then the  *)
(* orders, until it commits.  An order has one field.                      *)
(***************************************************************************)
EXTENDS Naturals, FiniteSets

CONSTANTS
  SourceKinds,       (* Subset of "file", "api", "shop".                   *)
  Externals,         (* Identifiers of the source.                         *)
  Contents,          (* What the field may hold.                           *)
  NoContent,
  Documents,         (* The rows of a file or a batch.                     *)
  Runs,              (* OrderImportRun rows of uploads and samples.        *)
  Batches,           (* Batches and events, by their identifiers.          *)
  Quota,             (* max_orders_per_month                               *)
  LastMonth,         (* Bound: months.                                     *)
  MaxTouched,        (* Bound: versions of an order.                       *)
  MaxSettings        (* Bound: versions of the source.                     *)

ASSUME IntakeAssumption ==
  /\ SourceKinds \subseteq {"file", "api", "shop"}
  /\ NoContent \notin Contents
  /\ Documents \subseteq [Externals -> Contents \cup {NoContent}]
  /\ \A rows \in Documents : IsFiniteSet({e \in Externals : rows[e] # NoContent})
  /\ Quota \in Nat /\ LastMonth \in Nat /\ MaxTouched \in Nat \ {0} /\ MaxSettings \in Nat

VARIABLES
  source,            (* The OrderSource row.                               *)
  order,             (* Its orders.                                        *)
  run, receipt,      (* Import runs: of the page, of the sender.           *)
  month, counted,    (* OrderMonthlyUsage of the present month.            *)
  typed              (* Orders of the desk in the present month.           *)

intakeVars == <<source, order, run, receipt, month, counted, typed>>

-----------------------------------------------------------------------------

(* "mapping" is history: how often the columns were associated. *)
Source == [kind : SourceKinds, status : {"draft", "active", "paused", "removed", "deleted"},
           version : 0..MaxSettings + 1, validated : BOOLEAN, key : BOOLEAN, mapping : 0..MaxSettings]

(* "version" 0 is no order; "said" is ingested_payload, "value" the field  *)
(* of operational_data, "free" the conditions of editable.  "corrected" is *)
(* history: a correction that the source has not taken over.               *)
Intaken == [version : 0..MaxTouched, said : Contents \cup {NoContent}, value : Contents \cup {NoContent},
            free : BOOLEAN, month : 0..LastMonth, corrected : Contents \cup {NoContent}]

NotTaken == [version |-> 0, said |-> NoContent, value |-> NoContent, free |-> TRUE, month |-> 0,
             corrected |-> NoContent]

Actions == {"none", "new", "updated", "unchanged", "invalid"}

Run == [status : {"none", "uploaded", "preview_invalid", "preview_ready", "failed", "completed"},
        rows : Documents \cup {NoContent}, report : [Externals -> Actions],
        expected : [Externals -> 0..MaxTouched], version : 0..MaxSettings + 1, mapping : 0..MaxSettings]

NotRun == [status |-> "none", rows |-> NoContent, report |-> [e \in Externals |-> "none"],
           expected |-> [e \in Externals |-> 0], version |-> 0, mapping |-> 0]

(* "times" is history: how often the batch was executed. *)
Receipt == [status : {"none", "failed", "completed"}, times : Nat]

IntakeTypeOK ==
  /\ source \in Source
  /\ order \in [Externals -> Intaken]
  /\ run \in [Runs -> Run]
  /\ receipt \in [Batches -> Receipt]
  /\ month \in 0..LastMonth /\ counted \in Nat /\ typed \in Nat
  /\ \A e \in Externals : order[e].version = 0 => order[e] = NotTaken

Reported(rows) == {e \in Externals : rows[e] # NoContent}

(* An order as the source wants it. *)
ActionOf(e, content) ==
  CASE order[e].version = 0       -> "new"
    [] order[e].said = content    -> "unchanged"
    [] order[e].version > 0 /\ order[e].said # content /\ ~order[e].free -> "invalid"
    [] OTHER                      -> "updated"

(* preflight *)
Report(rows) == [e \in Externals |-> IF rows[e] = NoContent THEN "none" ELSE ActionOf(e, rows[e])]

Valid(report) == \A e \in Externals : report[e] # "invalid"

Versions == [e \in Externals |-> order[e].version]

New(report) == Cardinality({e \in Externals : report[e] = "new"})

(* consume_order_quota *)
WithinQuota(n) == n = 0 \/ counted + n <= Quota

(* "operator corrections survive updates": a field that the operator left  *)
(* as the source had it follows the source.                                *)
Merged(o, content) ==
  [o EXCEPT !.value = IF @ = o.said THEN content ELSE @, !.said = content, !.version = @ + 1,
            !.corrected = IF @ = content THEN NoContent ELSE @]

Acquired(content) ==
  [NotTaken EXCEPT !.version = 1, !.said = content, !.value = content, !.month = month]

(* apply_orders *)
Applied(rows, report) ==
  [e \in Externals |->
     CASE report[e] = "new"     -> Acquired(rows[e])
       [] report[e] = "updated" -> Merged(order[e], rows[e])
       [] OTHER                 -> order[e]]


(* execute: "breaks" is an error between the orders, which takes back the  *)
(* savepoint and leaves a failed run.                                      *)
Execute(rows, report, breaks) ==
  IF breaks \/ ~Valid(report)
    THEN UNCHANGED <<order, counted>>
    ELSE /\ \A e \in Externals : report[e] = "updated" => order[e].version < MaxTouched
         /\ order' = Applied(rows, report)
         /\ counted' = counted + New(report)

Ended(report, breaks) == IF breaks \/ ~Valid(report) THEN "failed" ELSE "completed"

-----------------------------------------------------------------------------
(* The page of a source.                                                   *)

Settings(status) ==
  /\ source.status \notin {"removed", "deleted"} /\ source.version < MaxSettings
  /\ source' = [source EXCEPT !.status = status, !.version = @ + 1]

(* upload, sample: stage. *)
Upload(r, rows) ==
  /\ source.status \in {"draft", "active"} /\ source.kind # "shop"
  /\ run[r].status = "none"
  /\ run' = [run EXCEPT ![r] = [NotRun EXCEPT !.status = "uploaded", !.rows = rows, !.version = source.version]]
  /\ UNCHANGED <<source, order, receipt, month, counted, typed>>

PreviewRun(r) ==
  LET report == Report(run[r].rows) IN
  /\ source.status \in {"draft", "active"} /\ source.mapping > 0
  /\ run[r].status \notin {"none", "completed"} /\ run[r].rows # NoContent
  /\ run' = [run EXCEPT ![r].report = report, ![r].expected = Versions, ![r].version = source.version,
                        ![r].mapping = source.mapping,
                        ![r].status = IF Valid(report) THEN "preview_ready" ELSE "preview_invalid"]
  /\ UNCHANGED <<source, order, receipt, month, counted, typed>>

Configure ==
  /\ source.kind # "shop" /\ source.status \notin {"removed", "deleted"}
  /\ source.version < MaxSettings /\ source.mapping < MaxSettings
  /\ source' = [source EXCEPT !.status = "draft", !.validated = FALSE, !.mapping = @ + 1, !.version = @ + 1]
  /\ UNCHANGED <<order, run, receipt, month, counted, typed>>

ActivateSource(r) ==
  /\ source.kind # "shop"
  /\ run[r].rows # NoContent /\ run[r].status = "preview_ready" /\ run[r].version = source.version
  /\ source.status \notin {"removed", "deleted"} /\ source.version < MaxSettings
  /\ source' = [source EXCEPT !.status = "active", !.validated = TRUE, !.version = @ + 1]
  /\ run' = [run EXCEPT ![r].version = source.version + 1]
  /\ UNCHANGED <<order, receipt, month, counted, typed>>

ResumeSource ==
  /\ source.validated /\ Settings("active")
  /\ UNCHANGED <<order, run, receipt, month, counted, typed>>

PauseSource ==
  /\ Settings("paused")
  /\ UNCHANGED <<order, run, receipt, month, counted, typed>>

(* remove, revoke: the credential goes too. *)
CutSource(status) ==
  /\ source.kind # "shop" \/ status = "removed"
  /\ source.status \notin {"removed", "deleted"} /\ source.version < MaxSettings
  /\ source' = [source EXCEPT !.status = status, !.key = FALSE, !.version = @ + 1]
  /\ UNCHANGED <<order, run, receipt, month, counted, typed>>

RotateKey ==
  /\ source.kind = "api" /\ source.status \in {"draft", "active"} /\ source.version < MaxSettings
  /\ source' = [source EXCEPT !.key = TRUE, !.version = @ + 1]
  /\ UNCHANGED <<order, run, receipt, month, counted, typed>>

(* The runs go with the source; its orders stay. *)
DeleteSource ==
  /\ source.status # "deleted"
  /\ source' = [source EXCEPT !.status = "deleted", !.key = FALSE]
  /\ run' = [r \in Runs |-> NotRun]
  /\ receipt' = [b \in Batches |-> [receipt[b] EXCEPT !.status = "none"]]
  /\ UNCHANGED <<order, month, counted, typed>>

RunExpires(r) ==
  /\ run[r].rows # NoContent
  /\ run' = [run EXCEPT ![r].rows = NoContent]
  /\ UNCHANGED <<source, order, receipt, month, counted, typed>>

(* Mutant: the orders are those of now. *)
StillAsPreviewedNow(r) == TRUE

(* "Ordine cambiato dopo l'anteprima": a row whose order changed is wrong. *)
StillAsPreviewed(r) == \A e \in Reported(run[r].rows) : run[r].expected[e] = order[e].version

(* commit_file, of a file.  A quota that is exceeded takes everything back.*)
ConfirmRun(r, breaks) ==
  LET report == Report(run[r].rows)
      fails == breaks \/ ~StillAsPreviewed(r) IN
  /\ source.status = "active" /\ source.kind = "file"
  /\ run[r].rows # NoContent /\ run[r].status = "preview_ready" /\ run[r].version = source.version
  /\ fails \/ ~Valid(report) \/ WithinQuota(New(report))
  /\ Execute(run[r].rows, report, fails)
  /\ run' = [run EXCEPT ![r].status = Ended(report, fails),
                        ![r].rows = IF Ended(report, fails) = "completed" THEN NoContent ELSE @]
  /\ UNCHANGED <<source, receipt, month, typed>>

-----------------------------------------------------------------------------
(* What senders send, any number of times.                                 *)

(* A batch that is known is answered from its row, or refused if its       *)
(* content differs.                                                        *)
Fresh(b) == receipt[b].status = "none"

Received(b, status) == receipt' = [receipt EXCEPT ![b] = [status |-> status, times |-> @.times + 1]]

(* acquire, for a batch that is new; without room in the quota nothing is  *)
(* remembered of it.                                                       *)
Acquire(b, rows, breaks) ==
  LET report == Report(rows) IN
  /\ source.kind = "api" /\ source.status = "active" /\ source.key
  /\ Fresh(b)
  /\ breaks \/ ~Valid(report) \/ WithinQuota(New(report))
  /\ Execute(rows, report, breaks)
  /\ Received(b, Ended(report, breaks))
  /\ UNCHANGED <<source, run, month, typed>>

(* receive, of a connector: "a persisted business error is visible in      *)
(* history, not retried as a transport failure".                           *)
Receive(b, e, content, breaks) ==
  LET rows == [x \in Externals |-> IF x = e THEN content ELSE NoContent]
      report == Report(rows)
      fails == breaks \/ ~WithinQuota(New(report)) IN
  /\ source.kind = "shop" /\ source.status = "active"
  /\ Fresh(b)
  /\ Execute(rows, report, fails)
  /\ Received(b, Ended(report, fails))
  /\ UNCHANGED <<source, run, month, typed>>

-----------------------------------------------------------------------------
(* The desk.                                                               *)

(* create_order *)
TypeOrder ==
  /\ WithinQuota(1)
  /\ typed' = typed + 1 /\ counted' = counted + 1
  /\ UNCHANGED <<source, order, run, receipt, month>>

(* update_order of the version that the operator saw. *)
CorrectOrder(e, content) ==
  /\ order[e].version \in 1..MaxTouched - 1 /\ order[e].free /\ content # order[e].value
  /\ order' = [order EXCEPT ![e].value = content, ![e].version = @ + 1,
                            ![e].corrected = IF content = order[e].said THEN NoContent ELSE content]
  /\ UNCHANGED <<source, run, receipt, month, counted, typed>>

(* A route takes the order, or gives it back. *)
PlanOrder(e) ==
  /\ order[e].version \in 1..MaxTouched - 1
  /\ order' = [order EXCEPT ![e].free = ~@, ![e].version = @ + 1]
  /\ UNCHANGED <<source, run, receipt, month, counted, typed>>

NextMonth ==
  /\ month < LastMonth
  /\ month' = month + 1 /\ counted' = 0 /\ typed' = 0
  /\ UNCHANGED <<source, order, run, receipt>>

-----------------------------------------------------------------------------

IntakeInit ==
  /\ source \in [kind : SourceKinds, status : {"draft", "active"}, version : {0}, validated : BOOLEAN,
                 key : {FALSE}, mapping : {0}]
  /\ source.status = "active" <=> source.kind = "shop"
  /\ source.validated <=> source.kind = "shop"
  /\ order = [e \in Externals |-> NotTaken]
  /\ run = [r \in Runs |-> NotRun]
  /\ receipt = [b \in Batches |-> [status |-> "none", times |-> 0]]
  /\ month = 0 /\ counted = 0 /\ typed = 0

PageNext ==
  \/ Configure \/ ResumeSource \/ PauseSource \/ RotateKey \/ DeleteSource
  \/ \E status \in {"removed", "paused"} : CutSource(status)
  \/ \E r \in Runs :
       \/ PreviewRun(r) \/ ActivateSource(r) \/ RunExpires(r)
       \/ \E rows \in Documents : Upload(r, rows)
       \/ \E breaks \in BOOLEAN : ConfirmRun(r, breaks)

SenderNext ==
  \E b \in Batches, breaks \in BOOLEAN :
    \/ \E rows \in Documents : Acquire(b, rows, breaks)
    \/ \E e \in Externals, content \in Contents : Receive(b, e, content, breaks)

DeskNext ==
  \/ TypeOrder \/ NextMonth
  \/ \E e \in Externals :
       PlanOrder(e) \/ \E content \in Contents : CorrectOrder(e, content)

IntakeNext == PageNext \/ SenderNext \/ DeskNext

IntakeSpec == IntakeInit /\ [][IntakeNext]_intakeVars

-----------------------------------------------------------------------------

(* What the operator corrected stays as he wrote it, whichever file, batch *)
(* or event brings the order again and in whatever order, until the source *)
(* says the same.                                                          *)
CorrectionsSurvive ==
  \A e \in Externals : order[e].corrected # NoContent => order[e].value = order[e].corrected

(* The use of the month is the number of orders that got in, from wherever:*)
(* none is counted twice, for an update, or after a failure, and together  *)
(* they never exceed the quota.                                            *)
QuotaCountsOrders ==
  /\ counted = typed + Cardinality({e \in Externals : order[e].version > 0 /\ order[e].month = month})
  /\ counted <= Quota

(* A batch or an event is executed once, also when an earlier one arrives  *)
(* again after a later one.                                                *)
BatchesApplyOnce == \A b \in Batches : receipt[b].times <= 1

(* A run does to the orders what its preview said, read with the columns of*)
(* the preview.                                                            *)
PreviewIsImported ==
  [][\A r \in Runs : run[r].status # "completed" /\ run'[r].status = "completed" =>
       /\ run[r].report = Report(run[r].rows)
       /\ run[r].mapping = source.mapping]_intakeVars

(* Orders that get in are counted, applied and merged once, whatever is    *)
(* repeated, refused or corrected on the way.                              *)
IntakeIsSound == CorrectionsSurvive /\ QuotaCountsOrders /\ BatchesApplyOnce

(* What an import, a file or a repeated batch does to the orders is what    *)
(* was shown, once.                                                         *)
OrdersComeInAsShown == []IntakeIsSound /\ PreviewIsImported

=============================================================================
