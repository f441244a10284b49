----------------------------- MODULE Migrations -----------------------------
(***************************************************************************)
(* The upgrade of a database, and the servers that start on it.            *)
(*                                                                         *)
(* Every process of a release upgrades the schema before its server starts.*)
(* The steps are versions that are recorded in the transaction that makes  *)
(* them, one at a time, under an advisory lock; the first of them, for     *)
(* databases that are older than the versions, is a row of transactions    *)
(* with a record at the end.  A process can die between any two, and the   *)
(* next one goes on from what it finds.                                    *)
(*                                                                         *)
(* A stage is one transaction.  Those that only add tables, columns or     *)
(* indexes differ in nothing; those that write what companies entered are  *)
(* modelled by what they write.  The vehicles are those of one company that*)
(* have the same plate, in several spellings.                              *)
(***************************************************************************)
EXTENDS Naturals, Sequences

CONSTANTS
  Upgraders,         (* Processes that upgrade.                            *)
  OldRoutes,         (* Routes that were driven before the versions.       *)
  Trucks             (* Vehicles.                                          *)

VARIABLES
  markers,           (* The table schema_migrations.                       *)
  built,             (* The stages whose tables and columns are there.     *)
  content,           (* What companies have in them.                       *)
  repeated,          (* Delivery statuses are there twice.                 *)
  upgrader,          (* What each process has read, and where it is.       *)
  servers,           (* The releases whose server runs.                    *)
  origin,            (* History: the settings before any upgrade.          *)
  given,             (* History: the routes that had no owner.             *)
  cut                (* History: a process died between adding the agents' *)
                     (* column and filling it.                             *)

migrationVars == <<markers, built, content, repeated, upgrader, servers, origin, given, cut>>

-----------------------------------------------------------------------------

LegacyStages == <<"tables", "preferences", "initialise", "agents", "fill", "usage", "adopt", "harden">>

Stages == LegacyStages \o
  <<"legacy", "evidence", "positions", "transfers", "orders", "plates", "quota", "drafts",
    "tutor", "columns">>

Releases == {"earlier", "later"}

(* The last stage that a release knows. *)
LastStage(release) == IF release = "earlier" THEN Len(Stages) - 2 ELSE Len(Stages)

KnownStages(release) == {Stages[i] : i \in 1..LastStage(release)}

(* A stage of the first version is recorded by the stage "legacy", and     *)
(* "positions", which databases of today get on the way, by the next.      *)
RecordedAs(stage) ==
  IF \E i \in DOMAIN LegacyStages : LegacyStages[i] = stage THEN "legacy"
  ELSE IF stage = "positions" THEN "transfers" ELSE stage

Spellings == {"clean", "spaced", "lower", "other"}

(* "usage" are the routes that count, "counted" says that they were looked *)
(* for and "monthly" that the orders of each month were.                   *)
Content ==
  [preferences : {"absent", "pending", "default", "chosen"}, agents : {"absent", "off", "on"},
   owned : SUBSET OldRoutes, counted : BOOLEAN, usage : SUBSET OldRoutes,
   plate : [Trucks -> Spellings], indexed : BOOLEAN, monthly : BOOLEAN,
   tutor : {"active", "closed", "completed"}]

Asleep == [phase |-> "idle", release |-> "later", applied |-> {}, at |-> 0]

Upgrader ==
  [phase : {"idle", "waiting", "locked", "upgrading"}, release : Releases,
   applied : SUBSET {Stages[i] : i \in DOMAIN Stages}, at : 0..Len(Stages)]

MigrationsTypeOK ==
  /\ markers \subseteq {Stages[i] : i \in DOMAIN Stages}
  /\ built \subseteq {Stages[i] : i \in DOMAIN Stages}
  /\ content \in Content /\ repeated \in BOOLEAN /\ cut \in BOOLEAN
  /\ upgrader \in [Upgraders -> Upgrader]
  /\ servers \subseteq Releases /\ given \subseteq OldRoutes

-----------------------------------------------------------------------------
(* An upgrade.                                                             *)

BeginUpgrade(u, release) ==
  /\ upgrader[u] = Asleep
  /\ upgrader' = [upgrader EXCEPT ![u] = [Asleep EXCEPT !.phase = "waiting", !.release = release]]
  /\ UNCHANGED <<markers, built, content, repeated, servers, origin, given, cut>>

(* "A dedicated session lock serializes complete upgrades across           *)
(* deployments/workers."                                                   *)
LockUpgrades(u) ==
  /\ upgrader[u].phase = "waiting"
  /\ \A other \in Upgraders : upgrader[other].phase \notin {"locked", "upgrading"}
  /\ upgrader' = [upgrader EXCEPT ![u].phase = "locked"]
  /\ UNCHANGED <<markers, built, content, repeated, servers, origin, given, cut>>

(* _preflight *)
Preflight == ~repeated

Pending(stage, applied) == RecordedAs(stage) \notin applied

(* The first pending stage after another; 0 when there is none.            *)
NextStage(release, applied, i) ==
  LET later == {j \in (i + 1)..LastStage(release) : Pending(Stages[j], applied)} IN
  IF later = {} THEN 0 ELSE CHOOSE j \in later : \A k \in later : j <= k

Moved(u, i) == IF i = 0 THEN Asleep ELSE [upgrader[u] EXCEPT !.phase = "upgrading", !.at = i]

(* What is applied is read once, under the lock. *)
ReadMarkers(u) ==
  /\ upgrader[u].phase = "locked" /\ Preflight
  /\ LET next == NextStage(upgrader[u].release, markers, 0) IN
     upgrader' = [upgrader EXCEPT ![u] = IF next = 0 THEN Asleep
                                         ELSE [@ EXCEPT !.phase = "upgrading", !.applied = markers, !.at = next]]
  /\ UNCHANGED <<markers, built, content, repeated, servers, origin, given, cut>>

At(u, stage) == upgrader[u].phase = "upgrading" /\ Stages[upgrader[u].at] = stage

(* A transaction is committed with its record, and the next stage begins.  *)
Recorded(stage) ==
  IF stage \in {"positions"} \cup {LegacyStages[i] : i \in DOMAIN LegacyStages} THEN markers
  ELSE markers \cup {stage}

Commit(u, new) ==
  LET i == upgrader[u].at IN
  /\ markers' = Recorded(Stages[i])
  /\ built' = built \cup {Stages[i]}
  /\ content' = new
  /\ upgrader' = [upgrader EXCEPT ![u] = Moved(u, NextStage(@.release, @.applied, i))]
  /\ UNCHANGED <<repeated, servers, origin, cut>>

(* Tables, columns and indexes that are missing are added; the first       *)
(* version is recorded when all of its stages are done.                    *)
BuildVersion(u) ==
  /\ \E stage \in {"legacy", "evidence", "positions", "transfers", "orders"} : At(u, stage)
  /\ Commit(u, content) /\ UNCHANGED given

BuildColumns(u) ==
  /\ \E stage \in {"drafts", "columns"} : At(u, stage)
  /\ Commit(u, content) /\ UNCHANGED given

-----------------------------------------------------------------------------
(* The first version: what older databases lack.                           *)

(* migrate_database: every table and column, each in a transaction of its  *)
(* own, if it is missing.                                                  *)
BuildTables(u) ==
  /\ At(u, "tables")
  /\ Commit(u, content) /\ UNCHANGED given

(* Also there: the preferences that all companies have; "una sola        *)
(* volta": those that are not marked as initialised are.                   *)
AddPreferences(u) ==
  /\ At(u, "preferences")
  /\ Commit(u, [content EXCEPT !.preferences = IF @ = "absent" THEN "pending" ELSE @])
  /\ UNCHANGED given

(* Mutant: each upgrade initialises them. *)
InitialiseAgain(u) ==
  /\ At(u, "initialise")
  /\ Commit(u, [content EXCEPT !.preferences = "default"])
  /\ UNCHANGED given

InitialisePreferences(u) ==
  /\ At(u, "initialise")
  /\ Commit(u, [content EXCEPT !.preferences = IF @ = "pending" THEN "default" ELSE @])
  /\ UNCHANGED given

(* The column of the agents is filled for companies that have some, by the *)
(* process that has added it.                                              *)
AddAgents(u) ==
  /\ At(u, "agents")
  /\ IF content.agents = "absent" THEN Commit(u, [content EXCEPT !.agents = "off"])
     ELSE /\ upgrader' = [upgrader EXCEPT ![u].at = @ + 2]
          /\ built' = built \cup {"agents", "fill"}
          /\ UNCHANGED <<markers, content, repeated, servers, origin, cut>>
  /\ UNCHANGED given

FillAgents(u) ==
  /\ At(u, "fill")
  /\ Commit(u, [content EXCEPT !.agents = "on"]) /\ UNCHANGED given

(* backfill_started_routes: once; a route without an owner counts for none.*)
BackfillUsage(u) ==
  /\ At(u, "usage")
  /\ Commit(u, [content EXCEPT !.usage = IF content.counted THEN @ ELSE @ \cup content.owned,
                               !.counted = TRUE])
  /\ UNCHANGED given

(* ensure_default_user: "nessuna tabella tenant resta senza proprietario". *)
AdoptRows(u) ==
  /\ At(u, "adopt")
  /\ given' = given \cup (OldRoutes \ content.owned)
  /\ Commit(u, [content EXCEPT !.owned = OldRoutes])

(* harden_tenant_schema: user_id becomes NOT NULL, and plates get a unique *)
(* index if they are distinct.                                             *)
Clean == \A t, s \in Trucks : t # s => content.plate[t] # content.plate[s]

HardenSchema(u) ==
  /\ At(u, "harden") /\ content.owned = OldRoutes
  /\ Commit(u, [content EXCEPT !.indexed = @ \/ Clean]) /\ UNCHANGED given

-----------------------------------------------------------------------------
(* The later versions that write data.                                     *)

(* "Stesso formato usato oggi al salvataggio. Se due mezzi dell'azienda    *)
(* collidono, restano invariati": in whatever order the rows are read.     *)
Raw(t) == content.plate[t] \in {"spaced", "lower"}

NormalisePlates(u) ==
  /\ At(u, "plates")
  /\ \/ /\ (\E t \in Trucks : content.plate[t] = "clean") \/ (\A t \in Trucks : ~Raw(t))
        /\ Commit(u, content)
     \/ /\ \A t \in Trucks : content.plate[t] # "clean"
        /\ \E t \in Trucks : Raw(t) /\ Commit(u, [content EXCEPT !.plate[t] = "clean"])
  /\ UNCHANGED given

(* The orders of each month. *)
CountOrders(u) ==
  /\ At(u, "quota")
  /\ Commit(u, [content EXCEPT !.monthly = TRUE]) /\ UNCHANGED given

(* The tutor is not for companies that have a route, as this one has. *)
CloseTutor(u) ==
  /\ At(u, "tutor")
  /\ Commit(u, [content EXCEPT !.tutor = IF @ = "active" THEN "completed" ELSE @])
  /\ UNCHANGED given

-----------------------------------------------------------------------------
(* Faults.                                                                 *)

(* The process dies, or a statement fails: the lock goes with its session. *)
DieUpgrading(u) ==
  /\ upgrader[u].phase # "idle"
  /\ upgrader' = [upgrader EXCEPT ![u] = Asleep]
  /\ cut' = (cut \/ At(u, "fill"))
  /\ UNCHANGED <<markers, built, content, repeated, servers, origin, given>>

(* "Riconciliare le evidenze prima della migrazione". *)
ReconcileStatuses ==
  /\ repeated /\ repeated' = FALSE
  /\ UNCHANGED <<markers, built, content, upgrader, servers, origin, given, cut>>

-----------------------------------------------------------------------------
(* Servers.                                                                *)

(* require_current_schema *)
RequireCurrentSchema(release) == Stages[LastStage(release)] \in markers

StartServer(release) ==
  /\ release \notin servers /\ RequireCurrentSchema(release)
  /\ servers' = servers \cup {release}
  /\ UNCHANGED <<markers, built, content, repeated, upgrader, origin, given, cut>>

StopServer(release) ==
  /\ release \in servers
  /\ servers' = servers \ {release}
  /\ UNCHANGED <<markers, built, content, repeated, upgrader, origin, given, cut>>

ServerWrites(new) ==
  /\ servers # {}
  /\ content' = new
  /\ UNCHANGED <<markers, built, repeated, upgrader, servers, origin, given, cut>>

(* update_settings *)
UpdateSettings == \E agents \in {"off", "on"} : ServerWrites([content EXCEPT !.agents = agents])

(* Another plate: no other vehicle has it. *)
SavePlate(t) ==
  \E plate \in {"clean", "other"} :
    /\ \A s \in Trucks \ {t} : content.plate[s] # plate
    /\ ServerWrites([content EXCEPT !.plate[t] = plate])

(* update_tutor: begun again, closed or completed. *)
UpdateTutor ==
  /\ "later" \in servers
  /\ \E state \in {"active", "closed", "completed"} :
       /\ content.tutor = "completed" => state = "active"
       /\ ServerWrites([content EXCEPT !.tutor = state])

-----------------------------------------------------------------------------

(* An older database: its vehicles were saved as they were written, and    *)
(* some of its routes have no owner.                                       *)
MigrationsInit ==
  /\ markers = {} /\ built = {} /\ repeated \in BOOLEAN /\ servers = {}
  /\ content \in
       [preferences : {"absent", "pending", "chosen"}, agents : {"absent", "off", "on"},
        owned : SUBSET OldRoutes, counted : {FALSE}, usage : {{}},
        plate : [Trucks -> Spellings], indexed : {FALSE}, monthly : {FALSE}, tutor : {"active"}]
  /\ origin = content /\ given = {} /\ cut = FALSE
  /\ upgrader = [u \in Upgraders |-> Asleep]

UpgraderNext(u) ==
  \/ \E release \in Releases : BeginUpgrade(u, release)
  \/ LockUpgrades(u) \/ ReadMarkers(u)
  \/ BuildTables(u) \/ BuildVersion(u) \/ BuildColumns(u)
  \/ AddPreferences(u) \/ InitialisePreferences(u) \/ AddAgents(u) \/ FillAgents(u)
  \/ BackfillUsage(u) \/ AdoptRows(u) \/ HardenSchema(u)
  \/ NormalisePlates(u) \/ CountOrders(u) \/ CloseTutor(u)
  \/ DieUpgrading(u)

MigrationsNext ==
  \/ \E u \in Upgraders : UpgraderNext(u)
  \/ ReconcileStatuses
  \/ \E release \in Releases : StartServer(release) \/ StopServer(release)
  \/ UpdateSettings \/ UpdateTutor
  \/ \E t \in Trucks : SavePlate(t)

MigrationsSpec == MigrationsInit /\ [][MigrationsNext]_migrationVars

-----------------------------------------------------------------------------

(* A server that runs has every table and column of its release, rows with *)
(* owners, and counted every route that had one, however many processes    *)
(* died before.                                                            *)
SchemaIsWhole ==
  \A release \in servers :
    /\ KnownStages(release) \subseteq built
    /\ content.owned = OldRoutes /\ content.usage \cup given = OldRoutes
    /\ content.monthly /\ content.preferences \notin {"absent", "pending"} /\ content.agents # "absent"

(* The upgrade leaves what the companies had chosen, fills what is new and *)
(* writes plates apart from each other.  (Agents stay off when a process   *)
(* died before it filled their column.)                                    *)
UpgradeKeepsContent ==
  [][/\ "legacy" \in markers' \ markers =>
          /\ origin.preferences = "chosen" => content'.preferences = "chosen"
          /\ ~cut => content'.agents = IF origin.agents = "absent" THEN "on" ELSE origin.agents
     /\ "plates" \in markers' \ markers =>
          \A t \in Trucks : content'.plate[t] \in {"spaced", "lower"} =>
            \E s \in Trucks \ {t} : content'.plate[s] = "clean"
     /\ "harden" \in built /\ content.indexed =>
          \A t, s \in Trucks : t # s => content'.plate[t] # content'.plate[s]]_migrationVars

(* Once a version is recorded no process makes it again: not another one   *)
(* that waited for the lock, nor an earlier release, nor one that is       *)
(* repeated after a failure.                                               *)
RepeatsChangeNothing ==
  [][upgrader' # upgrader =>
       /\ "legacy" \in markers => /\ content'.agents = content.agents
                                  /\ content'.preferences = content.preferences
                                  /\ content'.usage = content.usage
       /\ "plates" \in markers => content'.plate = content.plate
       /\ "tutor" \in markers => content'.tutor = content.tutor]_migrationVars

(* Servers find what they need, and companies what they left. *)
UpgradesAreSafe == []SchemaIsWhole /\ UpgradeKeepsContent /\ RepeatsChangeNothing

=============================================================================
