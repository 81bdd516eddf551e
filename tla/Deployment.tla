----------------------------- MODULE Deployment -----------------------------
(***************************************************************************)
(* A deployed schema: the migrations and installers that change it, the    *)
(* pooled application and relay connections that work in it under tenant   *)
(* row security, the startup gate (revisions.py) and the doctor            *)
(* (diagnostics.py).                                                       *)
(*                                                                         *)
(* A migration is one transaction for the whole run (migrations/env.py),   *)
(* under READ COMMITTED.  A downgrade looks into each table, which locks   *)
(* no writer out, before it drops it, which waits for every transaction    *)
(* that has touched the table and locks out the ones that come.            *)
(***************************************************************************)
EXTENDS SchemaCatalogue, FiniteSets

CONSTANTS
  Tenants,      \* tenants with application data
  Probe, Other, \* the tenants the doctor makes up
  Pool,         \* connections of the runtime processes
  RoleOf,       \* the role each connects with
  Exercised,    \* the tables whose rows are modelled
  Targets,      \* revisions a migration is run to
  MaxRuns,      \* bound: migrations, installations and drops
  MaxTurns,     \* bound: transactions and doctor runs
  None

ASSUME DeploymentAssumption ==
  /\ RoleOf \in [Pool -> {"application", "relay"}]
  /\ Exercised \subseteq Tables \ {"schema_revision"}
  /\ Probe # Other /\ {Probe, Other} \cap Tenants = {}
  /\ None \notin Tenants \cup {Probe, Other} \cup Pool
  /\ Targets \subseteq 0..5
  /\ MaxRuns \in Nat /\ MaxTurns \in Nat

VARIABLES
  version,      \* alembic_version
  catalogue,    \* the committed schema
  rows,         \* per table, the tenants with committed rows in it
  migrator,     \* the migration transaction
  started,      \* the connections whose process has passed the startup check
  conn,         \* the pooled connections
  doctor,       \* inspect_runtime_database
  installer,    \* history: an installer or drop_core_schema has been used
  runs, turns   \* bounds

vars == <<version, catalogue, rows, migrator, started, conn, doctor, installer, runs, turns>>

Owners == Tenants \cup {Probe, Other}

\* setting: fastapi_effects.tenant_id.  serving: the tenant of the principal the
\* transaction was opened for.  touched: rows inserted or deleted, not yet
\* committed.  saw: owners of rows a statement returned.  holds: locked tables.
Idle ==
  [open |-> FALSE, setting |-> None, serving |-> None, added |-> {}, removed |-> {},
   saw |-> {}, holds |-> {}]

\* at: the revision being downgraded; todo: its tables to look into, or to drop;
\* work: the schema in the transaction; dropped: locked, and gone if it commits;
\* found: history, the rows there were at the start and that nobody deleted.
Resting == [phase |-> "idle", at |-> 0, target |-> 0, todo |-> <<>>, work |-> Empty,
            dropped |-> {}, found |-> [t \in Exercised |-> {}]]

Well == [phase |-> "idle", conn |-> None, failed |-> {}, disturbed |-> FALSE]

Init ==
  /\ version = 0 /\ catalogue = Empty
  /\ rows = [t \in Exercised |-> {}]
  /\ migrator = Resting
  /\ started = {}
  /\ conn = [c \in Pool |-> Idle]
  /\ doctor = Well
  /\ installer = FALSE
  /\ runs = 0 /\ turns = 0

InUse(tables) == \E c \in Pool : conn[c].holds \cap tables # {}

\* A statement on the table does not wait for the migration.
Available(table) == table \notin migrator.dropped

Emptied(tables) == [t \in Exercised |-> IF t \in tables THEN {} ELSE rows[t]]

-----------------------------------------------------------------------------
(* Migrations.  Run counts against the bound. *)

Run == runs < MaxRuns /\ runs' = runs + 1 /\ migrator.phase = "idle"

\* run_upgrade to head, or an Alembic upgrade to a given revision.
Upgrade(target) ==
  /\ Run
  /\ target > version
  /\ CanUpgrade(version, target, catalogue)
  /\ catalogue' = Upgraded(version, target, catalogue)
  /\ version' = target
  /\ UNCHANGED <<rows, migrator, conn, doctor, started, installer, turns>>

\* The schema already holds a table of a revision, or has been dropped.
UpgradeFails(target) ==
  /\ Run
  /\ target > version
  /\ ~CanUpgrade(version, target, catalogue)
  /\ UNCHANGED <<version, catalogue, rows, migrator, conn, doctor, started, installer, turns>>

Downgrade(target) ==
  /\ Run
  /\ target < version
  /\ migrator' = [Resting EXCEPT !.phase = "look", !.at = version, !.target = target,
                                 !.todo = Guarded(version), !.work = catalogue, !.found = rows]
  /\ UNCHANGED <<version, catalogue, rows, conn, doctor, started, installer, turns>>

\* The rows a role reaches with a command under a tenant setting.
Visible(role, setting, table, command, owners) ==
  {o \in owners : \E p \in Reached(catalogue, role, table, command) : p[4] = "all" \/ o = setting}

\* The EXISTS of reject_nonempty_downgrade: rows committed so far, as the
\* migration role sees them.
Nonempty(table) ==
  table \in DOMAIN rows /\ Visible("migration", None, table, "SELECT", rows[table]) # {}

Look ==
  /\ migrator.phase = "look" /\ migrator.todo # <<>>
  /\ ~Nonempty(Head(migrator.todo))
  /\ migrator' = [migrator EXCEPT !.todo = Tail(@)]
  /\ UNCHANGED <<version, catalogue, rows, conn, doctor, started, installer, runs, turns>>

\* A table is not empty, a drop is refused, or the statement fails: a deadlock
\* with a waiting transaction, a timeout, a lost connection.  All is rolled back.
Refuse ==
  /\ migrator.phase # "idle"
  /\ migrator' = Resting
  /\ UNCHANGED <<version, catalogue, rows, conn, doctor, started, installer, runs, turns>>

Forget ==
  /\ migrator.phase = "look" /\ migrator.todo = <<>>
  /\ "schema_revision" \in migrator.work.tables
  /\ migrator' = [migrator EXCEPT !.phase = "drop", !.work = Forgotten(migrator.at, @),
                                  !.todo = Reverse(Introduced(migrator.at))]
  /\ UNCHANGED <<version, catalogue, rows, conn, doctor, started, installer, runs, turns>>

Drop ==
  /\ migrator.phase = "drop" /\ migrator.todo # <<>>
  /\ LET table == Head(migrator.todo)
     IN /\ ~Referenced(migrator.work, table)
        /\ ~InUse({table})
        /\ migrator' = [migrator EXCEPT !.todo = Tail(@), !.dropped = @ \cup {table},
                                        !.work = WithoutTable(@, table)]
  /\ UNCHANGED <<version, catalogue, rows, conn, doctor, started, installer, runs, turns>>

\* DROP SCHEMA of 0001 is refused while an object is left in it.
Swept == migrator.at = 1 => migrator.work.tables = {} /\ migrator.work.functions = {}

Revised ==
  /\ migrator.phase = "drop" /\ migrator.todo = <<>>
  /\ Swept
  /\ migrator.at - 1 > migrator.target
  /\ migrator' = [migrator EXCEPT !.phase = "look", !.at = @ - 1, !.todo = Guarded(migrator.at - 1)]
  /\ UNCHANGED <<version, catalogue, rows, conn, doctor, started, installer, runs, turns>>

CommitDowngrade ==
  /\ migrator.phase = "drop" /\ migrator.todo = <<>>
  /\ Swept
  /\ migrator.at - 1 = migrator.target
  /\ catalogue' = migrator.work
  /\ version' = migrator.target
  /\ rows' = Emptied(migrator.dropped)
  /\ migrator' = Resting
  /\ doctor' = [doctor EXCEPT !.disturbed = TRUE]
  /\ UNCHANGED <<conn, started, installer, runs, turns>>

Touches(component) ==
  CASE component = "core" -> ToSet(CoreTables) [] component = "webhooks" -> ToSet(WebhookTables)
    [] component = "executor.taskiq" -> ToSet(TaskiqTables)
    [] component = "commands" -> ToSet(CommandTables)

\* The ALTER TABLEs of an installer wait for the tables' users.
Install(component) ==
  /\ Run
  /\ CanInstall(component, catalogue)
  /\ ~InUse(Touches(component))
  /\ catalogue' = Installed(component, catalogue)
  /\ installer' = TRUE
  /\ UNCHANGED <<version, rows, migrator, conn, doctor, started, turns>>

drop_core_schema ==
  /\ Run
  /\ catalogue # Empty
  /\ ~InUse(Tables)
  /\ catalogue' = Empty
  /\ rows' = Emptied(Exercised)
  /\ installer' = TRUE
  /\ doctor' = [doctor EXCEPT !.disturbed = TRUE]
  /\ UNCHANGED <<version, migrator, conn, started, turns>>

-----------------------------------------------------------------------------
(* Transactions of the runtime *)

\* check_schema_revisions, awaited by a process when it starts.
Gate == \A component \in Components : catalogue.revision[component] = Registry[component]

Start(c) ==
  /\ c \notin started
  /\ Available("schema_revision")
  /\ Gate
  /\ started' = started \cup {c}
  /\ UNCHANGED <<version, catalogue, rows, migrator, conn, doctor, installer, runs, turns>>

\* Mutant of Ended: the tenant was set for the session, not the transaction.
EndedLeaking(c) == [Idle EXCEPT !.setting = conn[c].setting]

\* COMMIT and ROLLBACK reset what set_config(..., true) has set.
Ended(c) == Idle

Opened(row, tenant) ==
  [row EXCEPT !.open = TRUE, !.serving = tenant,
              !.setting = IF tenant = None THEN row.setting ELSE tenant]

\* A started process opens a unit of work, a command or a handler session for a
\* principal; the relay, and application code that names no tenant, open a plain
\* transaction.  The schema may have changed since the check.
Begin(c, tenant) ==
  /\ turns < MaxTurns /\ turns' = turns + 1
  /\ c \in started
  /\ ~conn[c].open /\ doctor.conn # c
  /\ RoleOf[c] = "relay" => tenant = None
  /\ conn' = [conn EXCEPT ![c] = Opened(@, tenant)]
  /\ UNCHANGED <<version, catalogue, rows, migrator, doctor, started, installer, runs>>

Granted(c, object, privilege) == Permitted(catalogue, RoleOf[c], object, privilege)

Ready(c, table) == conn[c].open /\ doctor.conn # c /\ Available(table)

Contents(c, table) == rows[table] \cup {a[2] : a \in {x \in conn[c].added : x[1] = table}}

Shown(row, table, owners) ==
  [row EXCEPT !.holds = row.holds \cup {table}, !.saw = row.saw \cup owners]

Read(c, table) ==
  /\ Ready(c, table)
  /\ Granted(c, table, "SELECT")
  /\ conn' = [conn EXCEPT ![c] = Shown(@, table,
       Visible(RoleOf[c], @.setting, table, "SELECT", Contents(c, table)))]
  /\ UNCHANGED <<version, catalogue, rows, migrator, doctor, started, installer, runs, turns>>

Inserted(row, table, owner) ==
  [row EXCEPT !.holds = row.holds \cup {table}, !.added = row.added \cup {<<table, owner>>}]

\* A row of any tenant: WITH CHECK is what refuses a foreign one.
Insert(c, table, owner) ==
  /\ Ready(c, table)
  /\ Granted(c, table, "INSERT")
  /\ owner \in Visible(RoleOf[c], conn[c].setting, table, "INSERT", Tenants)
  /\ conn' = [conn EXCEPT ![c] = Inserted(@, table, owner)]
  /\ UNCHANGED <<version, catalogue, rows, migrator, doctor, started, installer, runs, turns>>

\* Mutant of Prunable: the function trusts the tenant it is asked for.
PrunableAny(c, tenant) == Granted(c, "prune_webhook_history", "EXECUTE")

\* prune_webhook_history compares the requested tenant with the setting; it runs
\* with its owner's rights, to whom the policies show every tenant.
Prunable(c, tenant) ==
  Granted(c, "prune_webhook_history", "EXECUTE") /\ conn[c].setting = tenant

Deleted(row, table, tenant) ==
  [row EXCEPT !.holds = row.holds \cup {table}, !.removed = row.removed \cup {<<table, tenant>>}]

Prune(c, tenant, table) ==
  /\ Ready(c, table)
  /\ table \in {"events", "deliveries", "attempts", "webhook_secret_versions"}
  /\ Prunable(c, tenant)
  /\ tenant \in Visible("migration", None, table, "DELETE", rows[table])
  /\ conn' = [conn EXCEPT ![c] = Deleted(@, table, tenant)]
  /\ UNCHANGED <<version, catalogue, rows, migrator, doctor, started, installer, runs, turns>>

Commit(c) ==
  /\ conn[c].open /\ doctor.conn # c
  /\ rows' = [t \in Exercised |->
       {o \in Owners : <<t, o>> \in conn[c].added \/ (o \in rows[t] /\ <<t, o>> \notin conn[c].removed)}]
  /\ migrator' = [migrator EXCEPT !.found =
       [t \in Exercised |-> {o \in migrator.found[t] : <<t, o>> \notin conn[c].removed}]]
  /\ conn' = [conn EXCEPT ![c] = Ended(c)]
  /\ UNCHANGED <<version, catalogue, doctor, started, installer, runs, turns>>

\* The body raised, or a statement was refused, failed or was the victim of a deadlock.
Rollback(c) ==
  /\ conn[c].open /\ doctor.conn # c
  /\ conn' = [conn EXCEPT ![c] = Ended(c)]
  /\ UNCHANGED <<version, catalogue, rows, migrator, doctor, started, installer, runs, turns>>

-----------------------------------------------------------------------------
(* inspect_runtime_database *)

Report(failures) == doctor.failed \cup failures

Unless(condition, code) == IF condition THEN {} ELSE {code}

Secured(table) ==
  /\ table \in catalogue.tables
  /\ \E p \in catalogue.policies : p[1] = "application" /\ p[2] = table

Inspected(row) == [row EXCEPT !.open = TRUE, !.holds = {"schema_revision"}]

\* The role, the core revision, the tables with their policies, the settings.
Inspect(c) ==
  /\ turns < MaxTurns /\ turns' = turns + 1
  /\ doctor.phase = "idle"
  /\ ~conn[c].open
  /\ Available("schema_revision")
  /\ "schema_revision" \in catalogue.tables
  /\ doctor' = [phase |-> IF RoleOf[c] = "application" THEN "probe" ELSE "reuse",
       conn |-> c, disturbed |-> FALSE,
       failed |-> Unless(catalogue.revision["core"] = 1, "schema.core_revision")
                  \cup Unless(\A t \in ToSet(Tail(CoreTables)) : Secured(t), "rls")
                  \cup Unless(conn[c].setting = None, "context.missing_denies")]
  /\ conn' = [conn EXCEPT ![c] =
       IF RoleOf[c] = "application"
         THEN Inspected(@) ELSE Ended(c)]
  /\ UNCHANGED <<version, catalogue, rows, migrator, started, installer, runs>>

\* Without a schema the first query fails and the doctor exits.
InspectFails(c) ==
  /\ turns < MaxTurns /\ turns' = turns + 1
  /\ doctor.phase = "idle"
  /\ ~conn[c].open
  /\ "schema_revision" \notin catalogue.tables
  /\ doctor' = [Well EXCEPT !.failed = {"database.connection"}, !.disturbed = TRUE]
  /\ UNCHANGED <<version, catalogue, rows, migrator, conn, started, installer, runs>>

Probed(row) ==
  [row EXCEPT !.setting = Probe, !.holds = row.holds \cup {"events"},
              !.added = {<<"events", Probe>>}]

\* The row the doctor inserts for a tenant nobody else has.
InsertProbe(c) ==
  /\ doctor.phase = "probe" /\ doctor.conn = c
  /\ Available("events")
  /\ Granted(c, "events", "INSERT")
  /\ Probe \in Visible("application", Probe, "events", "INSERT", Owners)
  /\ conn' = [conn EXCEPT ![c] = Probed(@)]
  /\ doctor' = [doctor EXCEPT !.phase = "cross"]
  /\ UNCHANGED <<version, catalogue, rows, migrator, started, installer, runs, turns>>

\* The insert is refused, or the wait for a migration ends in a deadlock.
ProbeFails(c) ==
  /\ doctor.phase = "probe" /\ doctor.conn = c
  /\ ~Available("events") \/ ~Granted(c, "events", "INSERT")
  /\ conn' = [conn EXCEPT ![c] = Ended(c)]
  /\ doctor' = [doctor EXCEPT !.phase = "settings",
                  !.disturbed = @ \/ ~Available("events"), !.failed = Report({"rls.live_cross_tenant"})]
  /\ UNCHANGED <<version, catalogue, rows, migrator, started, installer, runs, turns>>

\* The row must be out of sight under another tenant and under no tenant; finally
\* the transaction is rolled back.
CrossTenant(c) ==
  /\ doctor.phase = "cross" /\ doctor.conn = c
  /\ LET seen(setting) == Probe \in Visible("application", setting, "events", "SELECT", {Probe})
         after == Ended(c)
     IN /\ doctor' = [doctor EXCEPT !.phase = "settings",
             !.failed = Report(Unless(~seen(Other) /\ ~seen(None), "rls.live_cross_tenant")
                               \cup Unless(after.setting = None, "context.rollback_cleanup"))]
        /\ conn' = [conn EXCEPT ![c] = after]
  /\ UNCHANGED <<version, catalogue, rows, migrator, started, installer, runs, turns>>

\* Sets a tenant, commits, and reads the setting back.
CommitSettings(c) ==
  /\ doctor.phase = "settings" /\ doctor.conn = c
  /\ conn' = [conn EXCEPT ![c] = Ended(c)]
  /\ doctor' = [doctor EXCEPT !.phase = "reuse",
       !.failed = Report(Unless(Ended(c).setting = None, "context.commit_cleanup"))]
  /\ UNCHANGED <<version, catalogue, rows, migrator, started, installer, runs, turns>>

\* A fresh checkout of the pool, which may be another connection of the role.
Reuse(c, other) ==
  /\ doctor.phase = "reuse" /\ doctor.conn = c
  /\ ~conn[other].open /\ RoleOf[other] = RoleOf[c]
  /\ doctor' = [doctor EXCEPT !.phase = "idle", !.conn = None,
       !.failed = Report(Unless(conn[other].setting = None, "context.pool_cleanup"))]
  /\ UNCHANGED <<version, catalogue, rows, migrator, conn, started, installer, runs, turns>>

-----------------------------------------------------------------------------

Migrate ==
  \/ \E target \in Targets : Upgrade(target) \/ UpgradeFails(target) \/ Downgrade(target)
  \/ Look \/ Forget \/ Drop \/ Revised \/ CommitDowngrade \/ Refuse
  \/ \E component \in Components : Install(component)
  \/ drop_core_schema

Serve(c) ==
  \/ Start(c)
  \/ \E tenant \in Tenants \cup {None} : Begin(c, tenant)
  \/ \E table \in Exercised :
       \/ Read(c, table)
       \/ \E owner \in Tenants : Insert(c, table, owner) \/ Prune(c, owner, table)
  \/ Commit(c) \/ Rollback(c)

Examine(c) ==
  \/ Inspect(c) \/ InspectFails(c) \/ InsertProbe(c) \/ ProbeFails(c)
  \/ CrossTenant(c) \/ CommitSettings(c)
  \/ \E other \in Pool : Reuse(c, other)

Next == Migrate \/ \E c \in Pool : Serve(c) \/ Examine(c)

Spec == Init /\ [][Next]_vars

-----------------------------------------------------------------------------
(* Properties *)

DeploymentTypeOK ==
  /\ version \in 0..5
  /\ catalogue.tables \subseteq Tables /\ catalogue.functions \subseteq Functions
  /\ rows \in [Exercised -> SUBSET Owners]
  /\ \A c \in Pool : conn[c].setting \in Owners \cup {None} /\ conn[c].holds \subseteq Tables

\* A component whose revision in schema_revision is the registry's one serves
\* every statement its runtime issues: tables, functions, privileges and policies
\* are there for both roles.  check_schema looks at nothing else.  (revisions.py,
\* against the grants and policies of the migrations and installers.)
GateTells ==
  \A component \in Components :
    catalogue.revision[component] = Registry[component] => Serves(catalogue, component)

\* Under migrations alone the Alembic version tells the whole schema: downgrading
\* and upgrading again, refused or not, leaves nothing behind and nothing out.
VersionTellsCatalogue == ~installer => catalogue = SchemaAt[version]

\* A transaction opened for a tenant's principal, on whichever pooled connection,
\* reads, writes and deletes rows of that tenant only, and without a tenant none.
TenantIsolation ==
  \A c \in Pool : RoleOf[c] = "application" /\ doctor.conn # c =>
    conn[c].saw \cup {a[2] : a \in conn[c].added \cup conn[c].removed} \subseteq {conn[c].serving}

\* Running the doctor beside anything else is safe and tells the truth: its probe row
\* is never left in the database, and a run that met no migration reports no failure,
\* for where the core revision is marked, policies, grants and the resetting of the
\* tenant setting are in order (diagnostics.py:164-292).
DoctorHarmless ==
  /\ \A t \in Exercised : rows[t] \subseteq Tenants
  /\ doctor.failed # {} => doctor.disturbed

\* A downgrade never drops a row that was committed before it began: not even the
\* owner of the tables, whom row security is forced upon, overlooks one.
DowngradeKeepsWhatItFound ==
  \A t \in migrator.dropped \cap Exercised : migrator.found[t] = {}
=============================================================================
