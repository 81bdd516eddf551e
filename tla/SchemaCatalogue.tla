-------------------------- MODULE SchemaCatalogue --------------------------
(***************************************************************************)
(* The fastapi_effects schema as data: what each migration (frozen_v1.py   *)
(* and versions/0001 to 0005) and each installer (schema.py,               *)
(* webhook_schema.py, executor_schema.py, command_schema.py) makes of the  *)
(* tables, functions, component revisions, grants and row policies, and    *)
(* what the runtime needs of them.  Columns, constraints and indexes are   *)
(* left out; the foreign keys that order the drops are kept.  The          *)
(* installers run the same policy and grant statements as the migrations,  *)
(* so both are built from the same sets.                                   *)
(***************************************************************************)
EXTENDS Integers, Sequences, SequencesExt

Roles == {"migration", "application", "relay"}

CoreTables == <<"schema_revision", "events", "deliveries", "attempts">>
WebhookTables ==
  <<"webhook_secret_sets", "webhook_subscriptions", "webhook_secret_versions",
    "webhook_subscription_versions", "webhook_audit">>
TaskiqTables == <<"taskiq_handoffs">>
CommandTables == <<"commands">>

\* <<a, b>>: a row of table a references one of table b.
References ==
  {<<"deliveries", "events">>, <<"attempts", "deliveries">>,
   <<"webhook_secret_versions", "webhook_secret_sets">>,
   <<"webhook_subscription_versions", "webhook_subscriptions">>,
   <<"webhook_subscription_versions", "webhook_secret_sets">>,
   <<"taskiq_handoffs", "deliveries">>, <<"taskiq_handoffs", "attempts">>}

Tables ==
  ToSet(CoreTables) \cup ToSet(WebhookTables) \cup ToSet(TaskiqTables) \cup ToSet(CommandTables)
Functions == {"guard_command_mutation", "prune_commands", "prune_webhook_history"}
Components == {"core", "webhooks", "executor.taskiq", "commands"}

\* SCHEMA_REVISION_REGISTRY
Registry == [c \in Components |-> IF c = "webhooks" THEN 2 ELSE 1]

\* A policy is <<role, table, commands, rows>>: the rows the commands reach are
\* those of the tenant setting, or all.  Row security is enabled and forced on
\* every tenant table, so a role without a policy reaches no row, the owner too.
\* A grant is <<role, object, privileges>>.
All == {"SELECT", "INSERT", "UPDATE", "DELETE"}
Policy(role, tables, commands, rows) == {role} \X tables \X {commands} \X {rows}
Grant(role, objects, privileges) == {role} \X objects \X {privileges}

Controlled(tables) ==
  Policy("application", tables, All, "tenant") \cup Policy("migration", tables, All, "all")

\* Mutant of core_rls: the forced policies leave the owner out.
core_rls_unowned ==
  LET tables == ToSet(CoreTables) \ {"schema_revision"}
  IN Policy("application", tables, All, "tenant")
     \cup Policy("relay", {"events"}, {"SELECT"}, "all")
     \cup Policy("relay", {"deliveries", "attempts"}, All, "all")

core_rls ==
  Controlled(ToSet(CoreTables) \ {"schema_revision"})
  \cup Policy("relay", {"events"}, {"SELECT"}, "all")
  \cup Policy("relay", {"deliveries", "attempts"}, All, "all")

webhook_rls ==
  Controlled(ToSet(WebhookTables))
  \cup Policy("relay", ToSet(WebhookTables) \ {"webhook_audit"}, {"SELECT"}, "all")
  \cup Policy("relay", {"webhook_subscriptions"}, {"UPDATE"}, "all")
  \cup Policy("relay", {"webhook_audit"}, {"INSERT"}, "all")

executor_rls ==
  Policy("application", {"taskiq_handoffs"}, {"SELECT"}, "tenant")
  \cup Policy("relay", {"taskiq_handoffs"}, All, "all")
  \cup Policy("migration", {"taskiq_handoffs"}, All, "all")

command_rls ==
  Controlled({"commands"}) \cup Policy("relay", {"commands"}, {"SELECT", "DELETE"}, "all")

core_grants ==
  Grant("application", {"events", "deliveries"}, {"SELECT", "INSERT"})
  \cup Grant("application", {"attempts", "schema_revision"}, {"SELECT"})
  \cup Grant("relay", {"events", "schema_revision"}, {"SELECT"})
  \cup Grant("relay", {"deliveries", "attempts"}, {"SELECT", "INSERT", "UPDATE"})

\* Mutant of webhook_grants: the relay may read a subscription but not lock it.
webhook_grants_reading ==
  Grant("application", ToSet(WebhookTables) \ {"webhook_audit"}, All)
  \cup Grant("application", {"webhook_audit"}, {"SELECT", "INSERT"})
  \cup Grant("relay", ToSet(WebhookTables) \ {"webhook_audit"}, {"SELECT"})
  \cup Grant("relay", {"webhook_audit"}, {"INSERT"})

webhook_grants ==
  Grant("application", ToSet(WebhookTables) \ {"webhook_audit"}, All)
  \cup Grant("application", {"webhook_audit"}, {"SELECT", "INSERT"})
  \cup Grant("relay", ToSet(WebhookTables) \ {"webhook_audit"}, {"SELECT"})
  \cup Grant("relay", {"webhook_subscriptions"}, {"UPDATE"})
  \cup Grant("relay", {"webhook_audit"}, {"INSERT"})

executor_grants ==
  Grant("application", {"taskiq_handoffs"}, {"SELECT"})
  \cup Grant("relay", {"taskiq_handoffs"}, {"SELECT", "INSERT", "UPDATE"})

command_grants ==
  Grant("application", {"commands"}, All) \cup Grant("relay", {"prune_commands"}, {"EXECUTE"})

retention_grants == Grant("application", {"prune_webhook_history"}, {"EXECUTE"})

-----------------------------------------------------------------------------
(* A catalogue: the objects of the schema, and the rows of schema_revision  *)

Empty ==
  [tables |-> {}, functions |-> {}, policies |-> {}, grants |-> {},
   revision |-> [c \in Components |-> 0]]

Adding(cat, component, revision, tables, functions, policies, grants) ==
  [tables |-> cat.tables \cup tables, functions |-> cat.functions \cup functions,
   policies |-> cat.policies \cup policies, grants |-> cat.grants \cup grants,
   revision |-> [cat.revision EXCEPT ![component] = revision]]

CoreAdded(cat) == Adding(cat, "core", 1, ToSet(CoreTables), {}, core_rls, core_grants)
WebhooksAdded(cat) ==
  Adding(cat, "webhooks", 1, ToSet(WebhookTables), {}, webhook_rls, webhook_grants)
TaskiqAdded(cat) ==
  Adding(cat, "executor.taskiq", 1, ToSet(TaskiqTables), {}, executor_rls, executor_grants)
CommandsAdded(cat) ==
  Adding(cat, "commands", 1, ToSet(CommandTables),
         {"guard_command_mutation", "prune_commands"}, command_rls, command_grants)

\* UPDATE schema_revision SET revision: nothing if the component has no row.
Rewritten(cat, component, revision) == IF cat.revision[component] = 0 THEN 0 ELSE revision

RetentionAdded(cat) ==
  Adding(cat, "webhooks", Rewritten(cat, "webhooks", 2), {}, {"prune_webhook_history"}, {},
         retention_grants)

Versions == 1..5

\* upgrade() of revision v.
upgrade(v, cat) ==
  CASE v = 1 -> CoreAdded(cat) [] v = 2 -> WebhooksAdded(cat) [] v = 3 -> TaskiqAdded(cat)
    [] v = 4 -> CommandsAdded(cat) [] v = 5 -> RetentionAdded(cat)

\* The tables revision v creates, which must not be there, in the order of its names.
Introduced(v) ==
  CASE v = 1 -> CoreTables [] v = 2 -> WebhookTables [] v = 3 -> TaskiqTables
    [] v = 4 -> CommandTables [] v = 5 -> <<>>

CanUpgrade(from, to, cat) ==
  /\ \A v \in (from + 1)..to : ToSet(Introduced(v)) \cap cat.tables = {}
  /\ from > 0 => "schema_revision" \in cat.tables

\* The revisions after from, up to to, in their order.
Upgraded(from, to, cat) ==
  LET Through(v, c) == IF from < v /\ v <= to THEN upgrade(v, c) ELSE c
  IN Through(5, Through(4, Through(3, Through(2, Through(1, cat)))))

\* The schema each Alembic version stands for.
SchemaAt == [v \in {0} \cup Versions |-> Upgraded(0, v, Empty)]

\* The installers; tables that exist are kept.
install_core_schema(cat) == CoreAdded(cat)
install_webhook_schema(cat) == RetentionAdded(WebhooksAdded(cat))
install_executor_schema(cat) == TaskiqAdded(cat)
install_command_schema(cat) == CommandsAdded(cat)

Installed(component, cat) ==
  CASE component = "core" -> install_core_schema(cat)
    [] component = "webhooks" -> install_webhook_schema(cat)
    [] component = "executor.taskiq" -> install_executor_schema(cat)
    [] component = "commands" -> install_command_schema(cat)

CanInstall(component, cat) ==
  /\ component # "core" => "schema_revision" \in cat.tables
  /\ component = "executor.taskiq" => {"deliveries", "attempts"} \subseteq cat.tables

-----------------------------------------------------------------------------
(* Dropping *)

\* DROP TABLE IF EXISTS and DROP FUNCTION IF EXISTS take grants and policies along.
WithoutTable(cat, table) ==
  [tables |-> cat.tables \ {table}, functions |-> cat.functions,
   policies |-> {p \in cat.policies : p[2] # table},
   grants |-> {g \in cat.grants : g[2] # table},
   revision |-> IF table = "schema_revision" THEN [c \in Components |-> 0] ELSE cat.revision]
WithoutFunction(cat, function) ==
  [tables |-> cat.tables, functions |-> cat.functions \ {function}, policies |-> cat.policies,
   grants |-> {g \in cat.grants : g[2] # function}, revision |-> cat.revision]

\* A component's row in schema_revision: 0 stands for no row.
Marked(cat, component, revision) ==
  [cat EXCEPT !.revision = [cat.revision EXCEPT ![component] = revision]]

Referenced(cat, table) == \E r \in References : r[2] = table /\ r[1] \in cat.tables

\* Mutant of Forgotten: 0005 drops its function and leaves the marker at 2.
ForgottenMarker(v, cat) ==
  CASE v = 1 -> cat
    [] v = 2 -> Marked(cat, "webhooks", 0)
    [] v = 3 -> Marked(cat, "executor.taskiq", 0)
    [] v = 4 -> Marked(WithoutFunction(WithoutFunction(cat, "prune_commands"),
                                       "guard_command_mutation"), "commands", 0)
    [] v = 5 -> WithoutFunction(cat, "prune_webhook_history")

\* The statements of revision v's downgrade() beside the check and the drops of
\* tables.  The order among them is not observable: all are one transaction.
Forgotten(v, cat) ==
  CASE v = 1 -> cat
    [] v = 2 -> Marked(cat, "webhooks", 0)
    [] v = 3 -> Marked(cat, "executor.taskiq", 0)
    [] v = 4 -> Marked(WithoutFunction(WithoutFunction(cat, "prune_commands"),
                                       "guard_command_mutation"), "commands", 0)
    [] v = 5 -> Marked(WithoutFunction(cat, "prune_webhook_history"), "webhooks",
                       Rewritten(cat, "webhooks", 1))

\* The tables downgrade() refuses to drop with rows in them, in its order.
Guarded(v) == IF v = 1 THEN Tail(CoreTables) ELSE Introduced(v)

-----------------------------------------------------------------------------
(* What the runtime asks of the catalogue: the privileges of the statements *)
(* of each component.  SELECT ... FOR UPDATE asks for UPDATE as well.       *)

Uses(component) ==
  CASE component = "core" ->
         Grant("application", {"events", "deliveries"}, {"SELECT", "INSERT"})
         \cup Grant("application", {"attempts"}, {"SELECT"})
         \cup Grant("relay", {"events"}, {"SELECT"})
         \cup Grant("relay", {"deliveries", "attempts"}, {"SELECT", "INSERT", "UPDATE"})
         \cup Grant("application", {"schema_revision"}, {"SELECT"})
    [] component = "webhooks" ->
         Grant("application", ToSet(WebhookTables) \ {"webhook_audit"}, {"SELECT", "INSERT", "UPDATE"})
         \cup Grant("application", {"webhook_audit"}, {"INSERT"})
         \cup Grant("relay", ToSet(WebhookTables) \ {"webhook_audit"}, {"SELECT"})
         \cup Grant("relay", {"webhook_subscriptions"}, {"UPDATE"})
         \cup Grant("relay", {"webhook_audit"}, {"INSERT"})
         \cup Grant("application", {"prune_webhook_history"}, {"EXECUTE"})
    [] component = "executor.taskiq" ->
         Grant("application", {"taskiq_handoffs"}, {"SELECT"})
         \cup Grant("relay", {"taskiq_handoffs"}, {"SELECT", "INSERT", "UPDATE"})
    [] component = "commands" ->
         Grant("application", {"commands"}, {"SELECT", "INSERT", "UPDATE"})
         \cup Grant("relay", {"prune_commands"}, {"EXECUTE"})

Permitted(cat, role, object, privilege) ==
  \E g \in cat.grants : g[1] = role /\ g[2] = object /\ privilege \in g[3]

Reached(cat, role, table, command) ==
  {p \in cat.policies : p[1] = role /\ p[2] = table /\ command \in p[3]}

Serves(cat, component) ==
  \A u \in Uses(component) : \A privilege \in u[3] :
    /\ Permitted(cat, u[1], u[2], privilege)
    /\ u[2] \in cat.tables \cup cat.functions
    /\ u[2] \in Tables \ {"schema_revision"} => Reached(cat, u[1], u[2], privilege) # {}
=============================================================================
