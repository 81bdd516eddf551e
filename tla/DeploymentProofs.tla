-------------------------- MODULE DeploymentProofs --------------------------
(***************************************************************************)
(* Proofs about Deployment.  A catalogue is Consistent when it holds the   *)
(* policies and grants of the tables and functions in it and no others, so *)
(* that these and the revisions tell it; Told says what schema_revision    *)
(* vouches for.  Every migration and installer keeps both (UpgradedGrows,  *)
(* InstalledGrows), and so does each statement of a downgrade              *)
(* (ForgottenTells, DropTells) down to 0001, which ends in the empty       *)
(* schema or not at all (SweptEmpty).  The invariants are                  *)
(*   CatalogueInv  the committed schema, and the one in the transaction,   *)
(*   SchemaInv     without installers, both are those of their versions,   *)
(*   LockInv       a connection's tables are there and not dropped,        *)
(*   ProbeInv      the connection the doctor works on,                     *)
(*   TenantInv     what a connection saw and wrote is its tenant's,        *)
(*   RowsInv       rows are in tables, and a downgrade saw what it drops,  *)
(*   DoctorInv     a failure is reported only of a schema that went away.  *)
(* The theorems hold for every pool, set of tenants, set of tables whose   *)
(* rows are modelled, and any number of migrations and transactions.       *)
(***************************************************************************)
EXTENDS Deployment, TLAPS

-----------------------------------------------------------------------------
(* The catalogue as data.                                                    *)

LEMMA TableNames ==
  /\ ToSet(CoreTables) = {"schema_revision", "events", "deliveries", "attempts"}
  /\ ToSet(Tail(CoreTables)) = {"events", "deliveries", "attempts"}
  /\ ToSet(WebhookTables) =
       {"webhook_secret_sets", "webhook_subscriptions", "webhook_secret_versions",
        "webhook_subscription_versions", "webhook_audit"}
  /\ ToSet(TaskiqTables) = {"taskiq_handoffs"}
  /\ ToSet(CommandTables) = {"commands"}
  /\ ToSet(<<>>) = {}
  <1>1. ASSUME NEW a PROVE ToSet(<<a>>) = {a}
    BY DEF ToSet
  <1>2. ASSUME NEW a, NEW b, NEW c PROVE ToSet(<<a, b, c>>) = {a, b, c}
    BY DEF ToSet
  <1>3. ASSUME NEW a, NEW b, NEW c, NEW d PROVE ToSet(<<a, b, c, d>>) = {a, b, c, d}
    BY DEF ToSet
  <1>4. ASSUME NEW a, NEW b, NEW c, NEW d, NEW e PROVE ToSet(<<a, b, c, d, e>>) = {a, b, c, d, e}
    BY DEF ToSet
  <1>5. Tail(CoreTables) = <<"events", "deliveries", "attempts">>
    BY DEF CoreTables
  <1>6. ToSet(<<>>) = {}
    BY DEF ToSet
  <1>7. QED
    BY <1>1, <1>2, <1>3, <1>4, <1>5, <1>6 DEF CoreTables, WebhookTables, TaskiqTables, CommandTables

LEMMA PolicyFields ==
  ASSUME NEW role, NEW tables, NEW commands, NEW which, NEW p \in Policy(role, tables, commands, which)
  PROVE  p[1] = role /\ p[2] \in tables /\ p[3] = commands /\ p[4] = which
  BY DEF Policy

LEMMA GrantFields ==
  ASSUME NEW role, NEW objects, NEW privileges, NEW g \in Grant(role, objects, privileges)
  PROVE  g[1] = role /\ g[2] \in objects /\ g[3] = privileges
  BY DEF Grant

\* The tables and functions that belong to a component.
Routines(component) ==
  CASE component = "core" -> {} [] component = "webhooks" -> {"prune_webhook_history"}
    [] component = "executor.taskiq" -> {}
    [] component = "commands" -> {"guard_command_mutation", "prune_commands"}

AllPolicies == core_rls \cup webhook_rls \cup executor_rls \cup command_rls
AllGrants ==
  core_grants \cup webhook_grants \cup executor_grants \cup command_grants \cup retention_grants

LEMMA ObjectNames ==
  /\ Touches("core") = {"schema_revision", "events", "deliveries", "attempts"}
  /\ Touches("webhooks") =
       {"webhook_secret_sets", "webhook_subscriptions", "webhook_secret_versions",
        "webhook_subscription_versions", "webhook_audit"}
  /\ Touches("executor.taskiq") = {"taskiq_handoffs"}
  /\ Touches("commands") = {"commands"}
  /\ Routines("core") = {} /\ Routines("webhooks") = {"prune_webhook_history"}
  /\ Routines("executor.taskiq") = {}
  /\ Routines("commands") = {"guard_command_mutation", "prune_commands"}
  BY TableNames DEF Touches, Routines

\* The tables and functions of different components, and tables and functions, differ.
LEMMA Apart ==
  ASSUME NEW c \in Components, NEW d \in Components
  PROVE  /\ Touches(c) \subseteq Tables /\ Routines(c) \subseteq Functions
         /\ c # d => Touches(c) \cap Touches(d) = {} /\ Routines(c) \cap Routines(d) = {}
         /\ Tables \cap Functions = {}
  <1>1. /\ Touches(c) \subseteq Tables /\ Routines(c) \subseteq Functions
    BY ObjectNames, TableNames DEF Tables, Functions, Components
  <1>2. c # d => Touches(c) \cap Touches(d) = {} /\ Routines(c) \cap Routines(d) = {}
    BY ObjectNames DEF Components
  <1>3. Tables \cap Functions = {}
    BY TableNames DEF Tables, Functions
  <1>4. QED
    BY <1>1, <1>2, <1>3

\* Each installation's policies and grants are on its own objects.
LEMMA PolicyTables ==
  /\ \A p \in core_rls : p[2] \in Touches("core") \ {"schema_revision"}
  /\ \A p \in webhook_rls : p[2] \in Touches("webhooks")
  /\ \A p \in executor_rls : p[2] \in Touches("executor.taskiq")
  /\ \A p \in command_rls : p[2] \in Touches("commands")
  <1>1. \A p \in core_rls : p[2] \in Touches("core") \ {"schema_revision"}
    BY PolicyFields, ObjectNames, TableNames DEF core_rls, Controlled
  <1>2. \A p \in webhook_rls : p[2] \in Touches("webhooks")
    BY PolicyFields, ObjectNames, TableNames DEF webhook_rls, Controlled
  <1>3. \A p \in executor_rls : p[2] \in Touches("executor.taskiq")
    BY PolicyFields, ObjectNames, TableNames DEF executor_rls
  <1>4. \A p \in command_rls : p[2] \in Touches("commands")
    BY PolicyFields, ObjectNames, TableNames DEF command_rls, Controlled
  <1>5. QED
    BY <1>1, <1>2, <1>3, <1>4

LEMMA GrantObjects ==
  /\ \A g \in core_grants : g[2] \in Touches("core")
  /\ \A g \in webhook_grants : g[2] \in Touches("webhooks")
  /\ \A g \in executor_grants : g[2] \in Touches("executor.taskiq")
  /\ \A g \in command_grants : g[2] \in Touches("commands") \cup Routines("commands")
  /\ \A g \in retention_grants : g[2] \in Routines("webhooks")
  <1>1. \A g \in core_grants : g[2] \in Touches("core")
    BY GrantFields, ObjectNames, TableNames DEF core_grants
  <1>2. \A g \in webhook_grants : g[2] \in Touches("webhooks")
    BY GrantFields, ObjectNames, TableNames DEF webhook_grants
  <1>3. \A g \in executor_grants : g[2] \in Touches("executor.taskiq")
    BY GrantFields, ObjectNames, TableNames DEF executor_grants
  <1>4. \A g \in command_grants : g[2] \in Touches("commands") \cup Routines("commands")
    BY GrantFields, ObjectNames, TableNames DEF command_grants
  <1>5. \A g \in retention_grants : g[2] \in Routines("webhooks")
    BY GrantFields, ObjectNames, TableNames DEF retention_grants
  <1>6. QED
    BY <1>1, <1>2, <1>3, <1>4, <1>5

\* ... so that a component's are those of all there are that are on its objects.
LEMMA PolicyParts ==
  /\ core_rls = {p \in AllPolicies : p[2] \in Touches("core")}
  /\ webhook_rls = {p \in AllPolicies : p[2] \in Touches("webhooks")}
  /\ executor_rls = {p \in AllPolicies : p[2] \in Touches("executor.taskiq")}
  /\ command_rls = {p \in AllPolicies : p[2] \in Touches("commands")}
  <1>1. \A c, d \in Components : c # d => Touches(c) \cap Touches(d) = {}
    BY Apart
  <1>2. {"core", "webhooks", "executor.taskiq", "commands"} = Components
    BY DEF Components
  <1>3. core_rls = {p \in AllPolicies : p[2] \in Touches("core")}
    BY <1>1, <1>2, PolicyTables DEF AllPolicies
  <1>4. webhook_rls = {p \in AllPolicies : p[2] \in Touches("webhooks")}
    BY <1>1, <1>2, PolicyTables DEF AllPolicies
  <1>5. executor_rls = {p \in AllPolicies : p[2] \in Touches("executor.taskiq")}
    BY <1>1, <1>2, PolicyTables DEF AllPolicies
  <1>6. command_rls = {p \in AllPolicies : p[2] \in Touches("commands")}
    BY <1>1, <1>2, PolicyTables DEF AllPolicies
  <1>7. QED
    BY <1>3, <1>4, <1>5, <1>6

LEMMA GrantParts ==
  /\ core_grants = {g \in AllGrants : g[2] \in Touches("core")}
  /\ webhook_grants = {g \in AllGrants : g[2] \in Touches("webhooks")}
  /\ executor_grants = {g \in AllGrants : g[2] \in Touches("executor.taskiq")}
  /\ command_grants = {g \in AllGrants : g[2] \in Touches("commands") \cup Routines("commands")}
  /\ retention_grants = {g \in AllGrants : g[2] \in Routines("webhooks")}
  <1>1. /\ \A c, d \in Components : c # d => Touches(c) \cap Touches(d) = {}
                                              /\ Routines(c) \cap Routines(d) = {}
        /\ \A c, d \in Components : Touches(c) \cap Routines(d) = {}
    BY Apart
  <1>2. {"core", "webhooks", "executor.taskiq", "commands"} = Components
    BY DEF Components
  <1>3. core_grants = {g \in AllGrants : g[2] \in Touches("core")}
    BY <1>1, <1>2, GrantObjects DEF AllGrants
  <1>4. webhook_grants = {g \in AllGrants : g[2] \in Touches("webhooks")}
    BY <1>1, <1>2, GrantObjects DEF AllGrants
  <1>5. executor_grants = {g \in AllGrants : g[2] \in Touches("executor.taskiq")}
    BY <1>1, <1>2, GrantObjects DEF AllGrants
  <1>6. command_grants = {g \in AllGrants : g[2] \in Touches("commands") \cup Routines("commands")}
    BY <1>1, <1>2, GrantObjects DEF AllGrants
  <1>7. retention_grants = {g \in AllGrants : g[2] \in Routines("webhooks")}
    BY <1>1, <1>2, GrantObjects DEF AllGrants
  <1>8. QED
    BY <1>3, <1>4, <1>5, <1>6, <1>7

-----------------------------------------------------------------------------
(* Catalogues that hold the policies and grants of all that is in them.      *)

PoliciesOn(tables) == {p \in AllPolicies : p[2] \in tables}
GrantsOn(objects) == {g \in AllGrants : g[2] \in objects}

Catalogues ==
  [tables : SUBSET Tables, functions : SUBSET Functions, policies : SUBSET AllPolicies,
   grants : SUBSET AllGrants, revision : [Components -> 0..2]]

Consistent(cat) ==
  /\ cat \in Catalogues
  /\ cat.policies = PoliciesOn(cat.tables)
  /\ cat.grants = GrantsOn(cat.tables \cup cat.functions)

\* Such a catalogue is known by its tables, functions and revisions.
LEMMA SameCatalogue ==
  ASSUME NEW a, NEW b, Consistent(a), Consistent(b),
         a.tables = b.tables, a.functions = b.functions, a.revision = b.revision
  PROVE  a = b
  <1>1. /\ a = [tables |-> a.tables, functions |-> a.functions, policies |-> a.policies,
                grants |-> a.grants, revision |-> a.revision]
        /\ b = [tables |-> b.tables, functions |-> b.functions, policies |-> b.policies,
                grants |-> b.grants, revision |-> b.revision]
    BY DEF Consistent, Catalogues
  <1>2. a.policies = b.policies /\ a.grants = b.grants
    BY DEF Consistent
  <1>3. QED
    BY <1>1, <1>2

LEMMA EmptyConsistent == Consistent(Empty)
  BY DEF Consistent, Catalogues, Empty, PoliciesOn, GrantsOn

Adds(cat, after, component, revision, tables, functions) ==
  /\ Consistent(after)
  /\ after.tables = cat.tables \cup tables
  /\ after.functions = cat.functions \cup functions
  /\ after.revision = [cat.revision EXCEPT ![component] = revision]

LEMMA AddingConsistent ==
  ASSUME NEW cat, Consistent(cat), NEW component \in Components, NEW revision \in 0..2,
         NEW tables \in SUBSET Tables, NEW functions \in SUBSET Functions,
         NEW after,
         after = Adding(cat, component, revision, tables, functions,
                        PoliciesOn(tables), GrantsOn(tables \cup functions))
  PROVE  Adds(cat, after, component, revision, tables, functions)
  <1>1. /\ after.tables = cat.tables \cup tables
        /\ after.functions = cat.functions \cup functions
        /\ after.policies = cat.policies \cup PoliciesOn(tables)
        /\ after.grants = cat.grants \cup GrantsOn(tables \cup functions)
        /\ after.revision = [cat.revision EXCEPT ![component] = revision]
    BY DEF Adding
  <1>2. after = [tables |-> after.tables, functions |-> after.functions,
                 policies |-> after.policies, grants |-> after.grants, revision |-> after.revision]
    BY DEF Adding
  <1>3. cat.tables \in SUBSET Tables /\ cat.functions \in SUBSET Functions
        /\ cat.revision \in [Components -> 0..2]
    BY DEF Consistent, Catalogues
  <1>4. after.policies = PoliciesOn(after.tables)
    BY <1>1 DEF Consistent, PoliciesOn
  <1>5. after.grants = GrantsOn(after.tables \cup after.functions)
    BY <1>1 DEF Consistent, GrantsOn
  <1>6. after.policies \in SUBSET AllPolicies /\ after.grants \in SUBSET AllGrants
    BY <1>4, <1>5 DEF PoliciesOn, GrantsOn
  <1>7. after.revision \in [Components -> 0..2]
    BY <1>1, <1>3
  <1>8. after.tables \in SUBSET Tables /\ after.functions \in SUBSET Functions
    BY <1>1, <1>3
  <1>9. after \in Catalogues
    BY <1>2, <1>6, <1>7, <1>8 DEF Catalogues
  <1>10. QED
    BY <1>1, <1>4, <1>5, <1>9 DEF Consistent, Adds

\* What revision v adds, and the row it writes.
Component(v) ==
  CASE v = 1 -> "core" [] v = 2 -> "webhooks" [] v = 3 -> "executor.taskiq"
    [] v = 4 -> "commands" [] v = 5 -> "webhooks"
Built(v) ==
  CASE v = 1 -> {} [] v = 2 -> {} [] v = 3 -> {} [] v = 4 -> Routines("commands")
    [] v = 5 -> Routines("webhooks")
Mark(v, cat) == IF v = 5 THEN Rewritten(cat, "webhooks", 2) ELSE 1

LEMMA Parts ==
  /\ core_rls = PoliciesOn(Touches("core")) /\ webhook_rls = PoliciesOn(Touches("webhooks"))
  /\ executor_rls = PoliciesOn(Touches("executor.taskiq"))
  /\ command_rls = PoliciesOn(Touches("commands")) /\ {} = PoliciesOn({})
  /\ core_grants = GrantsOn(Touches("core") \cup {})
  /\ webhook_grants = GrantsOn(Touches("webhooks") \cup {})
  /\ executor_grants = GrantsOn(Touches("executor.taskiq") \cup {})
  /\ command_grants = GrantsOn(Touches("commands") \cup Routines("commands"))
  /\ retention_grants = GrantsOn({} \cup Routines("webhooks"))
  <1>1. {} = PoliciesOn({})
    BY DEF PoliciesOn
  <1>2. /\ core_rls = PoliciesOn(Touches("core")) /\ webhook_rls = PoliciesOn(Touches("webhooks"))
        /\ executor_rls = PoliciesOn(Touches("executor.taskiq"))
        /\ command_rls = PoliciesOn(Touches("commands"))
    BY PolicyParts DEF PoliciesOn
  <1>3. /\ core_grants = GrantsOn(Touches("core") \cup {})
        /\ webhook_grants = GrantsOn(Touches("webhooks") \cup {})
        /\ executor_grants = GrantsOn(Touches("executor.taskiq") \cup {})
        /\ command_grants = GrantsOn(Touches("commands") \cup Routines("commands"))
        /\ retention_grants = GrantsOn({} \cup Routines("webhooks"))
    BY GrantParts DEF GrantsOn
  <1>4. QED
    BY <1>1, <1>2, <1>3, Zenon

LEMMA IntroducedTables ==
  ASSUME NEW v \in Versions
  PROVE  /\ Component(v) \in Components
         /\ ToSet(Introduced(v)) = IF v = 5 THEN {} ELSE Touches(Component(v))
         /\ Built(v) \subseteq Routines(Component(v))
         /\ ToSet(Introduced(v)) \subseteq Tables /\ Built(v) \subseteq Functions
  <1>1. v = 1 \/ v = 2 \/ v = 3 \/ v = 4 \/ v = 5
    BY DEF Versions
  <1>2. Component(v) \in Components
    BY <1>1 DEF Component, Components
  <1>3. ToSet(Introduced(v)) = IF v = 5 THEN {} ELSE Touches(Component(v))
    <2>1. CASE v = 1
      BY <2>1 DEF Introduced, Touches, Component
    <2>2. CASE v = 2
      BY <2>2 DEF Introduced, Touches, Component
    <2>3. CASE v = 3
      BY <2>3 DEF Introduced, Touches, Component
    <2>4. CASE v = 4
      BY <2>4 DEF Introduced, Touches, Component
    <2>5. CASE v = 5
      BY <2>5, TableNames DEF Introduced
    <2>6. QED
      BY <1>1, <2>1, <2>2, <2>3, <2>4, <2>5
  <1>4. Built(v) \subseteq Routines(Component(v))
    BY <1>1, ObjectNames DEF Built, Component
  <1>5. QED
    BY <1>2, <1>3, <1>4, Apart

LEMMA UpgradeAdds ==
  ASSUME NEW v \in Versions, NEW cat, Consistent(cat)
  PROVE  /\ Consistent(upgrade(v, cat))
         /\ upgrade(v, cat).tables = cat.tables \cup ToSet(Introduced(v))
         /\ upgrade(v, cat).functions = cat.functions \cup Built(v)
         /\ upgrade(v, cat).revision = [cat.revision EXCEPT ![Component(v)] = Mark(v, cat)]
  <1> USE DEF Consistent
  <1>0. /\ {"core", "webhooks", "executor.taskiq", "commands"} = Components
        /\ \A c \in Components : Touches(c) \in SUBSET Tables /\ Routines(c) \in SUBSET Functions
        /\ {} \in SUBSET Tables /\ {} \in SUBSET Functions /\ 1 \in 0..2
    BY Apart DEF Components
  <1> HIDE DEF Consistent
  <1>1. CASE v = 1
    <2>1. upgrade(v, cat) = Adding(cat, "core", 1, Touches("core"), {}, PoliciesOn(Touches("core")),
                   GrantsOn(Touches("core") \cup {}))
      BY <1>1, Parts DEF upgrade, CoreAdded, Touches
    <2>2. ToSet(Introduced(v)) = Touches("core") /\ Built(v) = {} /\ Component(v) = "core"
          /\ Mark(v, cat) = 1
      BY <1>1 DEF Introduced, Touches, Built, Component, Mark
    <2>3. Adds(cat, upgrade(v, cat), "core", 1, Touches("core"), {})
      BY <2>1, <1>0, AddingConsistent, Zenon
    <2>4. QED
      BY <2>2, <2>3 DEF Adds
  <1>2. CASE v = 2
    <2>1. upgrade(v, cat)
            = Adding(cat, "webhooks", 1, Touches("webhooks"), {}, PoliciesOn(Touches("webhooks")),
                   GrantsOn(Touches("webhooks") \cup {}))
      BY <1>2, Parts DEF upgrade, WebhooksAdded, Touches
    <2>2. ToSet(Introduced(v)) = Touches("webhooks") /\ Built(v) = {} /\ Component(v) = "webhooks"
          /\ Mark(v, cat) = 1
      BY <1>2 DEF Introduced, Touches, Built, Component, Mark
    <2>3. Adds(cat, upgrade(v, cat), "webhooks", 1, Touches("webhooks"), {})
      BY <2>1, <1>0, AddingConsistent, Zenon
    <2>4. QED
      BY <2>2, <2>3 DEF Adds
  <1>3. CASE v = 3
    <2>1. upgrade(v, cat)
            = Adding(cat, "executor.taskiq", 1, Touches("executor.taskiq"), {},
                     PoliciesOn(Touches("executor.taskiq")),
                     GrantsOn(Touches("executor.taskiq") \cup {}))
      BY <1>3, Parts DEF upgrade, TaskiqAdded, Touches
    <2>2. ToSet(Introduced(v)) = Touches("executor.taskiq") /\ Built(v) = {}
          /\ Component(v) = "executor.taskiq" /\ Mark(v, cat) = 1
      BY <1>3 DEF Introduced, Touches, Built, Component, Mark
    <2>3. Adds(cat, upgrade(v, cat), "executor.taskiq", 1, Touches("executor.taskiq"), {})
      BY <2>1, <1>0, AddingConsistent, Zenon
    <2>4. QED
      BY <2>2, <2>3 DEF Adds
  <1>4. CASE v = 4
    <2>1. upgrade(v, cat)
            = Adding(cat, "commands", 1, Touches("commands"), Routines("commands"),
                     PoliciesOn(Touches("commands")),
                     GrantsOn(Touches("commands") \cup Routines("commands")))
      BY <1>4, ObjectNames, Parts DEF upgrade, CommandsAdded, Touches
    <2>2. ToSet(Introduced(v)) = Touches("commands") /\ Built(v) = Routines("commands")
          /\ Component(v) = "commands" /\ Mark(v, cat) = 1
      BY <1>4 DEF Introduced, Touches, Built, Component, Mark
    <2>3. Adds(cat, upgrade(v, cat), "commands", 1, Touches("commands"), Routines("commands"))
      BY <2>1, <1>0, AddingConsistent, Zenon
    <2>4. QED
      BY <2>2, <2>3 DEF Adds
  <1>5. CASE v = 5
    <2>1. upgrade(v, cat)
            = Adding(cat, "webhooks", Rewritten(cat, "webhooks", 2), {}, Routines("webhooks"),
                     PoliciesOn({}), GrantsOn({} \cup Routines("webhooks")))
      BY <1>5, ObjectNames, Parts DEF upgrade, RetentionAdded
    <2>2. ToSet(Introduced(v)) = {} /\ Built(v) = Routines("webhooks")
          /\ Component(v) = "webhooks" /\ Mark(v, cat) = Rewritten(cat, "webhooks", 2)
      BY <1>5, TableNames DEF Introduced, Built, Component, Mark
    <2>3. Rewritten(cat, "webhooks", 2) \in 0..2
      BY DEF Rewritten
    <2>4. Adds(cat, upgrade(v, cat), "webhooks", Rewritten(cat, "webhooks", 2), {}, Routines("webhooks"))
      BY <2>1, <2>3, <1>0, AddingConsistent, Zenon
    <2>5. QED
      BY <2>2, <2>4 DEF Adds
  <1>6. QED
    BY <1>1, <1>2, <1>3, <1>4, <1>5 DEF Versions

-----------------------------------------------------------------------------
(* Catalogues whose schema_revision tells what is there.                     *)

Whole(cat, component) ==
  Touches(component) \subseteq cat.tables /\ Routines(component) \subseteq cat.functions

Told(cat) ==
  /\ \A component \in Components :
       cat.revision[component] = Registry[component] => Whole(cat, component)
  /\ "schema_revision" \in cat.tables =>
       Touches("core") \subseteq cat.tables /\ cat.revision["core"] = 1
  /\ cat.revision["webhooks"] # 0 => Touches("webhooks") \subseteq cat.tables

LEMMA RegistryValues ==
  /\ Registry["core"] = 1 /\ Registry["webhooks"] = 2
  /\ Registry["executor.taskiq"] = 1 /\ Registry["commands"] = 1
  BY DEF Registry, Components

LEMMA EmptyTold == Told(Empty)
  <1>1. \A c \in Components : Empty.revision[c] = 0 /\ Registry[c] # 0
    BY RegistryValues DEF Empty, Components
  <1>2. "schema_revision" \notin Empty.tables /\ "webhooks" \in Components
    BY DEF Empty, Components
  <1>3. QED
    BY <1>1, <1>2 DEF Told

LEMMA UpgradeTells ==
  ASSUME NEW v \in Versions, NEW cat, Consistent(cat), Told(cat)
  PROVE  Told(upgrade(v, cat)) /\ cat.tables \subseteq upgrade(v, cat).tables
  <1> DEFINE after == upgrade(v, cat)
  <1>1. /\ after.tables = cat.tables \cup ToSet(Introduced(v))
        /\ after.functions = cat.functions \cup Built(v)
        /\ after.revision = [cat.revision EXCEPT ![Component(v)] = Mark(v, cat)]
    BY UpgradeAdds
  <1>2. /\ Component(v) \in Components
        /\ ToSet(Introduced(v)) = IF v = 5 THEN {} ELSE Touches(Component(v))
    BY IntroducedTables
  <1>3. cat.revision \in [Components -> 0..2] /\ "webhooks" \in Components /\ "core" \in Components
    BY DEF Consistent, Catalogues, Components
  <1>4. v \in {1, 2, 3, 4, 5}
    BY DEF Versions
  <1> HIDE DEF after
  <1>5. ASSUME NEW c \in Components, after.revision[c] = Registry[c]
        PROVE  Whole(after, c)
    <2>1. CASE c # Component(v)
      <3>1. after.revision[c] = cat.revision[c]
        BY <1>1, <1>2, <1>3, <2>1
      <3>2. Whole(cat, c)
        BY <1>5, <3>1 DEF Told
      <3>3. QED
        BY <3>2, <1>1 DEF Whole
    <2>2. CASE c = Component(v) /\ v = 5
      <3>1. c = "webhooks" /\ Built(v) = Routines("webhooks")
        BY <2>2 DEF Component, Built
      <3>2. after.revision[c] = Mark(v, cat)
        BY <1>1, <1>2, <1>3, <2>2
      <3>3. cat.revision["webhooks"] # 0
        BY <3>1, <3>2, <2>2, <1>5, RegistryValues DEF Mark, Rewritten
      <3>4. Touches("webhooks") \subseteq cat.tables
        BY <3>3 DEF Told
      <3>5. QED
        BY <3>1, <3>4, <1>1 DEF Whole
    <2>3. CASE c = Component(v) /\ v # 5
      <3>1. Touches(c) \subseteq after.tables
        BY <1>1, <1>2, <2>3
      <3>2. after.revision[c] = 1
        BY <1>1, <1>2, <1>3, <2>3 DEF Mark
      <3>3. v # 2
        BY <3>2, <1>5, <2>3, RegistryValues DEF Component
      <3>4. Routines(c) \subseteq Built(v)
        BY <3>3, <2>3, <1>4, ObjectNames DEF Component, Built
      <3>5. QED
        BY <3>1, <3>4, <1>1 DEF Whole
    <2>4. QED
      BY <2>1, <2>2, <2>3
  <1>6. ASSUME "schema_revision" \in after.tables
        PROVE  Touches("core") \subseteq after.tables /\ after.revision["core"] = 1
    <2>1. CASE v = 1
      <3>1. Component(v) = "core" /\ Mark(v, cat) = 1
        BY <2>1 DEF Component, Mark
      <3>2. QED
        BY <3>1, <2>1, <1>1, <1>2, <1>3
    <2>2. CASE v # 1
      <3>1. Component(v) # "core"
        BY <2>2, <1>4 DEF Component
      <3>2. "schema_revision" \notin ToSet(Introduced(v))
        BY <3>1, <1>2, Apart, ObjectNames, <1>3
      <3>3. "schema_revision" \in cat.tables
        BY <3>2, <1>6, <1>1
      <3>4. QED
        BY <3>1, <3>3, <1>1, <1>2, <1>3 DEF Told
    <2>3. QED
      BY <2>1, <2>2
  <1>7. ASSUME after.revision["webhooks"] # 0
        PROVE  Touches("webhooks") \subseteq after.tables
    <2>1. CASE v = 2
      BY <2>1, <1>1, <1>2 DEF Component
    <2>2. CASE v = 5
      <3>1. after.revision["webhooks"] = Rewritten(cat, "webhooks", 2)
        BY <2>2, <1>1, <1>3 DEF Component, Mark
      <3>2. cat.revision["webhooks"] # 0
        BY <3>1, <1>7 DEF Rewritten
      <3>3. QED
        BY <3>2, <1>1 DEF Told
    <2>3. CASE v # 2 /\ v # 5
      <3>1. Component(v) # "webhooks"
        BY <2>3, <1>4 DEF Component
      <3>2. cat.revision["webhooks"] # 0
        BY <3>1, <1>1, <1>2, <1>3, <1>7
      <3>3. QED
        BY <3>2, <1>1 DEF Told
    <2>4. QED
      BY <2>1, <2>2, <2>3
  <1>8. QED
    BY <1>1, <1>5, <1>6, <1>7 DEF Told, after

-----------------------------------------------------------------------------
(* Upgrades and installations.                                               *)

\* after is a catalogue to rely on, with all the tables of cat.
Grown(cat, after) == Consistent(after) /\ Told(after) /\ cat.tables \subseteq after.tables

LEMMA UpgradeGrows ==
  ASSUME NEW v \in Versions, NEW base, NEW cat, Grown(base, cat)
  PROVE  Grown(base, upgrade(v, cat))
  BY UpgradeAdds, UpgradeTells DEF Grown

LEMMA UpgradedGrows ==
  ASSUME NEW from, NEW to, NEW cat, Consistent(cat), Told(cat)
  PROVE  Grown(cat, Upgraded(from, to, cat))
  <1> DEFINE Through(v, c) == IF from < v /\ v <= to THEN upgrade(v, c) ELSE c
  <1>1. Upgraded(from, to, cat)
          = Through(5, Through(4, Through(3, Through(2, Through(1, cat)))))
    BY DEF Upgraded
  <1>2. ASSUME NEW v \in Versions, NEW c, Grown(cat, c)
        PROVE  Grown(cat, Through(v, c))
    BY <1>2, UpgradeGrows
  <1>3. Grown(cat, cat)
    BY DEF Grown
  <1>4. 1 \in Versions /\ 2 \in Versions /\ 3 \in Versions /\ 4 \in Versions /\ 5 \in Versions
    BY DEF Versions
  <1> HIDE DEF Through
  <1>5. QED
    BY <1>1, <1>2, <1>3, <1>4

LEMMA InstalledGrows ==
  ASSUME NEW component \in Components, NEW cat, Consistent(cat), Told(cat)
  PROVE  Grown(cat, Installed(component, cat))
  <1>1. Grown(cat, cat)
    BY DEF Grown
  <1>2. 1 \in Versions /\ 2 \in Versions /\ 3 \in Versions /\ 4 \in Versions /\ 5 \in Versions
    BY DEF Versions
  <1>3. CASE component = "core"
    <2>1. Installed(component, cat) = upgrade(1, cat)
      BY <1>3 DEF Installed, install_core_schema, upgrade
    <2>2. QED
      BY <2>1, <1>1, <1>2, UpgradeGrows
  <1>4. CASE component = "webhooks"
    <2>1. Installed(component, cat) = upgrade(5, upgrade(2, cat))
      BY <1>4 DEF Installed, install_webhook_schema, upgrade
    <2>2. QED
      BY <2>1, <1>1, <1>2, UpgradeGrows
  <1>5. CASE component = "executor.taskiq"
    <2>1. Installed(component, cat) = upgrade(3, cat)
      BY <1>5 DEF Installed, install_executor_schema, upgrade
    <2>2. QED
      BY <2>1, <1>1, <1>2, UpgradeGrows
  <1>6. CASE component = "commands"
    <2>1. Installed(component, cat) = upgrade(4, cat)
      BY <1>6 DEF Installed, install_command_schema, upgrade
    <2>2. QED
      BY <2>1, <1>1, <1>2, UpgradeGrows
  <1>7. QED
    BY <1>3, <1>4, <1>5, <1>6 DEF Components

-----------------------------------------------------------------------------
(* The schema of a version, step by step.                                    *)

LEMMA SchemaSteps ==
  /\ SchemaAt[0] = Empty
  /\ \A v \in Versions : SchemaAt[v] = upgrade(v, SchemaAt[v - 1])
  <1>1. \A v \in 0..5 : SchemaAt[v] = Upgraded(0, v, Empty)
    BY DEF SchemaAt, Versions
  <1>2. SchemaAt[0] = Empty
    BY <1>1 DEF Upgraded
  <1>3. SchemaAt[1] = upgrade(1, Empty)
    BY <1>1 DEF Upgraded
  <1>4. SchemaAt[2] = upgrade(2, upgrade(1, Empty))
    BY <1>1 DEF Upgraded
  <1>5. SchemaAt[3] = upgrade(3, upgrade(2, upgrade(1, Empty)))
    BY <1>1 DEF Upgraded
  <1>6. SchemaAt[4] = upgrade(4, upgrade(3, upgrade(2, upgrade(1, Empty))))
    BY <1>1 DEF Upgraded
  <1>7. SchemaAt[5] = upgrade(5, upgrade(4, upgrade(3, upgrade(2, upgrade(1, Empty)))))
    BY <1>1 DEF Upgraded
  <1>8. QED
    BY <1>2, <1>3, <1>4, <1>5, <1>6, <1>7 DEF Versions

LEMMA UpgradedSchema ==
  ASSUME NEW from \in 0..5, NEW to \in 0..5, from <= to
  PROVE  Upgraded(from, to, SchemaAt[from]) = SchemaAt[to]
  <1> DEFINE Through(v, c) == IF from < v /\ v <= to THEN upgrade(v, c) ELSE c
  <1> DEFINE Level(k) == IF k <= from THEN from ELSE IF k <= to THEN k ELSE to
  <1>1. Upgraded(from, to, SchemaAt[from])
          = Through(5, Through(4, Through(3, Through(2, Through(1, SchemaAt[from])))))
    BY DEF Upgraded
  <1>2. ASSUME NEW v \in Versions
        PROVE  Through(v, SchemaAt[Level(v - 1)]) = SchemaAt[Level(v)]
    <2>1. CASE from < v /\ v <= to
      <3>1. Level(v - 1) = v - 1 /\ Level(v) = v
        BY <2>1 DEF Versions
      <3>2. QED
        BY <3>1, <2>1, SchemaSteps
    <2>2. CASE ~(from < v /\ v <= to)
      <3>1. Level(v - 1) = Level(v)
        BY <2>2 DEF Versions
      <3>2. QED
        BY <3>1, <2>2
    <2>3. QED
      BY <2>1, <2>2
  <1>3. Level(0) = from /\ Level(5) = to
    OBVIOUS
  <1> HIDE DEF Through, Level
  <1>4. /\ Through(1, SchemaAt[Level(0)]) = SchemaAt[Level(1)]
        /\ Through(2, SchemaAt[Level(1)]) = SchemaAt[Level(2)]
        /\ Through(3, SchemaAt[Level(2)]) = SchemaAt[Level(3)]
        /\ Through(4, SchemaAt[Level(3)]) = SchemaAt[Level(4)]
        /\ Through(5, SchemaAt[Level(4)]) = SchemaAt[Level(5)]
    <2>1. 1 \in Versions /\ 2 \in Versions /\ 3 \in Versions /\ 4 \in Versions /\ 5 \in Versions
      BY DEF Versions
    <2>2. 1 - 1 = 0 /\ 2 - 1 = 1 /\ 3 - 1 = 2 /\ 4 - 1 = 3 /\ 5 - 1 = 4
      OBVIOUS
    <2>3. QED
      BY <1>2, <2>1, <2>2
  <1>5. QED
    BY <1>1, <1>3, <1>4

LEMMA SchemaGrown ==
  ASSUME NEW v \in 0..5
  PROVE  Consistent(SchemaAt[v]) /\ Told(SchemaAt[v])
  <1>1. Grown(Empty, Empty)
    BY EmptyConsistent, EmptyTold DEF Grown
  <1>2. Upgraded(0, v, SchemaAt[0]) = SchemaAt[v]
    BY UpgradedSchema
  <1>3. QED
    BY <1>2, EmptyConsistent, EmptyTold, SchemaSteps, UpgradedGrows DEF Grown

\* What the revisions up to v have added.
LEMMA SchemaObjects ==
  ASSUME NEW v \in 0..5
  PROVE  /\ SchemaAt[v].tables = {t \in Tables : \E k \in 1..v : t \in ToSet(Introduced(k))}
         /\ SchemaAt[v].functions = {f \in Functions : \E k \in 1..v : f \in Built(k)}
  <1> DEFINE Objects(w) ==
        /\ SchemaAt[w].tables = {t \in Tables : \E k \in 1..w : t \in ToSet(Introduced(k))}
        /\ SchemaAt[w].functions = {f \in Functions : \E k \in 1..w : f \in Built(k)}
  <1>1. Objects(0)
    BY SchemaSteps DEF Empty
  <1>2. ASSUME NEW w \in 0..4, Objects(w) PROVE Objects(w + 1)
    <2>1. w + 1 \in Versions /\ w + 1 - 1 = w
      BY DEF Versions
    <2>2. /\ SchemaAt[w + 1].tables = SchemaAt[w].tables \cup ToSet(Introduced(w + 1))
          /\ SchemaAt[w + 1].functions = SchemaAt[w].functions \cup Built(w + 1)
      <3>1. SchemaAt[w + 1] = upgrade(w + 1, SchemaAt[w])
        BY <2>1, SchemaSteps
      <3>2. Consistent(SchemaAt[w])
        BY SchemaGrown
      <3>3. QED
        BY <2>1, <3>1, <3>2, UpgradeAdds
    <2>3. ToSet(Introduced(w + 1)) \subseteq Tables /\ Built(w + 1) \subseteq Functions
      BY <2>1, IntroducedTables
    <2>4. \A k : k \in 1..(w + 1) <=> k \in 1..w \/ k = w + 1
      OBVIOUS
    <2>5. SchemaAt[w + 1].tables = {t \in Tables : \E k \in 1..(w + 1) : t \in ToSet(Introduced(k))}
      BY <1>2, <2>2, <2>3, <2>4
    <2>6. SchemaAt[w + 1].functions = {f \in Functions : \E k \in 1..(w + 1) : f \in Built(k)}
      BY <1>2, <2>2, <2>3, <2>4
    <2>7. QED
      BY <2>5, <2>6
  <1> HIDE DEF Objects
  <1>3. Objects(1) /\ Objects(2) /\ Objects(3) /\ Objects(4) /\ Objects(5)
    <2>1. Objects(0 + 1)
      BY <1>1, <1>2
    <2>2. Objects(1 + 1)
      BY <2>1, <1>2
    <2>3. Objects(2 + 1)
      BY <2>2, <1>2
    <2>4. Objects(3 + 1)
      BY <2>3, <1>2
    <2>5. Objects(4 + 1)
      BY <2>4, <1>2
    <2>6. QED
      BY <2>1, <2>2, <2>3, <2>4, <2>5
  <1>4. Objects(v)
    BY <1>1, <1>3
  <1>5. QED
    BY <1>4 DEF Objects

LEMMA RevisionsApart ==
  ASSUME NEW k \in Versions, NEW v \in Versions, k # v
  PROVE  /\ ToSet(Introduced(k)) \cap ToSet(Introduced(v)) = {}
         /\ Built(k) \cap Built(v) = {}
  <1>1. /\ Component(k) \in Components /\ Component(v) \in Components
        /\ ToSet(Introduced(k)) = IF k = 5 THEN {} ELSE Touches(Component(k))
        /\ ToSet(Introduced(v)) = IF v = 5 THEN {} ELSE Touches(Component(v))
    BY IntroducedTables
  <1>2. k # 5 /\ v # 5 => Component(k) # Component(v)
    BY DEF Component, Versions
  <1>3. ToSet(Introduced(k)) \cap ToSet(Introduced(v)) = {}
    BY <1>1, <1>2, Apart
  <1>4. Built(k) \cap Built(v) = {}
    BY ObjectNames DEF Built, Versions
  <1>5. QED
    BY <1>3, <1>4

\* What revision v adds, the version before it has none of.
LEMMA SchemaDisjoint ==
  ASSUME NEW v \in Versions
  PROVE  /\ SchemaAt[v - 1].tables \cap ToSet(Introduced(v)) = {}
         /\ SchemaAt[v - 1].functions \cap Built(v) = {}
         /\ SchemaAt[v].tables = SchemaAt[v - 1].tables \cup ToSet(Introduced(v))
         /\ SchemaAt[v].functions = SchemaAt[v - 1].functions \cup Built(v)
  <1>1. v - 1 \in 0..5 /\ \A k \in 1..(v - 1) : k \in Versions /\ k # v
    BY DEF Versions
  <1>2. SchemaAt[v - 1].tables \cap ToSet(Introduced(v)) = {}
    BY <1>1, SchemaObjects, RevisionsApart
  <1>3. SchemaAt[v - 1].functions \cap Built(v) = {}
    BY <1>1, SchemaObjects, RevisionsApart
  <1>4. QED
    BY <1>1, <1>2, <1>3, SchemaSteps, SchemaGrown, UpgradeAdds

LEMMA SchemaRevisions ==
  /\ SchemaAt[0].revision["core"] = 0 /\ SchemaAt[1].revision["webhooks"] = 0
  /\ SchemaAt[2].revision["executor.taskiq"] = 0 /\ SchemaAt[3].revision["commands"] = 0
  /\ SchemaAt[4].revision["webhooks"] = 1
  <1>1. ASSUME NEW v \in Versions
        PROVE  SchemaAt[v].revision
                 = [SchemaAt[v - 1].revision EXCEPT ![Component(v)] = Mark(v, SchemaAt[v - 1])]
    <2>1. v - 1 \in 0..5
      BY DEF Versions
    <2>2. QED
      BY <2>1, SchemaSteps, SchemaGrown, UpgradeAdds
  <1>2. \A v \in 0..5 : SchemaAt[v].revision \in [Components -> 0..2]
    BY SchemaGrown DEF Consistent, Catalogues
  <1>3. /\ "core" \in Components /\ "webhooks" \in Components
        /\ "executor.taskiq" \in Components /\ "commands" \in Components
    BY DEF Components
  <1>4. \A c \in Components : SchemaAt[0].revision[c] = 0
    BY SchemaSteps DEF Empty
  <1>5. SchemaAt[1].revision = [SchemaAt[0].revision EXCEPT !["core"] = 1]
    <2>1. 1 \in Versions /\ 1 - 1 = 0 /\ Component(1) = "core" /\ Mark(1, SchemaAt[0]) = 1
      BY DEF Versions, Component, Mark
    <2>2. QED
      BY <1>1, <2>1
  <1>6. SchemaAt[2].revision = [SchemaAt[1].revision EXCEPT !["webhooks"] = 1]
    <2>1. 2 \in Versions /\ 2 - 1 = 1 /\ Component(2) = "webhooks" /\ Mark(2, SchemaAt[1]) = 1
      BY DEF Versions, Component, Mark
    <2>2. QED
      BY <1>1, <2>1
  <1>7. SchemaAt[3].revision = [SchemaAt[2].revision EXCEPT !["executor.taskiq"] = 1]
    <2>1. 3 \in Versions /\ 3 - 1 = 2 /\ Component(3) = "executor.taskiq" /\ Mark(3, SchemaAt[2]) = 1
      BY DEF Versions, Component, Mark
    <2>2. QED
      BY <1>1, <2>1
  <1>8. SchemaAt[4].revision = [SchemaAt[3].revision EXCEPT !["commands"] = 1]
    <2>1. 4 \in Versions /\ 4 - 1 = 3 /\ Component(4) = "commands" /\ Mark(4, SchemaAt[3]) = 1
      BY DEF Versions, Component, Mark
    <2>2. QED
      BY <1>1, <2>1
  <1>9. SchemaAt[1].revision["webhooks"] = 0 /\ SchemaAt[1].revision["executor.taskiq"] = 0
        /\ SchemaAt[1].revision["commands"] = 0
    BY <1>2, <1>3, <1>4, <1>5
  <1>10. SchemaAt[2].revision["webhooks"] = 1 /\ SchemaAt[2].revision["executor.taskiq"] = 0
        /\ SchemaAt[2].revision["commands"] = 0
    BY <1>2, <1>3, <1>6, <1>9
  <1>11. SchemaAt[3].revision["webhooks"] = 1 /\ SchemaAt[3].revision["commands"] = 0
    BY <1>2, <1>3, <1>7, <1>10
  <1>12. SchemaAt[4].revision["webhooks"] = 1
    BY <1>2, <1>3, <1>8, <1>11
  <1>13. QED
    BY <1>3, <1>4, <1>9, <1>10, <1>11, <1>12

-----------------------------------------------------------------------------
(* The lists of tables a downgrade goes through.                             *)

LEMMA HeadTail ==
  ASSUME NEW S, NEW s \in Seq(S), s # <<>>
  PROVE  /\ Tail(s) \in Seq(S)
         /\ ToSet(s) = {Head(s)} \cup ToSet(Tail(s))
         /\ IsInjective(s) => IsInjective(Tail(s)) /\ Head(s) \notin ToSet(Tail(s))
  <1>1. /\ Tail(s) \in Seq(S) /\ Len(Tail(s)) = Len(s) - 1 /\ Len(s) \in Nat /\ Len(s) > 0
        /\ \A i \in 1..(Len(s) - 1) : Tail(s)[i] = s[i + 1]
        /\ Head(s) = s[1]
        /\ DOMAIN s = 1..Len(s) /\ DOMAIN Tail(s) = 1..(Len(s) - 1)
    OBVIOUS
  <1>2. ToSet(s) = {s[i] : i \in 1..Len(s)} /\ ToSet(Tail(s)) = {Tail(s)[i] : i \in 1..(Len(s) - 1)}
    <2>1. \A t : ToSet(t) = {t[i] : i \in DOMAIN t}
      BY DEF ToSet
    <2>2. QED
      BY <1>1, <2>1
  <1>3. \A x \in ToSet(s) : x = Head(s) \/ x \in ToSet(Tail(s))
    <2>1. SUFFICES ASSUME NEW i \in 1..Len(s), s[i] # Head(s) PROVE s[i] \in ToSet(Tail(s))
      BY <1>2
    <2>2. i - 1 \in 1..(Len(s) - 1) /\ Tail(s)[i - 1] = s[i]
      BY <2>1, <1>1
    <2>3. QED
      BY <2>2, <1>2
  <1>4. Head(s) \in ToSet(s)
    BY <1>1, <1>2
  <1>5. \A x \in ToSet(Tail(s)) : x \in ToSet(s)
    <2>1. SUFFICES ASSUME NEW i \in 1..(Len(s) - 1) PROVE Tail(s)[i] \in ToSet(s)
      BY <1>2
    <2>2. i + 1 \in 1..Len(s) /\ Tail(s)[i] = s[i + 1]
      BY <1>1
    <2>3. QED
      BY <2>2, <1>2
  <1>6. ASSUME IsInjective(s) PROVE IsInjective(Tail(s)) /\ Head(s) \notin ToSet(Tail(s))
    <2>1. ASSUME NEW i \in DOMAIN Tail(s), NEW j \in DOMAIN Tail(s), Tail(s)[i] = Tail(s)[j]
          PROVE  i = j
      <3>1. i + 1 \in 1..Len(s) /\ j + 1 \in 1..Len(s) /\ s[i + 1] = s[j + 1]
        BY <1>1, <2>1
      <3>2. i + 1 = j + 1
        BY <3>1, <1>6 DEF IsInjective
      <3>3. QED
        BY <3>2
    <2>2. ASSUME NEW i \in 1..(Len(s) - 1), Tail(s)[i] = Head(s) PROVE FALSE
      <3>1. i + 1 \in 1..Len(s) /\ 1 \in 1..Len(s) /\ s[i + 1] = s[1]
        BY <1>1, <2>2
      <3>2. i + 1 = 1
        BY <3>1, <1>6 DEF IsInjective
      <3>3. QED
        BY <3>2
    <2>3. QED
      BY <2>1, <2>2, <1>2 DEF IsInjective
  <1>7. QED
    BY <1>1, <1>3, <1>4, <1>5, <1>6

LEMMA Reversed ==
  ASSUME NEW S, NEW s \in Seq(S)
  PROVE  /\ Reverse(s) \in Seq(S) /\ ToSet(Reverse(s)) = ToSet(s)
         /\ IsInjective(s) => IsInjective(Reverse(s))
  <1> DEFINE n == Len(s)
  <1>1. /\ n \in Nat /\ Reverse(s) = [i \in 1..n |-> s[(n - i) + 1]]
        /\ \A i \in 1..n : (n - i) + 1 \in 1..n /\ (n - ((n - i) + 1)) + 1 = i
        /\ \A i \in 1..n : s[i] \in S
        /\ DOMAIN s = 1..n
    BY DEF Reverse
  <1>2. /\ Reverse(s) \in Seq(S) /\ Len(Reverse(s)) = n
        /\ \A i \in 1..n : Reverse(s)[i] = s[(n - i) + 1]
        /\ DOMAIN Reverse(s) = 1..n
    <2>1. Reverse(s) \in [1..n -> S]
      BY <1>1
    <2>2. QED
      BY <1>1, <2>1
  <1>3. ToSet(s) = {s[i] : i \in 1..n} /\ ToSet(Reverse(s)) = {Reverse(s)[i] : i \in 1..n}
    <2>1. \A t : ToSet(t) = {t[i] : i \in DOMAIN t}
      BY DEF ToSet
    <2>2. QED
      BY <1>1, <1>2, <2>1
  <1> HIDE DEF n
  <1>4. \A x \in ToSet(Reverse(s)) : x \in ToSet(s)
    BY <1>1, <1>2, <1>3
  <1>5. \A x \in ToSet(s) : x \in ToSet(Reverse(s))
    <2>1. SUFFICES ASSUME NEW i \in 1..n PROVE s[i] \in ToSet(Reverse(s))
      BY <1>3
    <2>2. (n - i) + 1 \in 1..n /\ Reverse(s)[(n - i) + 1] = s[i]
      BY <1>1, <1>2
    <2>3. QED
      BY <2>2, <1>3
  <1>6. ASSUME IsInjective(s) PROVE IsInjective(Reverse(s))
    <2>1. SUFFICES ASSUME NEW i \in 1..n, NEW j \in 1..n, Reverse(s)[i] = Reverse(s)[j]
                   PROVE  i = j
      BY <1>2 DEF IsInjective
    <2>2. (n - i) + 1 = (n - j) + 1
      BY <2>1, <1>1, <1>2, <1>6 DEF IsInjective
    <2>3. QED
      BY <2>2, <1>1
  <1>7. QED
    BY <1>2, <1>4, <1>5, <1>6

LEMMA IntroducedLists ==
  ASSUME NEW v \in Versions
  PROVE  /\ Introduced(v) \in Seq(Tables) /\ IsInjective(Introduced(v))
         /\ Guarded(v) \in Seq(Tables)
         /\ ToSet(Guarded(v)) = ToSet(Introduced(v)) \ {"schema_revision"}
  <1>1. /\ CoreTables \in Seq(Tables) /\ IsInjective(CoreTables)
        /\ Tail(CoreTables) \in Seq(Tables)
        /\ ToSet(Tail(CoreTables)) = ToSet(CoreTables) \ {"schema_revision"}
    <2>1. CoreTables \in Seq(Tables)
      <3>1. \A t \in {"schema_revision", "events", "deliveries", "attempts"} : t \in Tables
        BY TableNames DEF Tables
      <3>2. QED
        BY <3>1 DEF CoreTables
    <2>2. IsInjective(CoreTables)
      BY DEF CoreTables, IsInjective
    <2>3. CoreTables # <<>>
      BY DEF CoreTables
    <2>4. Tail(CoreTables) \in Seq(Tables)
      BY <2>1, <2>3, HeadTail
    <2>5. QED
      BY <2>1, <2>2, <2>4, TableNames
  <1>2. WebhookTables \in Seq(Tables) /\ IsInjective(WebhookTables)
    <2>1. WebhookTables \in Seq(Tables)
      <3>1. \A t \in ToSet(WebhookTables) : t \in Tables
        BY DEF Tables
      <3>2. QED
        BY <3>1, TableNames DEF WebhookTables
    <2>2. IsInjective(WebhookTables)
      BY DEF WebhookTables, IsInjective
    <2>3. QED
      BY <2>1, <2>2
  <1>3. TaskiqTables \in Seq(Tables) /\ IsInjective(TaskiqTables)
    <2>1. "taskiq_handoffs" \in Tables
      BY TableNames DEF Tables
    <2>2. QED
      BY <2>1 DEF TaskiqTables, IsInjective
  <1>4. CommandTables \in Seq(Tables) /\ IsInjective(CommandTables)
    <2>1. "commands" \in Tables
      BY TableNames DEF Tables
    <2>2. QED
      BY <2>1 DEF CommandTables, IsInjective
  <1>5. <<>> \in Seq(Tables) /\ IsInjective(<<>>)
    BY DEF IsInjective
  <1>6. "schema_revision" \notin ToSet(WebhookTables) /\ "schema_revision" \notin ToSet(TaskiqTables)
        /\ "schema_revision" \notin ToSet(CommandTables) /\ "schema_revision" \notin ToSet(<<>>)
    BY TableNames
  <1>7. CASE v = 1
    BY <1>7, <1>1 DEF Introduced, Guarded
  <1>8. CASE v = 2
    BY <1>8, <1>2, <1>6 DEF Introduced, Guarded
  <1>9. CASE v = 3
    BY <1>9, <1>3, <1>6 DEF Introduced, Guarded
  <1>10. CASE v = 4
    BY <1>10, <1>4, <1>6 DEF Introduced, Guarded
  <1>11. CASE v = 5
    BY <1>11, <1>5, <1>6 DEF Introduced, Guarded
  <1>12. QED
    BY <1>7, <1>8, <1>9, <1>10, <1>11 DEF Versions

-----------------------------------------------------------------------------
(* Downgrades.                                                               *)

LEMMA WithoutTableDrops ==
  ASSUME NEW cat, Consistent(cat), NEW table \in Tables
  PROVE  /\ Consistent(WithoutTable(cat, table))
         /\ WithoutTable(cat, table).tables = cat.tables \ {table}
         /\ WithoutTable(cat, table).functions = cat.functions
         /\ WithoutTable(cat, table).revision
              = IF table = "schema_revision" THEN [c \in Components |-> 0] ELSE cat.revision
  <1> DEFINE after == WithoutTable(cat, table)
  <1>1. /\ after.tables = cat.tables \ {table} /\ after.functions = cat.functions
        /\ after.policies = {p \in cat.policies : p[2] # table}
        /\ after.grants = {g \in cat.grants : g[2] # table}
        /\ after.revision
             = IF table = "schema_revision" THEN [c \in Components |-> 0] ELSE cat.revision
    BY DEF WithoutTable
  <1>2. after = [tables |-> after.tables, functions |-> after.functions,
                 policies |-> after.policies, grants |-> after.grants, revision |-> after.revision]
    BY DEF WithoutTable
  <1>3. table \notin cat.functions /\ cat.tables \subseteq Tables /\ cat.functions \subseteq Functions
        /\ cat.revision \in [Components -> 0..2]
    <2>1. Tables \cap Functions = {}
      BY Apart DEF Components
    <2>2. QED
      BY <2>1 DEF Consistent, Catalogues
  <1> HIDE DEF after
  <1>4. after.policies = PoliciesOn(after.tables)
    BY <1>1 DEF Consistent, PoliciesOn
  <1>5. after.grants = GrantsOn(after.tables \cup after.functions)
    BY <1>1, <1>3 DEF Consistent, GrantsOn
  <1>6. after.policies \in SUBSET AllPolicies /\ after.grants \in SUBSET AllGrants
    BY <1>4, <1>5 DEF PoliciesOn, GrantsOn
  <1>7. after.tables \in SUBSET Tables /\ after.functions \in SUBSET Functions
        /\ after.revision \in [Components -> 0..2]
    BY <1>1, <1>3
  <1>8. after \in Catalogues
    BY <1>2, <1>6, <1>7 DEF Catalogues
  <1>9. Consistent(after)
    BY <1>4, <1>5, <1>8 DEF Consistent
  <1>10. QED
    BY <1>1, <1>9 DEF after

LEMMA WithoutFunctionDrops ==
  ASSUME NEW cat, Consistent(cat), NEW function \in Functions
  PROVE  /\ Consistent(WithoutFunction(cat, function))
         /\ WithoutFunction(cat, function).tables = cat.tables
         /\ WithoutFunction(cat, function).functions = cat.functions \ {function}
         /\ WithoutFunction(cat, function).revision = cat.revision
  <1> DEFINE after == WithoutFunction(cat, function)
  <1>0. cat \in Catalogues
    BY DEF Consistent
  <1>1. /\ after.tables = cat.tables /\ after.functions = cat.functions \ {function}
        /\ after.policies = cat.policies
        /\ after.grants = {g \in cat.grants : g[2] # function}
        /\ after.revision = cat.revision
    BY DEF WithoutFunction
  <1>2. after = [tables |-> after.tables, functions |-> after.functions,
                 policies |-> after.policies, grants |-> after.grants, revision |-> after.revision]
    BY DEF WithoutFunction
  <1>3. function \notin cat.tables /\ cat.tables \subseteq Tables /\ cat.functions \subseteq Functions
        /\ cat.revision \in [Components -> 0..2]
    <2>1. Tables \cap Functions = {}
      BY Apart DEF Components
    <2>2. QED
      BY <2>1 DEF Consistent, Catalogues
  <1> HIDE DEF after
  <1>4. after.policies = PoliciesOn(after.tables)
    BY <1>1 DEF Consistent
  <1>5. after.grants = GrantsOn(after.tables \cup after.functions)
    BY <1>1, <1>3 DEF Consistent, GrantsOn
  <1>6. after.policies \in SUBSET AllPolicies /\ after.grants \in SUBSET AllGrants
    BY <1>4, <1>5 DEF PoliciesOn, GrantsOn
  <1>7. after.tables \in SUBSET Tables /\ after.functions \in SUBSET Functions
        /\ after.revision \in [Components -> 0..2]
    BY <1>1, <1>3
  <1>8. after \in Catalogues
    BY <1>2, <1>6, <1>7 DEF Catalogues
  <1>9. Consistent(after)
    BY <1>4, <1>5, <1>8 DEF Consistent
  <1>10. QED
    BY <1>1, <1>9 DEF after

LEMMA MarkedRow ==
  ASSUME NEW cat, Consistent(cat), NEW component \in Components, NEW revision \in 0..2
  PROVE  Adds(cat, Marked(cat, component, revision), component, revision, {}, {})
  <1> DEFINE after == Marked(cat, component, revision)
  <1>0. cat \in Catalogues /\ cat.revision \in [Components -> 0..2]
    BY DEF Consistent, Catalogues
  <1>1. /\ after.tables = cat.tables /\ after.functions = cat.functions
        /\ after.policies = cat.policies /\ after.grants = cat.grants
        /\ after.revision = [cat.revision EXCEPT ![component] = revision]
    BY <1>0 DEF Marked, Catalogues
  <1>2. after = [tables |-> after.tables, functions |-> after.functions,
                 policies |-> after.policies, grants |-> after.grants, revision |-> after.revision]
    BY <1>0 DEF Marked, Catalogues
  <1> HIDE DEF after
  <1>3. after.revision \in [Components -> 0..2]
    BY <1>0, <1>1
  <1>4. after \in Catalogues
    BY <1>0, <1>1, <1>2, <1>3 DEF Catalogues
  <1>5. Consistent(after)
    BY <1>1, <1>4 DEF Consistent
  <1>6. QED
    BY <1>1, <1>5 DEF after, Adds

\* The row revision v's downgrade leaves.
Left(v, cat) == IF v = 5 THEN Rewritten(cat, "webhooks", 1) ELSE 0

LEMMA ForgottenDrops ==
  ASSUME NEW v \in Versions, NEW cat, Consistent(cat)
  PROVE  /\ Consistent(Forgotten(v, cat))
         /\ Forgotten(v, cat).tables = cat.tables
         /\ Forgotten(v, cat).functions = cat.functions \ Built(v)
         /\ Forgotten(v, cat).revision
              = IF v = 1 THEN cat.revision ELSE [cat.revision EXCEPT ![Component(v)] = Left(v, cat)]
  <1>0. /\ {"core", "webhooks", "executor.taskiq", "commands"} = Components
        /\ {"guard_command_mutation", "prune_commands", "prune_webhook_history"} = Functions
        /\ 0 \in 0..2
    BY DEF Components, Functions
  <1>1. CASE v = 1
    <2>1. Forgotten(v, cat) = cat /\ Built(v) = {}
      BY <1>1 DEF Forgotten, Built
    <2>2. QED
      BY <2>1, <1>1
  <1>2. CASE v = 2
    <2>1. /\ Forgotten(v, cat) = Marked(cat, "webhooks", 0)
          /\ Built(v) = {} /\ Component(v) = "webhooks" /\ Left(v, cat) = 0
      BY <1>2 DEF Forgotten, Built, Component, Left
    <2>2. Adds(cat, Marked(cat, "webhooks", 0), "webhooks", 0, {}, {})
      BY <1>0, MarkedRow, Zenon
    <2>3. QED
      BY <2>1, <2>2, <1>2 DEF Adds
  <1>3. CASE v = 3
    <2>1. /\ Forgotten(v, cat) = Marked(cat, "executor.taskiq", 0)
          /\ Built(v) = {} /\ Component(v) = "executor.taskiq" /\ Left(v, cat) = 0
      BY <1>3 DEF Forgotten, Built, Component, Left
    <2>2. Adds(cat, Marked(cat, "executor.taskiq", 0), "executor.taskiq", 0, {}, {})
      BY <1>0, MarkedRow, Zenon
    <2>3. QED
      BY <2>1, <2>2, <1>3 DEF Adds
  <1>4. CASE v = 4
    <2> DEFINE first == WithoutFunction(cat, "prune_commands")
               second == WithoutFunction(first, "guard_command_mutation")
    <2>1. /\ Forgotten(v, cat) = Marked(second, "commands", 0)
          /\ Built(v) = {"guard_command_mutation", "prune_commands"}
          /\ Component(v) = "commands" /\ Left(v, cat) = 0
      BY <1>4, ObjectNames DEF Forgotten, Built, Component, Left
    <2>2. /\ Consistent(first) /\ first.tables = cat.tables
          /\ first.functions = cat.functions \ {"prune_commands"} /\ first.revision = cat.revision
      BY <1>0, WithoutFunctionDrops
    <2> HIDE DEF first
    <2>3. /\ Consistent(second) /\ second.tables = first.tables
          /\ second.functions = first.functions \ {"guard_command_mutation"}
          /\ second.revision = first.revision
      BY <1>0, <2>2, WithoutFunctionDrops
    <2> HIDE DEF second
    <2>4. Adds(second, Marked(second, "commands", 0), "commands", 0, {}, {})
      BY <1>0, <2>3, MarkedRow, Zenon
    <2>5. QED
      BY <2>1, <2>2, <2>3, <2>4, <1>4 DEF Adds
  <1>5. CASE v = 5
    <2> DEFINE first == WithoutFunction(cat, "prune_webhook_history")
    <2>1. /\ Forgotten(v, cat) = Marked(first, "webhooks", Rewritten(cat, "webhooks", 1))
          /\ Built(v) = {"prune_webhook_history"}
          /\ Component(v) = "webhooks" /\ Left(v, cat) = Rewritten(cat, "webhooks", 1)
      BY <1>5, ObjectNames DEF Forgotten, Built, Component, Left
    <2>2. /\ Consistent(first) /\ first.tables = cat.tables
          /\ first.functions = cat.functions \ {"prune_webhook_history"}
          /\ first.revision = cat.revision
      BY <1>0, WithoutFunctionDrops
    <2>3. Rewritten(cat, "webhooks", 1) \in 0..2
      BY DEF Rewritten
    <2> HIDE DEF first
    <2>4. Adds(first, Marked(first, "webhooks", Rewritten(cat, "webhooks", 1)),
               "webhooks", Rewritten(cat, "webhooks", 1), {}, {})
      BY <1>0, <2>2, <2>3, MarkedRow, Zenon
    <2>5. QED
      BY <2>1, <2>2, <2>4, <1>5 DEF Adds
  <1>6. QED
    BY <1>1, <1>2, <1>3, <1>4, <1>5 DEF Versions

\* The row of revision v's component does not vouch for what v added.
Unmarked(v, cat) == IF v = 5 THEN cat.revision["webhooks"] # 2 ELSE cat.revision[Component(v)] = 0

LEMMA ForgottenTells ==
  ASSUME NEW v \in Versions, v # 1, NEW cat, Consistent(cat), Told(cat)
  PROVE  Told(Forgotten(v, cat)) /\ Unmarked(v, Forgotten(v, cat))
  <1> DEFINE after == Forgotten(v, cat)
  <1>1. /\ after.tables = cat.tables /\ after.functions = cat.functions \ Built(v)
        /\ after.revision = [cat.revision EXCEPT ![Component(v)] = Left(v, cat)]
    BY ForgottenDrops
  <1>2. /\ Component(v) \in Components /\ Built(v) \subseteq Routines(Component(v))
        /\ Component(v) # "core" /\ "core" \in Components /\ "webhooks" \in Components
    BY IntroducedTables DEF Component, Versions, Components
  <1>3. cat.revision \in [Components -> 0..2]
    BY DEF Consistent, Catalogues
  <1> HIDE DEF after
  <1>4. after.revision[Component(v)] = Left(v, cat) /\ Left(v, cat) # Registry[Component(v)]
        /\ (v # 5 => Left(v, cat) = 0)
    <2>1. Left(v, cat) # Registry[Component(v)]
      BY RegistryValues DEF Left, Rewritten, Component, Versions
    <2>2. QED
      BY <1>1, <1>2, <1>3, <2>1 DEF Left
  <1>5. Unmarked(v, after)
    BY <1>4, RegistryValues DEF Unmarked, Component
  <1>6. ASSUME NEW c \in Components, after.revision[c] = Registry[c]
        PROVE  Whole(after, c)
    <2>1. c # Component(v)
      BY <1>4, <1>6
    <2>2. after.revision[c] = cat.revision[c]
      BY <2>1, <1>1, <1>2, <1>3
    <2>3. Whole(cat, c)
      BY <2>2, <1>6 DEF Told
    <2>4. Routines(c) \cap Routines(Component(v)) = {}
      BY <2>1, <1>2, Apart
    <2>5. QED
      BY <2>3, <2>4, <1>1, <1>2 DEF Whole
  <1>7. after.revision["core"] = cat.revision["core"]
    BY <1>1, <1>2, <1>3
  <1>8. after.revision["webhooks"] # 0 => cat.revision["webhooks"] # 0
    <2>1. CASE Component(v) = "webhooks"
      BY <2>1, <1>4 DEF Left, Rewritten
    <2>2. CASE Component(v) # "webhooks"
      BY <2>2, <1>1, <1>2, <1>3
    <2>3. QED
      BY <2>1, <2>2
  <1>9. Told(after)
    BY <1>1, <1>6, <1>7, <1>8 DEF Told
  <1>10. QED
    BY <1>5, <1>9 DEF after

LEMMA DropTells ==
  ASSUME NEW v \in Versions, v # 1, NEW cat, Consistent(cat), Told(cat), Unmarked(v, cat),
         NEW table \in ToSet(Introduced(v))
  PROVE  Told(WithoutTable(cat, table)) /\ Unmarked(v, WithoutTable(cat, table))
  <1> DEFINE after == WithoutTable(cat, table)
  <1>1. v # 5 /\ table \in Touches(Component(v)) /\ Component(v) \in Components /\ table \in Tables
        /\ "core" \in Components /\ "webhooks" \in Components
    BY IntroducedTables DEF Components
  <1>2. Component(v) # "core"
    BY DEF Component, Versions
  <1>3. table \notin Touches("core") /\ table # "schema_revision"
    BY <1>1, <1>2, Apart, ObjectNames
  <1>4. /\ after.tables = cat.tables \ {table} /\ after.functions = cat.functions
        /\ after.revision = cat.revision
    BY <1>1, <1>3, WithoutTableDrops
  <1>5. cat.revision[Component(v)] = 0
    BY <1>1 DEF Unmarked
  <1> HIDE DEF after
  <1>6. ASSUME NEW c \in Components, after.revision[c] = Registry[c]
        PROVE  Whole(after, c)
    <2>1. c # Component(v)
      BY <1>4, <1>5, <1>6, <1>1, RegistryValues DEF Components
    <2>2. table \notin Touches(c)
      BY <2>1, <1>1, Apart
    <2>3. Whole(cat, c)
      BY <1>4, <1>6 DEF Told
    <2>4. QED
      BY <2>2, <2>3, <1>4 DEF Whole
  <1>7. after.revision["webhooks"] # 0 => Touches("webhooks") \subseteq after.tables
    <2>1. SUFFICES ASSUME cat.revision["webhooks"] # 0
                   PROVE  Touches("webhooks") \subseteq after.tables
      BY <1>4
    <2>2. Component(v) # "webhooks"
      BY <2>1, <1>5
    <2>3. table \notin Touches("webhooks")
      BY <2>2, <1>1, Apart
    <2>4. QED
      BY <2>1, <2>3, <1>4 DEF Told
  <1>8. Told(after)
    BY <1>3, <1>4, <1>6, <1>7 DEF Told
  <1>9. QED
    BY <1>1, <1>4, <1>5, <1>8 DEF Unmarked, after

LEMMA EmptiedSchema ==
  ASSUME NEW cat, Consistent(cat), cat.tables = {}, cat.functions = {},
         \A c \in Components : cat.revision[c] = 0
  PROVE  cat = Empty
  <1>1. cat.revision = [c \in Components |-> 0]
    BY DEF Consistent, Catalogues
  <1>2. QED
    BY <1>1, SameCatalogue, EmptyConsistent DEF Empty

\* Forgetting revision v takes the schema of v to that of the version before,
\* but for the tables to drop.
LEMMA ForgottenSchema ==
  ASSUME NEW v \in Versions
  PROVE  LET work == Forgotten(v, SchemaAt[v])
             before == SchemaAt[v - 1]
         IN /\ work.functions = before.functions
            /\ work.tables = before.tables \cup ToSet(Introduced(v))
            /\ v # 1 => work.revision = before.revision
  <1> DEFINE before == SchemaAt[v - 1]
             work == Forgotten(v, SchemaAt[v])
  <1>1. v \in 0..5 /\ v - 1 \in 0..5
    BY DEF Versions
  <1>2. Consistent(SchemaAt[v]) /\ Consistent(before)
    BY <1>1, SchemaGrown
  <1>3. /\ work.tables = SchemaAt[v].tables /\ work.functions = SchemaAt[v].functions \ Built(v)
        /\ v # 1 => work.revision = [SchemaAt[v].revision EXCEPT ![Component(v)] = Left(v, SchemaAt[v])]
    BY <1>2, ForgottenDrops
  <1>4. SchemaAt[v].revision = [before.revision EXCEPT ![Component(v)] = Mark(v, before)]
    BY <1>1, <1>2, SchemaSteps, UpgradeAdds
  <1>5. before.revision \in [Components -> 0..2] /\ Component(v) \in Components
    BY <1>2, IntroducedTables DEF Consistent, Catalogues
  <1>6. Left(v, SchemaAt[v]) = before.revision[Component(v)]
    <2>1. CASE v = 5
      <3>1. before.revision["webhooks"] = 1 /\ Component(v) = "webhooks"
        BY <2>1, SchemaRevisions DEF Component
      <3>2. SchemaAt[v].revision["webhooks"] = 2
        BY <3>1, <2>1, <1>4, <1>5 DEF Mark, Rewritten
      <3>3. QED
        BY <3>1, <3>2, <2>1 DEF Left, Rewritten
    <2>2. CASE v # 5
      <3>1. before.revision[Component(v)] = 0
        BY <2>2, SchemaRevisions DEF Component, Versions
      <3>2. QED
        BY <3>1, <2>2 DEF Left
    <2>3. QED
      BY <2>1, <2>2
  <1> HIDE DEF before, work
  <1>7. v # 1 => work.revision = before.revision
    BY <1>3, <1>4, <1>5, <1>6
  <1>8. work.functions = before.functions /\ work.tables = before.tables \cup ToSet(Introduced(v))
    BY <1>3, SchemaDisjoint DEF before
  <1>9. QED
    BY <1>7, <1>8 DEF before, work

-----------------------------------------------------------------------------
(* What the runtime may do in a whole component.                             *)

MayUse(role, object, privilege) ==
  \E g \in AllGrants : g[1] = role /\ g[2] = object /\ privilege \in g[3]
Reaches(role, table, command) ==
  \E p \in AllPolicies : p[1] = role /\ p[2] = table /\ command \in p[3]

LEMMA GrantPermits ==
  ASSUME NEW role, NEW objects, NEW privileges, Grant(role, objects, privileges) \subseteq AllGrants,
         NEW object \in objects, NEW privilege \in privileges
  PROVE  MayUse(role, object, privilege)
  <1>1. <<role, object, privileges>> \in Grant(role, objects, privileges)
    BY DEF Grant
  <1>2. <<role, object, privileges>> \in AllGrants
    BY <1>1
  <1>3. QED
    BY <1>2 DEF MayUse

LEMMA PolicyPermits ==
  ASSUME NEW role, NEW tables, NEW commands, NEW which,
         Policy(role, tables, commands, which) \subseteq AllPolicies,
         NEW table \in tables, NEW command \in commands
  PROVE  Reaches(role, table, command)
  <1>1. <<role, table, commands, which>> \in Policy(role, tables, commands, which)
    BY DEF Policy
  <1>2. <<role, table, commands, which>> \in AllPolicies
    BY <1>1
  <1>3. QED
    BY <1>2 DEF Reaches

LEMMA ApplicationMay ==
  /\ \A o \in {"events", "deliveries"}, x \in {"SELECT", "INSERT"} : MayUse("application", o, x)
  /\ MayUse("application", "attempts", "SELECT") /\ MayUse("application", "schema_revision", "SELECT")
  /\ \A o \in Touches("webhooks") \ {"webhook_audit"}, x \in All : MayUse("application", o, x)
  /\ MayUse("application", "webhook_audit", "INSERT")
  /\ MayUse("application", "prune_webhook_history", "EXECUTE")
  /\ MayUse("application", "taskiq_handoffs", "SELECT")
  /\ \A x \in All : MayUse("application", "commands", x)
  <1>1. \A o \in {"events", "deliveries"}, x \in {"SELECT", "INSERT"} : MayUse("application", o, x)
    <2>1. Grant("application", {"events", "deliveries"}, {"SELECT", "INSERT"}) \subseteq AllGrants
      BY DEF AllGrants, core_grants
    <2>2. QED
      BY <2>1, GrantPermits, Zenon
  <1>2. \A o \in {"attempts", "schema_revision"}, x \in {"SELECT"} : MayUse("application", o, x)
    <2>1. Grant("application", {"attempts", "schema_revision"}, {"SELECT"}) \subseteq AllGrants
      BY DEF AllGrants, core_grants
    <2>2. QED
      BY <2>1, GrantPermits, Zenon
  <1>3. \A o \in Touches("webhooks") \ {"webhook_audit"}, x \in All : MayUse("application", o, x)
    <2>1. Grant("application", Touches("webhooks") \ {"webhook_audit"}, All) \subseteq AllGrants
      BY DEF AllGrants, webhook_grants, Touches
    <2>2. QED
      BY <2>1, GrantPermits, Zenon
  <1>4. \A o \in {"webhook_audit"}, x \in {"SELECT", "INSERT"} : MayUse("application", o, x)
    <2>1. Grant("application", {"webhook_audit"}, {"SELECT", "INSERT"}) \subseteq AllGrants
      BY DEF AllGrants, webhook_grants
    <2>2. QED
      BY <2>1, GrantPermits, Zenon
  <1>5. \A o \in {"prune_webhook_history"}, x \in {"EXECUTE"} : MayUse("application", o, x)
    <2>1. Grant("application", {"prune_webhook_history"}, {"EXECUTE"}) \subseteq AllGrants
      BY DEF AllGrants, retention_grants
    <2>2. QED
      BY <2>1, GrantPermits, Zenon
  <1>6. \A o \in {"taskiq_handoffs"}, x \in {"SELECT"} : MayUse("application", o, x)
    <2>1. Grant("application", {"taskiq_handoffs"}, {"SELECT"}) \subseteq AllGrants
      BY DEF AllGrants, executor_grants
    <2>2. QED
      BY <2>1, GrantPermits, Zenon
  <1>7. \A o \in {"commands"}, x \in All : MayUse("application", o, x)
    <2>1. Grant("application", {"commands"}, All) \subseteq AllGrants
      BY DEF AllGrants, command_grants
    <2>2. QED
      BY <2>1, GrantPermits, Zenon
  <1>8. QED
    BY <1>1, <1>2, <1>3, <1>4, <1>5, <1>6, <1>7

LEMMA RelayMay ==
  /\ MayUse("relay", "events", "SELECT")
  /\ \A o \in {"deliveries", "attempts"}, x \in {"SELECT", "INSERT", "UPDATE"} : MayUse("relay", o, x)
  /\ \A o \in Touches("webhooks") \ {"webhook_audit"} : MayUse("relay", o, "SELECT")
  /\ MayUse("relay", "webhook_subscriptions", "UPDATE")
  /\ MayUse("relay", "webhook_audit", "INSERT")
  /\ \A x \in {"SELECT", "INSERT", "UPDATE"} : MayUse("relay", "taskiq_handoffs", x)
  /\ MayUse("relay", "prune_commands", "EXECUTE")
  <1>1. \A o \in {"events", "schema_revision"}, x \in {"SELECT"} : MayUse("relay", o, x)
    <2>1. Grant("relay", {"events", "schema_revision"}, {"SELECT"}) \subseteq AllGrants
      BY DEF AllGrants, core_grants
    <2>2. QED
      BY <2>1, GrantPermits, Zenon
  <1>2. \A o \in {"deliveries", "attempts"}, x \in {"SELECT", "INSERT", "UPDATE"} : MayUse("relay", o, x)
    <2>1. Grant("relay", {"deliveries", "attempts"}, {"SELECT", "INSERT", "UPDATE"}) \subseteq AllGrants
      BY DEF AllGrants, core_grants
    <2>2. QED
      BY <2>1, GrantPermits, Zenon
  <1>3. \A o \in Touches("webhooks") \ {"webhook_audit"}, x \in {"SELECT"} : MayUse("relay", o, x)
    <2>1. Grant("relay", Touches("webhooks") \ {"webhook_audit"}, {"SELECT"}) \subseteq AllGrants
      BY DEF AllGrants, webhook_grants, Touches
    <2>2. QED
      BY <2>1, GrantPermits, Zenon
  <1>4. \A o \in {"webhook_subscriptions"}, x \in {"UPDATE"} : MayUse("relay", o, x)
    <2>1. Grant("relay", {"webhook_subscriptions"}, {"UPDATE"}) \subseteq AllGrants
      BY DEF AllGrants, webhook_grants
    <2>2. QED
      BY <2>1, GrantPermits, Zenon
  <1>5. \A o \in {"webhook_audit"}, x \in {"INSERT"} : MayUse("relay", o, x)
    <2>1. Grant("relay", {"webhook_audit"}, {"INSERT"}) \subseteq AllGrants
      BY DEF AllGrants, webhook_grants
    <2>2. QED
      BY <2>1, GrantPermits, Zenon
  <1>6. \A o \in {"taskiq_handoffs"}, x \in {"SELECT", "INSERT", "UPDATE"} : MayUse("relay", o, x)
    <2>1. Grant("relay", {"taskiq_handoffs"}, {"SELECT", "INSERT", "UPDATE"}) \subseteq AllGrants
      BY DEF AllGrants, executor_grants
    <2>2. QED
      BY <2>1, GrantPermits, Zenon
  <1>7. \A o \in {"prune_commands"}, x \in {"EXECUTE"} : MayUse("relay", o, x)
    <2>1. Grant("relay", {"prune_commands"}, {"EXECUTE"}) \subseteq AllGrants
      BY DEF AllGrants, command_grants
    <2>2. QED
      BY <2>1, GrantPermits, Zenon
  <1>8. QED
    BY <1>1, <1>2, <1>3, <1>4, <1>5, <1>6, <1>7

\* Each table the runtime works in has a policy for what it does there.
LEMMA TablesReached ==
  /\ \A t \in {"events", "deliveries", "attempts"}, x \in All : Reaches("application", t, x)
  /\ Reaches("relay", "events", "SELECT")
  /\ \A t \in {"deliveries", "attempts"}, x \in All : Reaches("relay", t, x)
  /\ \A t \in Touches("webhooks"), x \in All : Reaches("application", t, x)
  /\ \A t \in Touches("webhooks") \ {"webhook_audit"} : Reaches("relay", t, "SELECT")
  /\ Reaches("relay", "webhook_subscriptions", "UPDATE")
  /\ Reaches("relay", "webhook_audit", "INSERT")
  /\ Reaches("application", "taskiq_handoffs", "SELECT")
  /\ \A x \in All : Reaches("relay", "taskiq_handoffs", x)
  /\ \A x \in All : Reaches("application", "commands", x)
  <1>1. \A t \in ToSet(CoreTables) \ {"schema_revision"}, x \in All : Reaches("application", t, x)
    <2>1. Policy("application", ToSet(CoreTables) \ {"schema_revision"}, All, "tenant") \subseteq AllPolicies
      BY DEF AllPolicies, core_rls, Controlled
    <2>2. QED
      BY <2>1, PolicyPermits, Zenon
  <1>2. \A t \in {"events"}, x \in {"SELECT"} : Reaches("relay", t, x)
    <2>1. Policy("relay", {"events"}, {"SELECT"}, "all") \subseteq AllPolicies
      BY DEF AllPolicies, core_rls
    <2>2. QED
      BY <2>1, PolicyPermits, Zenon
  <1>3. \A t \in {"deliveries", "attempts"}, x \in All : Reaches("relay", t, x)
    <2>1. Policy("relay", {"deliveries", "attempts"}, All, "all") \subseteq AllPolicies
      BY DEF AllPolicies, core_rls
    <2>2. QED
      BY <2>1, PolicyPermits, Zenon
  <1>4. \A t \in Touches("webhooks"), x \in All : Reaches("application", t, x)
    <2>1. Policy("application", Touches("webhooks"), All, "tenant") \subseteq AllPolicies
      BY DEF AllPolicies, webhook_rls, Controlled, Touches
    <2>2. QED
      BY <2>1, PolicyPermits, Zenon
  <1>5. \A t \in Touches("webhooks") \ {"webhook_audit"}, x \in {"SELECT"} : Reaches("relay", t, x)
    <2>1. Policy("relay", Touches("webhooks") \ {"webhook_audit"}, {"SELECT"}, "all") \subseteq AllPolicies
      BY DEF AllPolicies, webhook_rls, Touches
    <2>2. QED
      BY <2>1, PolicyPermits, Zenon
  <1>6. \A t \in {"webhook_subscriptions"}, x \in {"UPDATE"} : Reaches("relay", t, x)
    <2>1. Policy("relay", {"webhook_subscriptions"}, {"UPDATE"}, "all") \subseteq AllPolicies
      BY DEF AllPolicies, webhook_rls
    <2>2. QED
      BY <2>1, PolicyPermits, Zenon
  <1>7. \A t \in {"webhook_audit"}, x \in {"INSERT"} : Reaches("relay", t, x)
    <2>1. Policy("relay", {"webhook_audit"}, {"INSERT"}, "all") \subseteq AllPolicies
      BY DEF AllPolicies, webhook_rls
    <2>2. QED
      BY <2>1, PolicyPermits, Zenon
  <1>8. \A t \in {"taskiq_handoffs"}, x \in {"SELECT"} : Reaches("application", t, x)
    <2>1. Policy("application", {"taskiq_handoffs"}, {"SELECT"}, "tenant") \subseteq AllPolicies
      BY DEF AllPolicies, executor_rls
    <2>2. QED
      BY <2>1, PolicyPermits, Zenon
  <1>9. \A t \in {"taskiq_handoffs"}, x \in All : Reaches("relay", t, x)
    <2>1. Policy("relay", {"taskiq_handoffs"}, All, "all") \subseteq AllPolicies
      BY DEF AllPolicies, executor_rls
    <2>2. QED
      BY <2>1, PolicyPermits, Zenon
  <1>10. \A t \in {"commands"}, x \in All : Reaches("application", t, x)
    <2>1. Policy("application", {"commands"}, All, "tenant") \subseteq AllPolicies
      BY DEF AllPolicies, command_rls, Controlled
    <2>2. QED
      BY <2>1, PolicyPermits, Zenon
  <1>11. ToSet(CoreTables) \ {"schema_revision"} = {"events", "deliveries", "attempts"}
    BY TableNames
  <1>12. QED
    BY <1>1, <1>2, <1>3, <1>4, <1>5, <1>6, <1>7, <1>8, <1>9, <1>10, <1>11

\* Every use of a component is on its objects, granted and let through.
UseOK(component, u) ==
  /\ u[2] \in Touches(component) \cup Routines(component)
  /\ \A privilege \in u[3] :
       /\ MayUse(u[1], u[2], privilege)
       /\ u[2] \in Tables \ {"schema_revision"} => Reaches(u[1], u[2], privilege)

LEMMA CoreUses == \A u \in Uses("core") : UseOK("core", u)
  <1> USE DEF UseOK, All
  <1>1. \A u \in Grant("application", {"events", "deliveries"}, {"SELECT", "INSERT"}) : UseOK("core", u)
    BY GrantFields, ApplicationMay, TablesReached, ObjectNames
  <1>2. \A u \in Grant("application", {"attempts"}, {"SELECT"}) : UseOK("core", u)
    BY GrantFields, ApplicationMay, TablesReached, ObjectNames
  <1>3. \A u \in Grant("relay", {"events"}, {"SELECT"}) : UseOK("core", u)
    BY GrantFields, RelayMay, TablesReached, ObjectNames
  <1>4. \A u \in Grant("relay", {"deliveries", "attempts"}, {"SELECT", "INSERT", "UPDATE"}) : UseOK("core", u)
    BY GrantFields, RelayMay, TablesReached, ObjectNames
  <1>5. \A u \in Grant("application", {"schema_revision"}, {"SELECT"}) : UseOK("core", u)
    BY GrantFields, ApplicationMay, ObjectNames
  <1> HIDE DEF UseOK
  <1>6. QED
    BY <1>1, <1>2, <1>3, <1>4, <1>5 DEF Uses

LEMMA WebhookUses == \A u \in Uses("webhooks") : UseOK("webhooks", u)
  <1>0. ToSet(WebhookTables) = Touches("webhooks")
    BY DEF Touches
  <1> USE DEF UseOK, All
  <1>1. \A u \in Grant("application", Touches("webhooks") \ {"webhook_audit"},
                {"SELECT", "INSERT", "UPDATE"}) :
          UseOK("webhooks", u)
    BY GrantFields, ApplicationMay, TablesReached
  <1>2. \A u \in Grant("application", {"webhook_audit"}, {"INSERT"}) : UseOK("webhooks", u)
    BY GrantFields, ApplicationMay, TablesReached, ObjectNames
  <1>3. \A u \in Grant("relay", Touches("webhooks") \ {"webhook_audit"}, {"SELECT"}) : UseOK("webhooks", u)
    BY GrantFields, RelayMay, TablesReached
  <1>4. \A u \in Grant("relay", {"webhook_subscriptions"}, {"UPDATE"}) : UseOK("webhooks", u)
    BY GrantFields, RelayMay, TablesReached, ObjectNames
  <1>5. \A u \in Grant("relay", {"webhook_audit"}, {"INSERT"}) : UseOK("webhooks", u)
    BY GrantFields, RelayMay, TablesReached, ObjectNames
  <1>6. \A u \in Grant("application", {"prune_webhook_history"}, {"EXECUTE"}) : UseOK("webhooks", u)
    <2>1. "prune_webhook_history" \notin Tables
      BY TableNames DEF Tables
    <2>2. QED
      BY <2>1, GrantFields, ApplicationMay, ObjectNames
  <1> HIDE DEF UseOK
  <1>7. QED
    BY <1>0, <1>1, <1>2, <1>3, <1>4, <1>5, <1>6 DEF Uses

LEMMA TaskiqUses == \A u \in Uses("executor.taskiq") : UseOK("executor.taskiq", u)
  <1> USE DEF UseOK, All
  <1>1. \A u \in Grant("application", {"taskiq_handoffs"}, {"SELECT"}) : UseOK("executor.taskiq", u)
    BY GrantFields, ApplicationMay, TablesReached, ObjectNames
  <1>2. \A u \in Grant("relay", {"taskiq_handoffs"}, {"SELECT", "INSERT", "UPDATE"}) :
             UseOK("executor.taskiq", u)
    BY GrantFields, RelayMay, TablesReached, ObjectNames
  <1> HIDE DEF UseOK
  <1>3. QED
    BY <1>1, <1>2 DEF Uses

LEMMA CommandUses == \A u \in Uses("commands") : UseOK("commands", u)
  <1> USE DEF UseOK, All
  <1>1. \A u \in Grant("application", {"commands"}, {"SELECT", "INSERT", "UPDATE"}) : UseOK("commands", u)
    BY GrantFields, ApplicationMay, TablesReached, ObjectNames
  <1>2. \A u \in Grant("relay", {"prune_commands"}, {"EXECUTE"}) : UseOK("commands", u)
    <2>1. "prune_commands" \notin Tables
      BY TableNames DEF Tables
    <2>2. QED
      BY <2>1, GrantFields, RelayMay, ObjectNames
  <1> HIDE DEF UseOK
  <1>3. QED
    BY <1>1, <1>2 DEF Uses

\* A whole component serves its runtime.
LEMMA WholeServes ==
  ASSUME NEW cat, Consistent(cat), NEW component \in Components, Whole(cat, component)
  PROVE  Serves(cat, component)
  <1>1. \A u \in Uses(component) : UseOK(component, u)
    BY CoreUses, WebhookUses, TaskiqUses, CommandUses DEF Components
  <1>2. SUFFICES ASSUME NEW u \in Uses(component), NEW privilege \in u[3]
                 PROVE  /\ Permitted(cat, u[1], u[2], privilege)
                        /\ u[2] \in cat.tables \cup cat.functions
                        /\ u[2] \in Tables \ {"schema_revision"}
                             => Reached(cat, u[1], u[2], privilege) # {}
    BY DEF Serves
  <1>3. u[2] \in cat.tables \cup cat.functions
    BY <1>1 DEF UseOK, Whole
  <1>4. PICK g \in AllGrants : g[1] = u[1] /\ g[2] = u[2] /\ privilege \in g[3]
    BY <1>1 DEF UseOK, MayUse
  <1>5. g \in cat.grants
    BY <1>3, <1>4 DEF Consistent, GrantsOn
  <1>6. ASSUME u[2] \in Tables \ {"schema_revision"}
        PROVE  Reached(cat, u[1], u[2], privilege) # {}
    <2>1. PICK p \in AllPolicies : p[1] = u[1] /\ p[2] = u[2] /\ privilege \in p[3]
      BY <1>1, <1>6 DEF UseOK, Reaches
    <2>2. u[2] \in cat.tables
      <3>1. Tables \cap Functions = {} /\ cat.functions \subseteq Functions
        BY Apart DEF Consistent, Catalogues
      <3>2. QED
        BY <3>1, <1>3, <1>6
    <2>3. p \in Reached(cat, u[1], u[2], privilege)
      BY <2>1, <2>2 DEF Consistent, PoliciesOn, Reached
    <2>4. QED
      BY <2>3
  <1>7. QED
    BY <1>3, <1>4, <1>5, <1>6 DEF Permitted

-----------------------------------------------------------------------------
(* The committed schema and the one in the migration transaction.            *)

Migrators ==
  [phase : {"idle", "look", "drop"}, at : 0..5, target : 0..5, todo : Seq(Tables),
   work : Catalogues, dropped : SUBSET Tables, found : [Exercised -> SUBSET Owners]]

DowngradeOK(m) ==
  /\ m.at \in 1..5 /\ m.target \in 0..(m.at - 1)
  /\ Consistent(m.work)
  /\ m.phase = "look" => Told(m.work) /\ ToSet(m.todo) \subseteq ToSet(Guarded(m.at))
  /\ m.phase = "drop" =>
       /\ ToSet(m.todo) \subseteq ToSet(Introduced(m.at))
       /\ m.at # 1 => Told(m.work) /\ Unmarked(m.at, m.work)
       /\ m.at = 1 => \/ "schema_revision" \in ToSet(m.todo)
                      \/ \A component \in Components : m.work.revision[component] = 0

CatalogueInv ==
  /\ version \in 0..5
  /\ Consistent(catalogue) /\ Told(catalogue)
  /\ rows \in [Exercised -> SUBSET Owners]
  /\ migrator \in Migrators
  /\ migrator.phase # "idle" => DowngradeOK(migrator)

LEMMA RestingType == Resting \in Migrators /\ Resting.phase = "idle"
  <1>1. Empty \in Catalogues
    BY EmptyConsistent DEF Consistent
  <1>2. <<>> \in Seq(Tables)
    OBVIOUS
  <1>3. [t \in Exercised |-> {}] \in [Exercised -> SUBSET Owners]
    OBVIOUS
  <1>4. QED
    BY <1>1, <1>2, <1>3 DEF Resting, Migrators

LEMMA CatalogueInit == Init => CatalogueInv
  BY EmptyConsistent, EmptyTold, RestingType DEF Init, CatalogueInv

LEMMA UpgradeCatalogue ==
  ASSUME CatalogueInv, NEW target \in Targets, Upgrade(target)
  PROVE  CatalogueInv'
  <1>1. Grown(catalogue, catalogue')
    BY UpgradedGrows DEF CatalogueInv, Upgrade
  <1>2. version' \in 0..5
    BY DeploymentAssumption DEF Upgrade
  <1>3. UNCHANGED <<rows, migrator>>
    BY DEF Upgrade
  <1>4. QED
    BY <1>1, <1>2, <1>3 DEF CatalogueInv, Grown

LEMMA DowngradeCatalogue ==
  ASSUME CatalogueInv, NEW target \in Targets, Downgrade(target)
  PROVE  CatalogueInv'
  <1>1. /\ migrator' = [Resting EXCEPT !.phase = "look", !.at = version, !.target = target,
                                 !.todo = Guarded(version), !.work = catalogue, !.found = rows]
        /\ target < version /\ version \in 1..5 /\ target \in 0..5
    BY DeploymentAssumption DEF Downgrade, CatalogueInv
  <1>2. /\ migrator'.phase = "look" /\ migrator'.at = version /\ migrator'.target = target
        /\ migrator'.todo = Guarded(version) /\ migrator'.work = catalogue
        /\ migrator'.dropped = {} /\ migrator'.found = rows
    BY <1>1 DEF Resting
  <1>3. version \in Versions /\ Guarded(version) \in Seq(Tables)
    BY <1>1, IntroducedLists DEF Versions
  <1>4. migrator' \in Migrators
    <2>1. catalogue \in Catalogues /\ rows \in [Exercised -> SUBSET Owners]
      BY DEF CatalogueInv, Consistent
    <2>2. migrator' = [phase |-> "look", at |-> version, target |-> target,
                       todo |-> Guarded(version), work |-> catalogue, dropped |-> {}, found |-> rows]
      BY <1>1 DEF Resting
    <2>3. QED
      BY <2>1, <2>2, <1>1, <1>3 DEF Migrators
  <1>5. DowngradeOK(migrator)'
    BY <1>1, <1>2 DEF DowngradeOK, CatalogueInv
  <1>6. UNCHANGED <<version, catalogue, rows>>
    BY DEF Downgrade
  <1>7. QED
    BY <1>4, <1>5, <1>6 DEF CatalogueInv

LEMMA LookCatalogue ==
  ASSUME CatalogueInv, Look
  PROVE  CatalogueInv'
  <1>1. /\ migrator \in Migrators /\ migrator.phase = "look" /\ DowngradeOK(migrator)
        /\ migrator' = [migrator EXCEPT !.todo = Tail(migrator.todo)]
        /\ migrator.todo \in Seq(Tables) /\ migrator.todo # <<>>
    BY DEF CatalogueInv, Look, Migrators
  <1>2. Tail(migrator.todo) \in Seq(Tables) /\ ToSet(Tail(migrator.todo)) \subseteq ToSet(migrator.todo)
    BY <1>1, HeadTail
  <1>3. /\ migrator' \in Migrators
        /\ migrator'.phase = "look" /\ migrator'.at = migrator.at
        /\ migrator'.target = migrator.target /\ migrator'.work = migrator.work
        /\ migrator'.todo = Tail(migrator.todo)
    BY <1>1, <1>2 DEF Migrators
  <1>4. DowngradeOK(migrator)'
    BY <1>1, <1>2, <1>3 DEF DowngradeOK
  <1>5. UNCHANGED <<version, catalogue, rows>>
    BY DEF Look
  <1>6. QED
    BY <1>3, <1>4, <1>5 DEF CatalogueInv

LEMMA RefuseCatalogue ==
  ASSUME CatalogueInv, Refuse
  PROVE  CatalogueInv'
  BY RestingType DEF CatalogueInv, Refuse

LEMMA ForgetCatalogue ==
  ASSUME CatalogueInv, Forget
  PROVE  CatalogueInv'
  <1> DEFINE v == migrator.at
             work == Forgotten(v, migrator.work)
             todo == Reverse(Introduced(v))
  <1>1. /\ migrator \in Migrators /\ migrator.phase = "look" /\ DowngradeOK(migrator)
        /\ migrator' = [migrator EXCEPT !.phase = "drop", !.work = work, !.todo = todo]
        /\ "schema_revision" \in migrator.work.tables
    BY DEF CatalogueInv, Forget
  <1>2. /\ v \in Versions /\ Consistent(migrator.work) /\ Told(migrator.work)
    BY <1>1 DEF DowngradeOK, Versions
  <1>3. todo \in Seq(Tables) /\ ToSet(todo) = ToSet(Introduced(v))
    BY <1>2, IntroducedLists, Reversed
  <1>4. Consistent(work)
    BY <1>2, ForgottenDrops
  <1>5. v # 1 => Told(work) /\ Unmarked(v, work)
    BY <1>2, ForgottenTells
  <1>6. v = 1 => "schema_revision" \in ToSet(todo)
    BY <1>3, TableNames DEF Introduced
  <1>7. work \in Catalogues
    BY <1>4 DEF Consistent
  <1> HIDE DEF work, todo
  <1>8. /\ migrator' \in Migrators
        /\ migrator'.phase = "drop" /\ migrator'.at = v /\ migrator'.target = migrator.target
        /\ migrator'.work = work /\ migrator'.todo = todo
    BY <1>1, <1>3, <1>7 DEF Migrators
  <1>9. DowngradeOK(migrator)'
    BY <1>1, <1>3, <1>4, <1>5, <1>6, <1>8 DEF DowngradeOK
  <1>10. UNCHANGED <<version, catalogue, rows>>
    BY DEF Forget
  <1>11. QED
    BY <1>8, <1>9, <1>10 DEF CatalogueInv

LEMMA DropCatalogue ==
  ASSUME CatalogueInv, Drop
  PROVE  CatalogueInv'
  <1> DEFINE v == migrator.at
             table == Head(migrator.todo)
             work == WithoutTable(migrator.work, table)
             todo == Tail(migrator.todo)
             dropped == migrator.dropped \cup {table}
  <1>1. /\ migrator \in Migrators /\ migrator.phase = "drop" /\ DowngradeOK(migrator)
        /\ migrator.todo \in Seq(Tables) /\ migrator.todo # <<>>
        /\ migrator' = [migrator EXCEPT !.todo = todo, !.dropped = dropped, !.work = work]
    BY DEF CatalogueInv, Drop, Migrators
  <1>2. /\ todo \in Seq(Tables) /\ ToSet(migrator.todo) = {table} \cup ToSet(todo)
    BY <1>1, HeadTail
  <1>3. /\ v \in Versions /\ Consistent(migrator.work) /\ table \in ToSet(Introduced(v))
        /\ ToSet(todo) \subseteq ToSet(Introduced(v)) /\ table \in Tables
    <2>1. v \in Versions /\ ToSet(migrator.todo) \subseteq ToSet(Introduced(v))
          /\ Consistent(migrator.work)
      BY <1>1 DEF DowngradeOK, Versions
    <2>2. QED
      BY <2>1, <1>2, IntroducedTables
  <1>4. /\ Consistent(work)
        /\ work.revision = IF table = "schema_revision" THEN [c \in Components |-> 0]
                           ELSE migrator.work.revision
    BY <1>3, WithoutTableDrops
  <1>5. v # 1 => Told(work) /\ Unmarked(v, work)
    BY <1>1, <1>3, DropTells DEF DowngradeOK
  <1>6. v = 1 => \/ "schema_revision" \in ToSet(todo)
                 \/ \A c \in Components : work.revision[c] = 0
    BY <1>1, <1>2, <1>4 DEF DowngradeOK
  <1>7. work \in Catalogues /\ dropped \in SUBSET Tables
    BY <1>1, <1>3, <1>4 DEF Consistent, Migrators
  <1> HIDE DEF work, todo, dropped
  <1>8. /\ migrator' \in Migrators
        /\ migrator'.phase = "drop" /\ migrator'.at = v /\ migrator'.target = migrator.target
        /\ migrator'.work = work /\ migrator'.todo = todo
    BY <1>1, <1>2, <1>7 DEF Migrators
  <1>9. DowngradeOK(migrator)'
    BY <1>1, <1>3, <1>4, <1>5, <1>6, <1>8 DEF DowngradeOK
  <1>10. UNCHANGED <<version, catalogue, rows>>
    BY DEF Drop
  <1>11. QED
    BY <1>8, <1>9, <1>10 DEF CatalogueInv

LEMMA RevisedCatalogue ==
  ASSUME CatalogueInv, Revised
  PROVE  CatalogueInv'
  <1> DEFINE v == migrator.at - 1
  <1>1. /\ migrator \in Migrators /\ migrator.phase = "drop" /\ DowngradeOK(migrator)
        /\ migrator' = [migrator EXCEPT !.phase = "look", !.at = v, !.todo = Guarded(v)]
        /\ v > migrator.target
    BY DEF CatalogueInv, Revised, Migrators
  <1>2. /\ migrator.at \in 2..5 /\ v \in 1..5 /\ v \in Versions
        /\ migrator.target \in 0..(v - 1)
    BY <1>1 DEF DowngradeOK, Versions
  <1>3. Guarded(v) \in Seq(Tables)
    BY <1>2, IntroducedLists
  <1>4. Consistent(migrator.work) /\ Told(migrator.work)
    BY <1>1, <1>2 DEF DowngradeOK
  <1> HIDE DEF v
  <1>5. /\ migrator' \in Migrators
        /\ migrator'.phase = "look" /\ migrator'.at = v /\ migrator'.target = migrator.target
        /\ migrator'.work = migrator.work /\ migrator'.todo = Guarded(v)
    <2>1. migrator \in Migrators /\ v \in 0..5
          /\ migrator' = [migrator EXCEPT !.phase = "look", !.at = v, !.todo = Guarded(v)]
      BY <1>1, <1>2
    <2> DEFINE todo == Guarded(v)
    <2>2. todo \in Seq(Tables)
      BY <1>3
    <2> HIDE DEF todo
    <2>3. /\ migrator' \in Migrators
          /\ migrator'.phase = "look" /\ migrator'.at = v /\ migrator'.target = migrator.target
          /\ migrator'.work = migrator.work /\ migrator'.todo = todo
      BY <2>1, <2>2 DEF Migrators, todo
    <2>4. QED
      BY <2>3 DEF todo
  <1>6. DowngradeOK(migrator)'
    BY <1>2, <1>4, <1>5 DEF DowngradeOK
  <1>7. UNCHANGED <<version, catalogue, rows>>
    BY DEF Revised
  <1>8. QED
    BY <1>5, <1>6, <1>7 DEF CatalogueInv

\* A downgrade to 0 leaves the empty schema.
LEMMA SweptEmpty ==
  ASSUME CatalogueInv, migrator.phase = "drop", migrator.todo = <<>>, Swept, migrator.at = 1
  PROVE  migrator.work = Empty
  <1>1. DowngradeOK(migrator)
    BY DEF CatalogueInv
  <1>2. "schema_revision" \notin ToSet(migrator.todo)
    BY TableNames
  <1>3. \A c \in Components : migrator.work.revision[c] = 0
    BY <1>1, <1>2 DEF DowngradeOK
  <1>4. QED
    BY <1>1, <1>3, EmptiedSchema DEF DowngradeOK, Swept

LEMMA CommitDowngradeCatalogue ==
  ASSUME CatalogueInv, CommitDowngrade
  PROVE  CatalogueInv'
  <1>1. /\ migrator \in Migrators /\ migrator.phase = "drop" /\ DowngradeOK(migrator)
        /\ catalogue' = migrator.work /\ version' = migrator.target /\ migrator' = Resting
        /\ rows' = Emptied(migrator.dropped)
    BY DEF CatalogueInv, CommitDowngrade
  <1>2. version' \in 0..5
    BY <1>1 DEF DowngradeOK
  <1>3. Consistent(migrator.work) /\ Told(migrator.work)
    <2>1. CASE migrator.at = 1
      <3>1. migrator.work = Empty
        BY <2>1, SweptEmpty DEF CommitDowngrade
      <3>2. QED
        BY <3>1, EmptyConsistent, EmptyTold
    <2>2. CASE migrator.at # 1
      BY <1>1, <2>2 DEF DowngradeOK
    <2>3. QED
      BY <2>1, <2>2
  <1>4. rows' \in [Exercised -> SUBSET Owners]
    BY <1>1 DEF Emptied, CatalogueInv
  <1>5. QED
    BY <1>1, <1>2, <1>3, <1>4, RestingType DEF CatalogueInv

LEMMA InstallCatalogue ==
  ASSUME CatalogueInv, NEW component \in Components, Install(component)
  PROVE  CatalogueInv'
  <1>1. Grown(catalogue, catalogue')
    BY InstalledGrows DEF CatalogueInv, Install
  <1>2. UNCHANGED <<version, rows, migrator>>
    BY DEF Install
  <1>3. QED
    BY <1>1, <1>2 DEF CatalogueInv, Grown

LEMMA DropSchemaCatalogue ==
  ASSUME CatalogueInv, drop_core_schema
  PROVE  CatalogueInv'
  <1>1. /\ catalogue' = Empty /\ UNCHANGED <<version, migrator>>
        /\ rows' = Emptied(Exercised)
    BY DEF drop_core_schema
  <1>2. rows' \in [Exercised -> SUBSET Owners]
    BY <1>1 DEF Emptied, CatalogueInv
  <1>3. QED
    BY <1>1, <1>2, EmptyConsistent, EmptyTold DEF CatalogueInv

LEMMA CommitCatalogue ==
  ASSUME CatalogueInv, NEW c \in Pool, Commit(c)
  PROVE  CatalogueInv'
  <1> DEFINE found == [t \in Exercised |-> {o \in migrator.found[t] : <<t, o>> \notin conn[c].removed}]
  <1>1. /\ UNCHANGED <<version, catalogue>>
        /\ migrator' = [migrator EXCEPT !.found = found]
        /\ rows' = [t \in Exercised |->
             {o \in Owners : <<t, o>> \in conn[c].added
                                   \/ (o \in rows[t] /\ <<t, o>> \notin conn[c].removed)}]
    BY DEF Commit
  <1>2. migrator \in Migrators /\ migrator.found \in [Exercised -> SUBSET Owners]
    BY DEF CatalogueInv, Migrators
  <1>3. found \in [Exercised -> SUBSET Owners]
    BY <1>2
  <1>4. rows' \in [Exercised -> SUBSET Owners]
    BY <1>1
  <1> HIDE DEF found
  <1>5. /\ migrator' \in Migrators
        /\ migrator'.phase = migrator.phase /\ migrator'.at = migrator.at
        /\ migrator'.target = migrator.target /\ migrator'.work = migrator.work
        /\ migrator'.todo = migrator.todo
    BY <1>1, <1>2, <1>3 DEF Migrators
  <1>6. DowngradeOK(migrator) => DowngradeOK(migrator)'
    BY <1>5 DEF DowngradeOK
  <1>7. QED
    BY <1>1, <1>4, <1>5, <1>6 DEF CatalogueInv

\* What the other steps leave alone.
LEMMA ServeKeeps ==
  ASSUME NEW c \in Pool, Serve(c) \/ Examine(c)
  PROVE  \/ Commit(c)
         \/ UNCHANGED <<version, catalogue, rows, migrator, installer>>
  BY DEF Serve, Examine, Start, Begin, Read, Insert, Prune, Rollback, Inspect, InspectFails,
         InsertProbe, ProbeFails, CrossTenant, CommitSettings, Reuse

LEMMA CatalogueStep == CatalogueInv /\ [Next]_vars => CatalogueInv'
  <1>1. SUFFICES ASSUME CatalogueInv, [Next]_vars PROVE CatalogueInv'
    OBVIOUS
  <1>2. ASSUME Migrate PROVE CatalogueInv'
    <2>1. ASSUME NEW target \in Targets, UpgradeFails(target) PROVE CatalogueInv'
      BY <1>1, <2>1 DEF UpgradeFails, CatalogueInv
    <2>2. QED
      BY <1>1, <1>2, <2>1, UpgradeCatalogue, DowngradeCatalogue, LookCatalogue, RefuseCatalogue,
         ForgetCatalogue, DropCatalogue, RevisedCatalogue, CommitDowngradeCatalogue,
         InstallCatalogue, DropSchemaCatalogue DEF Migrate
  <1>3. ASSUME NEW c \in Pool, Serve(c) \/ Examine(c) PROVE CatalogueInv'
    <2>1. CASE UNCHANGED <<version, catalogue, rows, migrator, installer>>
      BY <1>1, <2>1 DEF CatalogueInv
    <2>2. QED
      BY <1>1, <1>3, <2>1, ServeKeeps, CommitCatalogue
  <1>4. CASE UNCHANGED vars
    BY <1>1, <1>4 DEF CatalogueInv, vars
  <1>5. QED
    BY <1>1, <1>2, <1>3, <1>4 DEF Next

LEMMA CatalogueAlways == Spec => []CatalogueInv
  BY CatalogueInit, CatalogueStep, PTL DEF Spec

\* The startup gate (revisions.py): a component whose revision is the registry's one
\* serves every statement of its runtime, whatever migrations and installers were run.
THEOREM GateTellsTruth == Spec => []GateTells
  <1>1. CatalogueInv => GateTells
    BY WholeServes DEF CatalogueInv, Told, GateTells
  <1>2. QED
    BY <1>1, CatalogueAlways, PTL

-----------------------------------------------------------------------------
(* Migrations alone keep the schema at its version.                          *)

DroppingOK(m) ==
  LET before == SchemaAt[m.at - 1]
  IN /\ m.work.functions = before.functions
     /\ m.work.tables = before.tables \cup ToSet(m.todo)
     /\ IsInjective(m.todo)
     /\ m.at # 1 => m.work.revision = before.revision

SchemaInv ==
  ~installer =>
    /\ catalogue = SchemaAt[version]
    /\ migrator.phase = "look" => migrator.work = SchemaAt[migrator.at]
    /\ migrator.phase = "drop" => DroppingOK(migrator)

LEMMA SchemaInit == Init => SchemaInv
  BY SchemaSteps, RestingType DEF Init, SchemaInv

LEMMA ForgetSchema ==
  ASSUME CatalogueInv, SchemaInv, Forget
  PROVE  SchemaInv'
  <1> DEFINE v == migrator.at
             work == Forgotten(v, migrator.work)
             todo == Reverse(Introduced(v))
             before == SchemaAt[v - 1]
  <1>1. SUFFICES ASSUME ~installer
        PROVE  /\ catalogue' = SchemaAt[version'] /\ DroppingOK(migrator')
               /\ migrator'.phase = "drop"
    BY DEF SchemaInv, Forget
  <1>2. /\ migrator \in Migrators /\ migrator.phase = "look" /\ DowngradeOK(migrator)
        /\ migrator' = [migrator EXCEPT !.phase = "drop", !.work = work, !.todo = todo]
        /\ UNCHANGED <<version, catalogue>>
    BY DEF CatalogueInv, Forget
  <1>3. v \in Versions
    BY <1>2 DEF DowngradeOK, Versions
  <1>4. migrator.work = SchemaAt[v] /\ catalogue = SchemaAt[version]
    BY <1>1, <1>2 DEF SchemaInv
  <1>5. IsInjective(todo) /\ ToSet(todo) = ToSet(Introduced(v))
    BY <1>3, IntroducedLists, Reversed
  <1>6. /\ work.functions = before.functions
        /\ work.tables = before.tables \cup ToSet(todo)
        /\ v # 1 => work.revision = before.revision
    BY <1>3, <1>4, <1>5, ForgottenSchema
  <1> HIDE DEF work, todo, before
  <1>7. /\ migrator'.phase = "drop" /\ migrator'.at = v /\ migrator'.work = work
        /\ migrator'.todo = todo
    BY <1>2 DEF Migrators
  <1>8. DroppingOK(migrator')
    BY <1>5, <1>6, <1>7 DEF DroppingOK, before
  <1>9. QED
    BY <1>2, <1>4, <1>7, <1>8

LEMMA DropSchema ==
  ASSUME CatalogueInv, SchemaInv, Drop
  PROVE  SchemaInv'
  <1> DEFINE v == migrator.at
             table == Head(migrator.todo)
             work == WithoutTable(migrator.work, table)
             todo == Tail(migrator.todo)
             dropped == migrator.dropped \cup {table}
             before == SchemaAt[v - 1]
  <1>1. SUFFICES ASSUME ~installer
        PROVE  /\ catalogue' = SchemaAt[version'] /\ DroppingOK(migrator')
               /\ migrator'.phase = "drop"
    BY DEF SchemaInv, Drop
  <1>2. /\ migrator \in Migrators /\ migrator.phase = "drop" /\ DowngradeOK(migrator)
        /\ migrator.todo \in Seq(Tables) /\ migrator.todo # <<>>
        /\ migrator' = [migrator EXCEPT !.todo = todo, !.dropped = dropped, !.work = work]
        /\ UNCHANGED <<version, catalogue>>
    BY DEF CatalogueInv, Drop, Migrators
  <1>3. /\ catalogue = SchemaAt[version]
        /\ migrator.work.functions = before.functions
        /\ migrator.work.tables = before.tables \cup ToSet(migrator.todo)
        /\ IsInjective(migrator.todo)
        /\ v # 1 => migrator.work.revision = before.revision
    BY <1>1, <1>2 DEF SchemaInv, DroppingOK
  <1>4. /\ ToSet(migrator.todo) = {table} \cup ToSet(todo)
        /\ IsInjective(todo) /\ table \notin ToSet(todo)
    BY <1>2, <1>3, HeadTail
  <1>5. /\ v \in Versions /\ Consistent(migrator.work) /\ table \in ToSet(Introduced(v))
        /\ table \in Tables
    <2>1. v \in Versions /\ ToSet(migrator.todo) \subseteq ToSet(Introduced(v))
          /\ Consistent(migrator.work)
      BY <1>2 DEF DowngradeOK, Versions
    <2>2. QED
      BY <2>1, <1>4, IntroducedTables
  <1>6. table \notin before.tables
    BY <1>5, SchemaDisjoint
  <1>7. v # 1 => table # "schema_revision"
    <2>1. ASSUME v # 1, table = "schema_revision" PROVE FALSE
      <3>1. "schema_revision" \in ToSet(Introduced(v)) \cap ToSet(Introduced(1)) /\ 1 \in Versions
        BY <2>1, <1>5, TableNames DEF Introduced, Versions
      <3>2. QED
        BY <3>1, <2>1, <1>5, RevisionsApart
    <2>2. QED
      BY <2>1
  <1>8. /\ work.tables = migrator.work.tables \ {table} /\ work.functions = migrator.work.functions
        /\ v # 1 => work.revision = migrator.work.revision
    BY <1>5, <1>7, WithoutTableDrops
  <1>9. work.tables = before.tables \cup ToSet(todo)
    BY <1>3, <1>4, <1>6, <1>8
  <1> HIDE DEF work, todo, dropped, before
  <1>10. /\ migrator'.phase = "drop" /\ migrator'.at = v /\ migrator'.work = work
         /\ migrator'.todo = todo
    BY <1>2 DEF Migrators
  <1>11. DroppingOK(migrator')
    BY <1>3, <1>4, <1>8, <1>9, <1>10 DEF DroppingOK, before
  <1>12. QED
    BY <1>2, <1>3, <1>10, <1>11

\* Once the tables are dropped, the schema is that of the version before.
LEMMA DroppedSchema ==
  ASSUME CatalogueInv, SchemaInv, ~installer,
         migrator.phase = "drop", migrator.todo = <<>>, Swept
  PROVE  migrator.work = SchemaAt[migrator.at - 1]
  <1>1. CASE migrator.at = 1
    BY <1>1, SweptEmpty, SchemaSteps
  <1>2. CASE migrator.at # 1
    <2>1. DowngradeOK(migrator) /\ DroppingOK(migrator)
      BY DEF CatalogueInv, SchemaInv
    <2>2. ToSet(migrator.todo) = {}
      BY TableNames
    <2>3. migrator.at - 1 \in 0..5
      BY <2>1 DEF DowngradeOK
    <2>4. Consistent(migrator.work) /\ Consistent(SchemaAt[migrator.at - 1])
      BY <2>1, <2>3, SchemaGrown DEF DowngradeOK
    <2>5. /\ migrator.work.tables = SchemaAt[migrator.at - 1].tables
          /\ migrator.work.functions = SchemaAt[migrator.at - 1].functions
          /\ migrator.work.revision = SchemaAt[migrator.at - 1].revision
      BY <2>1, <2>2, <1>2 DEF DroppingOK
    <2>6. QED
      BY <2>4, <2>5, SameCatalogue
  <1>3. QED
    BY <1>1, <1>2

LEMMA SchemaStep == CatalogueInv /\ SchemaInv /\ [Next]_vars => SchemaInv'
  <1>1. SUFFICES ASSUME CatalogueInv, SchemaInv, [Next]_vars PROVE SchemaInv'
    OBVIOUS
  <1>2. ASSUME NEW target \in Targets, Upgrade(target) PROVE SchemaInv'
    <2>1. SUFFICES ASSUME ~installer PROVE catalogue' = SchemaAt[version']
      BY <1>2 DEF Upgrade, SchemaInv, Run
    <2>2. catalogue = SchemaAt[version] /\ version \in 0..5 /\ target \in 0..5 /\ version <= target
      BY <1>1, <1>2, <2>1, DeploymentAssumption DEF SchemaInv, CatalogueInv, Upgrade
    <2>3. QED
      BY <2>2, <1>2, UpgradedSchema DEF Upgrade
  <1>3. ASSUME NEW target \in Targets, UpgradeFails(target) PROVE SchemaInv'
    BY <1>1, <1>3 DEF UpgradeFails, SchemaInv
  <1>4. ASSUME NEW target \in Targets, Downgrade(target) PROVE SchemaInv'
    <2>1. /\ migrator'.phase = "look" /\ migrator'.at = version /\ migrator'.work = catalogue
          /\ UNCHANGED <<version, catalogue, installer>>
      BY <1>4 DEF Downgrade, Resting
    <2>2. QED
      BY <1>1, <2>1 DEF SchemaInv
  <1>5. ASSUME Look PROVE SchemaInv'
    <2>1. /\ migrator'.phase = "look" /\ migrator'.at = migrator.at /\ migrator'.work = migrator.work
          /\ migrator.phase = "look" /\ UNCHANGED <<version, catalogue, installer>>
      BY <1>1, <1>5 DEF Look, CatalogueInv, Migrators
    <2>2. QED
      BY <1>1, <2>1 DEF SchemaInv
  <1>6. ASSUME Refuse PROVE SchemaInv'
    BY <1>1, <1>6, RestingType DEF Refuse, SchemaInv
  <1>7. ASSUME Revised PROVE SchemaInv'
    <2> DEFINE v == migrator.at - 1
    <2>1. /\ migrator'.phase = "look" /\ migrator'.at = v /\ migrator'.work = migrator.work
          /\ UNCHANGED <<version, catalogue, installer>>
          /\ migrator.phase = "drop" /\ migrator.todo = <<>> /\ Swept
      BY <1>1, <1>7 DEF Revised, CatalogueInv, Migrators
    <2>2. ~installer => migrator.work = SchemaAt[v]
      BY <1>1, <2>1, DroppedSchema
    <2>3. QED
      BY <1>1, <2>1, <2>2 DEF SchemaInv
  <1>8. ASSUME CommitDowngrade PROVE SchemaInv'
    <2>1. /\ migrator.phase = "drop" /\ migrator.todo = <<>> /\ Swept
          /\ migrator.at - 1 = migrator.target
          /\ catalogue' = migrator.work /\ version' = migrator.target /\ migrator' = Resting
          /\ installer' = installer
      BY <1>8 DEF CommitDowngrade
    <2>2. ~installer => migrator.work = SchemaAt[migrator.target]
      BY <1>1, <2>1, DroppedSchema
    <2>3. QED
      BY <2>1, <2>2, RestingType DEF SchemaInv
  <1>9. ASSUME NEW component \in Components, Install(component) PROVE SchemaInv'
    BY <1>9 DEF Install, SchemaInv
  <1>10. ASSUME drop_core_schema PROVE SchemaInv'
    BY <1>10 DEF drop_core_schema, SchemaInv
  <1>11. ASSUME NEW c \in Pool, Serve(c) \/ Examine(c) PROVE SchemaInv'
    <2>1. ASSUME Commit(c) PROVE SchemaInv'
      <3>1. /\ migrator'.phase = migrator.phase /\ migrator'.at = migrator.at
            /\ migrator'.work = migrator.work /\ migrator'.todo = migrator.todo
            /\ UNCHANGED <<version, catalogue, installer>>
        BY <1>1, <2>1 DEF Commit, CatalogueInv, Migrators
      <3>2. DroppingOK(migrator) => DroppingOK(migrator')
        BY <3>1 DEF DroppingOK
      <3>3. QED
        BY <1>1, <3>1, <3>2 DEF SchemaInv
    <2>2. CASE UNCHANGED <<version, catalogue, rows, migrator, installer>>
      BY <1>1, <2>2 DEF SchemaInv
    <2>3. QED
      BY <1>11, <2>1, <2>2, ServeKeeps
  <1>12. CASE UNCHANGED vars
    BY <1>1, <1>12 DEF SchemaInv, vars
  <1>13. QED
    BY <1>1, <1>2, <1>3, <1>4, <1>5, <1>6, <1>7, <1>8, <1>9, <1>10, <1>11, <1>12,
       ForgetSchema, DropSchema DEF Next, Migrate

\* Under migrations alone, refused or not, the Alembic version tells the whole schema:
\* each downgrade() undoes its upgrade().
THEOREM VersionTells == Spec => []VersionTellsCatalogue
  <1>1. Init => CatalogueInv /\ SchemaInv
    BY CatalogueInit, SchemaInit
  <1>2. CatalogueInv /\ SchemaInv /\ [Next]_vars => CatalogueInv' /\ SchemaInv'
    BY CatalogueStep, SchemaStep
  <1>3. SchemaInv => VersionTellsCatalogue
    BY DEF SchemaInv, VersionTellsCatalogue
  <1>4. QED
    BY <1>1, <1>2, <1>3, PTL DEF Spec

-----------------------------------------------------------------------------
(* The pooled connections and the tables they lock.                          *)

Connections ==
  [open : BOOLEAN, setting : Owners \cup {None}, serving : Tenants \cup {None},
   added : SUBSET (Tables \X Owners), removed : SUBSET (Tables \X Owners),
   saw : SUBSET Owners, holds : SUBSET Tables]

LEMMA IdleRow ==
  /\ Idle \in Connections /\ ~Idle.open /\ Idle.setting = None /\ Idle.serving = None
  /\ Idle.added = {} /\ Idle.removed = {} /\ Idle.saw = {} /\ Idle.holds = {}
  BY DEF Idle, Connections

LEMMA OpenedRow ==
  ASSUME NEW row \in Connections, NEW tenant \in Tenants \cup {None}
  PROVE  /\ Opened(row, tenant) \in Connections
         /\ Opened(row, tenant).open /\ Opened(row, tenant).serving = tenant
         /\ Opened(row, tenant).setting = IF tenant = None THEN row.setting ELSE tenant
         /\ Opened(row, tenant).added = row.added /\ Opened(row, tenant).removed = row.removed
         /\ Opened(row, tenant).saw = row.saw /\ Opened(row, tenant).holds = row.holds
  <1>1. (IF tenant = None THEN row.setting ELSE tenant) \in Owners \cup {None}
    BY DEF Connections, Owners
  <1>2. QED
    BY <1>1 DEF Connections, Opened

LEMMA ShownRow ==
  ASSUME NEW row \in Connections, NEW table \in Tables, NEW owners \in SUBSET Owners
  PROVE  LET after == Shown(row, table, owners)
         IN /\ after \in Connections
            /\ after.open = row.open /\ after.serving = row.serving /\ after.setting = row.setting
            /\ after.added = row.added /\ after.removed = row.removed
            /\ after.saw = row.saw \cup owners /\ after.holds = row.holds \cup {table}
  <1>1. row.holds \cup {table} \in SUBSET Tables /\ row.saw \cup owners \in SUBSET Owners
    BY DEF Connections
  <1>2. QED
    BY <1>1 DEF Connections, Shown

LEMMA InsertedRow ==
  ASSUME NEW row \in Connections, NEW table \in Tables, NEW owner \in Owners
  PROVE  LET after == Inserted(row, table, owner)
         IN /\ after \in Connections
            /\ after.open = row.open /\ after.serving = row.serving /\ after.setting = row.setting
            /\ after.added = row.added \cup {<<table, owner>>} /\ after.removed = row.removed
            /\ after.saw = row.saw /\ after.holds = row.holds \cup {table}
  <1>1. /\ row.holds \cup {table} \in SUBSET Tables
        /\ row.added \cup {<<table, owner>>} \in SUBSET (Tables \X Owners)
    BY DEF Connections
  <1>2. QED
    BY <1>1 DEF Connections, Inserted

LEMMA DeletedRow ==
  ASSUME NEW row \in Connections, NEW table \in Tables, NEW tenant \in Owners
  PROVE  LET after == Deleted(row, table, tenant)
         IN /\ after \in Connections
            /\ after.open = row.open /\ after.serving = row.serving /\ after.setting = row.setting
            /\ after.added = row.added /\ after.removed = row.removed \cup {<<table, tenant>>}
            /\ after.saw = row.saw /\ after.holds = row.holds \cup {table}
  <1>1. /\ row.holds \cup {table} \in SUBSET Tables
        /\ row.removed \cup {<<table, tenant>>} \in SUBSET (Tables \X Owners)
    BY DEF Connections
  <1>2. QED
    BY <1>1 DEF Connections, Deleted

LEMMA InspectedRow ==
  ASSUME NEW row \in Connections
  PROVE  LET after == Inspected(row)
         IN /\ after \in Connections
            /\ after.open /\ after.added = row.added /\ after.holds = {"schema_revision"}
  <1>1. {"schema_revision"} \in SUBSET Tables
    BY TableNames DEF Tables
  <1>2. QED
    BY <1>1 DEF Connections, Inspected

LEMMA ProbedRow ==
  ASSUME NEW row \in Connections
  PROVE  LET after == Probed(row)
         IN /\ after \in Connections
            /\ after.open = row.open /\ after.added = {<<"events", Probe>>}
            /\ after.holds = row.holds \cup {"events"}
  <1>1. row.holds \cup {"events"} \in SUBSET Tables /\ {<<"events", Probe>>} \in SUBSET (Tables \X Owners)
        /\ Probe \in Owners
    BY TableNames DEF Tables, Connections, Owners
  <1>2. QED
    BY <1>1 DEF Connections, Probed

\* A table a statement may name, or has rows of, is there.
LEMMA GrantedTable ==
  ASSUME CatalogueInv, NEW c, NEW table \in Tables, NEW privilege, Granted(c, table, privilege)
  PROVE  table \in catalogue.tables
  <1>1. \E g \in catalogue.grants : g[2] = table
    BY DEF Granted, Permitted
  <1>2. table \in catalogue.tables \cup catalogue.functions
    BY <1>1 DEF CatalogueInv, Consistent, GrantsOn
  <1>3. catalogue.functions \subseteq Functions /\ Tables \cap Functions = {}
    <2>1. Tables \cap Functions = {}
      BY Apart DEF Components
    <2>2. QED
      BY <2>1 DEF CatalogueInv, Consistent, Catalogues
  <1>4. QED
    BY <1>2, <1>3

LEMMA VisibleTable ==
  ASSUME CatalogueInv, NEW role, NEW setting, NEW table, NEW command, NEW owners,
         NEW owner \in Visible(role, setting, table, command, owners)
  PROVE  table \in catalogue.tables /\ owner \in owners
  BY DEF Visible, Reached, CatalogueInv, Consistent, PoliciesOn

RowLocked(row) ==
  /\ ~row.open => row = Idle
  /\ row.holds \subseteq catalogue.tables \ migrator.dropped
  /\ \A x \in row.added : x[1] \in row.holds

LockInv ==
  /\ conn \in [Pool -> Connections]
  /\ \A c \in Pool : RowLocked(conn[c])
  /\ migrator.phase # "idle" => catalogue.tables \ migrator.dropped \subseteq migrator.work.tables
  /\ migrator.phase = "idle" => migrator.dropped = {}

\* The connection the doctor works on.
Codes ==
  {"schema.core_revision", "rls", "context.missing_denies", "database.connection",
   "rls.live_cross_tenant", "context.rollback_cleanup", "context.commit_cleanup",
   "context.pool_cleanup"}

Doctors ==
  [phase : {"idle", "probe", "cross", "settings", "reuse"}, conn : Pool \cup {None},
   failed : SUBSET Codes, disturbed : BOOLEAN]

ProbeInv ==
  /\ doctor \in Doctors
  /\ doctor.phase = "idle" <=> doctor.conn = None
  /\ doctor.phase \in {"probe", "cross"} =>
       conn[doctor.conn].open /\ RoleOf[doctor.conn] = "application"
  /\ doctor.phase \in {"settings", "reuse"} => conn[doctor.conn] = Idle

LEMMA LockInit == Init => LockInv
  BY IdleRow, RestingType DEF Init, LockInv, RowLocked, Resting

\* A step of one connection.
LEMMA LockServe ==
  ASSUME LockInv, NEW c \in Pool, NEW row \in Connections, RowLocked(row),
         conn' = [conn EXCEPT ![c] = row], catalogue' = catalogue,
         migrator'.phase = migrator.phase, migrator'.work = migrator.work,
         migrator'.dropped = migrator.dropped
  PROVE  LockInv'
  <1>1. conn' \in [Pool -> Connections]
    BY DEF LockInv
  <1>2. \A d \in Pool : conn'[d] = IF d = c THEN row ELSE conn[d]
    BY DEF LockInv
  <1>3. \A d \in Pool : RowLocked(conn[d])'
    BY <1>2 DEF LockInv, RowLocked
  <1>4. QED
    BY <1>1, <1>3 DEF LockInv

\* A step of the migrations.
LEMMA LockMigrate ==
  ASSUME LockInv, conn' = conn,
         \A c \in Pool : conn[c].holds \subseteq catalogue'.tables \ migrator'.dropped,
         migrator'.phase # "idle" => catalogue'.tables \ migrator'.dropped \subseteq migrator'.work.tables,
         migrator'.phase = "idle" => migrator'.dropped = {}
  PROVE  LockInv'
  BY DEF LockInv, RowLocked

LEMMA LockMigration ==
  ASSUME CatalogueInv, LockInv, Migrate
  PROVE  LockInv'
  <1>0. migrator \in Migrators /\ conn' = conn
    BY DEF CatalogueInv, Migrate, Upgrade, UpgradeFails, Downgrade, Look, Forget, Drop, Revised,
           CommitDowngrade, Refuse, Install, drop_core_schema
  <1>1. ASSUME catalogue.tables \subseteq catalogue'.tables, migrator' = migrator, migrator.phase = "idle"
        PROVE  LockInv'
    BY <1>0, <1>1, LockMigrate DEF LockInv, RowLocked
  <1>2. ASSUME NEW target \in Targets, Upgrade(target) PROVE LockInv'
    <2>1. catalogue.tables \subseteq catalogue'.tables
      BY <1>2, UpgradedGrows DEF Upgrade, CatalogueInv, Grown
    <2>2. QED
      BY <1>1, <1>2, <2>1 DEF Upgrade, Run
  <1>3. ASSUME NEW target \in Targets, UpgradeFails(target) PROVE LockInv'
    BY <1>1, <1>3 DEF UpgradeFails, Run
  <1>4. ASSUME NEW target \in Targets, Downgrade(target) PROVE LockInv'
    <2>1. migrator'.phase = "look" /\ migrator'.work = catalogue /\ migrator'.dropped = {}
          /\ catalogue' = catalogue
      BY <1>4 DEF Downgrade, Resting
    <2>2. QED
      BY <1>0, <2>1, LockMigrate DEF LockInv, RowLocked
  <1>5. ASSUME Look \/ Revised PROVE LockInv'
    <2>1. /\ migrator.phase # "idle" /\ migrator'.phase = "look" /\ migrator'.work = migrator.work
          /\ migrator'.dropped = migrator.dropped /\ catalogue' = catalogue
      BY <1>0, <1>5 DEF Look, Revised, Migrators
    <2>2. QED
      BY <1>0, <2>1, LockMigrate DEF LockInv, RowLocked
  <1>6. ASSUME Forget PROVE LockInv'
    <2> DEFINE work == Forgotten(migrator.at, migrator.work)
               todo == Reverse(Introduced(migrator.at))
    <2>1. /\ migrator.phase = "look"
          /\ migrator' = [migrator EXCEPT !.phase = "drop", !.work = work, !.todo = todo]
          /\ catalogue' = catalogue
      BY <1>6 DEF Forget
    <2>2. work.tables = migrator.work.tables
      <3>1. migrator.at \in Versions /\ Consistent(migrator.work)
        BY <2>1 DEF CatalogueInv, DowngradeOK, Versions
      <3>2. QED
        BY <3>1, ForgottenDrops
    <2> HIDE DEF work, todo
    <2>3. /\ migrator'.phase = "drop" /\ migrator'.work = work /\ migrator'.dropped = migrator.dropped
      BY <1>0, <2>1 DEF Migrators
    <2>4. QED
      BY <1>0, <2>1, <2>2, <2>3, LockMigrate DEF LockInv, RowLocked
  <1>7. ASSUME Drop PROVE LockInv'
    <2> DEFINE table == Head(migrator.todo)
               work == WithoutTable(migrator.work, table)
               todo == Tail(migrator.todo)
               dropped == migrator.dropped \cup {table}
    <2>1. /\ migrator.phase = "drop" /\ ~InUse({table}) /\ catalogue' = catalogue
          /\ migrator' = [migrator EXCEPT !.todo = todo, !.dropped = dropped, !.work = work]
      BY <1>7 DEF Drop
    <2>2. work.tables = migrator.work.tables \ {table}
      BY DEF WithoutTable
    <2>3. \A c \in Pool : table \notin conn[c].holds
      BY <2>1 DEF InUse
    <2>4. \A c \in Pool : conn[c].holds \subseteq catalogue.tables \ dropped
      BY <2>3 DEF LockInv, RowLocked
    <2> HIDE DEF work, todo
    <2>5. /\ migrator'.phase = "drop" /\ migrator'.work = work /\ migrator'.dropped = dropped
      BY <1>0, <2>1 DEF Migrators
    <2>6. catalogue.tables \ dropped \subseteq work.tables
      BY <2>1, <2>2 DEF LockInv
    <2> HIDE DEF dropped, table
    <2>7. QED
      BY <1>0, <2>1, <2>4, <2>5, <2>6, LockMigrate
  <1>8. ASSUME CommitDowngrade PROVE LockInv'
    <2>1. /\ migrator.phase = "drop" /\ catalogue' = migrator.work /\ migrator' = Resting
      BY <1>8 DEF CommitDowngrade
    <2>2. migrator'.phase = "idle" /\ migrator'.dropped = {}
      BY <2>1 DEF Resting
    <2>3. QED
      BY <1>0, <2>1, <2>2, LockMigrate DEF LockInv, RowLocked
  <1>9. ASSUME Refuse PROVE LockInv'
    <2>1. migrator'.phase = "idle" /\ migrator'.dropped = {} /\ catalogue' = catalogue
      BY <1>9 DEF Refuse, Resting
    <2>2. QED
      BY <1>0, <2>1, LockMigrate DEF LockInv, RowLocked
  <1>10. ASSUME NEW component \in Components, Install(component) PROVE LockInv'
    <2>1. catalogue.tables \subseteq catalogue'.tables
      BY <1>10, InstalledGrows DEF Install, CatalogueInv, Grown
    <2>2. QED
      BY <1>1, <1>10, <2>1 DEF Install, Run
  <1>11. ASSUME drop_core_schema PROVE LockInv'
    <2>1. /\ ~InUse(Tables) /\ migrator.phase = "idle" /\ migrator' = migrator
      BY <1>11 DEF drop_core_schema, Run
    <2>2. \A c \in Pool : conn[c].holds = {}
      BY <2>1 DEF InUse, LockInv, Connections
    <2>3. QED
      BY <1>0, <2>1, <2>2, LockMigrate DEF LockInv
  <1>12. QED
    BY <1>2, <1>3, <1>4, <1>5, <1>6, <1>7, <1>8, <1>9, <1>10, <1>11 DEF Migrate

LEMMA LockStep == CatalogueInv /\ LockInv /\ ProbeInv /\ [Next]_vars => LockInv'
  <1>1. SUFFICES ASSUME CatalogueInv, LockInv, ProbeInv, [Next]_vars PROVE LockInv'
    OBVIOUS
  <1>2. ASSUME NEW c \in Pool, Serve(c) \/ Examine(c) PROVE LockInv'
    <2>1. conn[c] \in Connections /\ RowLocked(conn[c]) /\ RowLocked(Idle)
          /\ Exercised \subseteq Tables /\ Tenants \subseteq Owners /\ "events" \in Tables
      BY <1>1, IdleRow, DeploymentAssumption, TableNames DEF LockInv, RowLocked, Owners, Tables
    <2>2. ASSUME conn' = conn, UNCHANGED <<catalogue, migrator>> PROVE LockInv'
      BY <1>1, <2>2 DEF LockInv, RowLocked
    <2>3. ASSUME NEW row \in Connections, RowLocked(row), conn' = [conn EXCEPT ![c] = row],
                 UNCHANGED <<catalogue, migrator>>
          PROVE  LockInv'
      BY <1>1, <2>3, LockServe
    <2>4. ASSUME Start(c) \/ InspectFails(c) \/ \E other \in Pool : Reuse(c, other) PROVE LockInv'
      BY <2>2, <2>4 DEF Start, InspectFails, Reuse
    <2>5. ASSUME NEW tenant \in Tenants \cup {None}, Begin(c, tenant) PROVE LockInv'
      <3>1. conn' = [conn EXCEPT ![c] = Opened(conn[c], tenant)] /\ UNCHANGED <<catalogue, migrator>>
        BY <1>1, <2>5 DEF Begin, LockInv
      <3>2. Opened(conn[c], tenant) \in Connections /\ RowLocked(Opened(conn[c], tenant))
        BY <2>1, OpenedRow DEF RowLocked
      <3>3. QED
        BY <2>3, <3>1, <3>2
    <2>6. ASSUME NEW table \in Exercised, Read(c, table) PROVE LockInv'
      <3> DEFINE owners == Visible(RoleOf[c], conn[c].setting, table, "SELECT", Contents(c, table))
      <3>1. conn' = [conn EXCEPT ![c] = Shown(conn[c], table, owners)] /\ UNCHANGED <<catalogue, migrator>>
            /\ conn[c].open /\ table \notin migrator.dropped /\ Granted(c, table, "SELECT")
        BY <1>1, <2>6 DEF Read, Ready, Available, LockInv
      <3>2. owners \in SUBSET Owners
        BY <1>1, <2>1 DEF Visible, Contents, CatalogueInv, Connections
      <3>3. table \in catalogue.tables /\ table \in Tables
        BY <1>1, <2>1, <3>1, GrantedTable
      <3> HIDE DEF owners
      <3>4. Shown(conn[c], table, owners) \in Connections /\ RowLocked(Shown(conn[c], table, owners))
        BY <2>1, <3>1, <3>2, <3>3, ShownRow DEF RowLocked
      <3>5. QED
        BY <2>3, <3>1, <3>4
    <2>7. ASSUME NEW table \in Exercised, NEW owner \in Tenants, Insert(c, table, owner) PROVE LockInv'
      <3>1. conn' = [conn EXCEPT ![c] = Inserted(conn[c], table, owner)] /\ UNCHANGED <<catalogue, migrator>>
            /\ conn[c].open /\ table \notin migrator.dropped /\ Granted(c, table, "INSERT")
        BY <1>1, <2>7 DEF Insert, Ready, Available, LockInv
      <3>2. table \in catalogue.tables /\ table \in Tables /\ owner \in Owners
        BY <1>1, <2>1, <3>1, GrantedTable
      <3>3. /\ Inserted(conn[c], table, owner) \in Connections
            /\ RowLocked(Inserted(conn[c], table, owner))
        BY <2>1, <3>1, <3>2, InsertedRow DEF RowLocked
      <3>4. QED
        BY <2>3, <3>1, <3>3
    <2>8. ASSUME NEW table \in Exercised, NEW owner \in Tenants, Prune(c, owner, table) PROVE LockInv'
      <3>1. conn' = [conn EXCEPT ![c] = Deleted(conn[c], table, owner)] /\ UNCHANGED <<catalogue, migrator>>
            /\ conn[c].open /\ table \notin migrator.dropped
            /\ owner \in Visible("migration", None, table, "DELETE", rows[table])
        BY <1>1, <2>8 DEF Prune, Ready, Available, LockInv
      <3>2. table \in catalogue.tables /\ table \in Tables /\ owner \in Owners
        BY <1>1, <2>1, <3>1, VisibleTable
      <3>3. Deleted(conn[c], table, owner) \in Connections /\ RowLocked(Deleted(conn[c], table, owner))
        BY <2>1, <3>1, <3>2, DeletedRow DEF RowLocked
      <3>4. QED
        BY <2>3, <3>1, <3>3
    <2>9. ASSUME Commit(c) PROVE LockInv'
      <3>1. /\ conn' = [conn EXCEPT ![c] = Idle] /\ catalogue' = catalogue
            /\ migrator'.phase = migrator.phase /\ migrator'.work = migrator.work
            /\ migrator'.dropped = migrator.dropped
        BY <1>1, <2>9 DEF Commit, Ended, CatalogueInv, Migrators
      <3>2. QED
        BY <1>1, <2>1, <3>1, IdleRow, LockServe
    <2>10. ASSUME Rollback(c) \/ ProbeFails(c) \/ CrossTenant(c) \/ CommitSettings(c) PROVE LockInv'
      <3>1. conn' = [conn EXCEPT ![c] = Idle] /\ UNCHANGED <<catalogue, migrator>>
        BY <2>10 DEF Rollback, ProbeFails, CrossTenant, CommitSettings, Ended
      <3>2. QED
        BY <2>1, <2>3, <3>1, IdleRow
    <2>11. ASSUME Inspect(c) PROVE LockInv'
      <3>1. /\ conn' = [conn EXCEPT ![c] = IF RoleOf[c] = "application" THEN Inspected(conn[c]) ELSE Idle]
            /\ UNCHANGED <<catalogue, migrator>> /\ ~conn[c].open
            /\ "schema_revision" \notin migrator.dropped /\ "schema_revision" \in catalogue.tables
        BY <1>1, <2>11 DEF Inspect, Ended, Available, LockInv
      <3>2. Inspected(conn[c]) \in Connections /\ RowLocked(Inspected(conn[c]))
        BY <2>1, <3>1, InspectedRow, IdleRow DEF RowLocked
      <3>3. QED
        BY <2>1, <2>3, <3>1, <3>2, IdleRow
    <2>12. ASSUME InsertProbe(c) PROVE LockInv'
      <3>1. /\ conn' = [conn EXCEPT ![c] = Probed(conn[c])] /\ UNCHANGED <<catalogue, migrator>>
            /\ "events" \notin migrator.dropped /\ Granted(c, "events", "INSERT")
        BY <1>1, <2>12 DEF InsertProbe, Available, LockInv
      <3>2. "events" \in catalogue.tables
        BY <1>1, <2>1, <3>1, GrantedTable
      <3>3. conn[c].open
        BY <1>1, <2>12 DEF InsertProbe, ProbeInv
      <3>4. Probed(conn[c]) \in Connections /\ RowLocked(Probed(conn[c]))
        BY <2>1, <3>1, <3>2, <3>3, ProbedRow DEF RowLocked
      <3>5. QED
        BY <2>3, <3>1, <3>4
    <2>13. QED
      BY <1>2, <2>4, <2>5, <2>6, <2>7, <2>8, <2>9, <2>10, <2>11, <2>12 DEF Serve, Examine
  <1>3. CASE UNCHANGED vars
    BY <1>1, <1>3 DEF LockInv, RowLocked, vars
  <1>4. QED
    BY <1>1, <1>2, <1>3, LockMigration DEF Next

LEMMA ProbeInit == Init => ProbeInv
  BY DEF Init, ProbeInv, Well, Doctors

\* A step that leaves the doctor and its connection alone.
LEMMA ProbeKept ==
  ASSUME ProbeInv, doctor'.phase = doctor.phase, doctor'.conn = doctor.conn, doctor' \in Doctors,
         doctor.phase # "idle" => conn'[doctor.conn] = conn[doctor.conn]
  PROVE  ProbeInv'
  BY DEF ProbeInv

LEMMA ProbeStep == LockInv /\ ProbeInv /\ [Next]_vars => ProbeInv'
  <1>1. SUFFICES ASSUME LockInv, ProbeInv, [Next]_vars PROVE ProbeInv'
    OBVIOUS
  <1>2. ASSUME UNCHANGED <<conn, doctor>> PROVE ProbeInv'
    BY <1>1, <1>2 DEF ProbeInv
  <1>3. ASSUME Migrate PROVE ProbeInv'
    <2>1. ASSUME conn' = conn, doctor' = [doctor EXCEPT !.disturbed = TRUE] PROVE ProbeInv'
      <3>1. doctor' \in Doctors /\ doctor'.phase = doctor.phase /\ doctor'.conn = doctor.conn
        BY <1>1, <2>1 DEF ProbeInv, Doctors
      <3>2. QED
        BY <1>1, <2>1, <3>1, ProbeKept
    <2>2. CASE CommitDowngrade \/ drop_core_schema
      BY <2>1, <2>2 DEF CommitDowngrade, drop_core_schema
    <2>3. CASE ~(CommitDowngrade \/ drop_core_schema)
      BY <1>2, <1>3, <2>3 DEF Migrate, Upgrade, UpgradeFails, Downgrade, Look, Forget, Drop, Revised,
         Refuse, Install
    <2>4. QED
      BY <2>2, <2>3
  <1>4. ASSUME NEW c \in Pool, Serve(c) \/ Examine(c) PROVE ProbeInv'
    <2>1. ASSUME doctor.conn # c, NEW row, conn' = [conn EXCEPT ![c] = row], doctor' = doctor
          PROVE  ProbeInv'
      <3>1. doctor.phase # "idle" => conn'[doctor.conn] = conn[doctor.conn]
        BY <1>1, <2>1 DEF LockInv, ProbeInv, Doctors
      <3>2. QED
        BY <1>1, <2>1, <3>1, ProbeKept DEF ProbeInv
    <2>2. ASSUME Start(c) PROVE ProbeInv'
      BY <1>2, <2>2 DEF Start
    <2>3. ASSUME NEW tenant \in Tenants \cup {None}, Begin(c, tenant) PROVE ProbeInv'
      BY <1>1, <2>1, <2>3 DEF Begin, LockInv
    <2>4. ASSUME NEW table \in Exercised, Read(c, table) PROVE ProbeInv'
      <3> DEFINE row == Shown(conn[c], table,
                          Visible(RoleOf[c], conn[c].setting, table, "SELECT", Contents(c, table)))
      <3>1. doctor.conn # c /\ conn' = [conn EXCEPT ![c] = row] /\ doctor' = doctor
        BY <1>1, <2>4 DEF Read, Ready, LockInv
      <3> HIDE DEF row
      <3>2. QED
        BY <3>1, <2>1
    <2>5. ASSUME NEW table \in Exercised, NEW owner \in Tenants,
                 Insert(c, table, owner) \/ Prune(c, owner, table)
          PROVE  ProbeInv'
      BY <1>1, <2>1, <2>5 DEF Insert, Prune, Ready, LockInv
    <2>6. ASSUME Commit(c) \/ Rollback(c) PROVE ProbeInv'
      BY <1>1, <2>1, <2>6 DEF Commit, Rollback
    <2>7. ASSUME Inspect(c) PROVE ProbeInv'
      <3>1. /\ doctor'.phase = IF RoleOf[c] = "application" THEN "probe" ELSE "reuse"
            /\ doctor'.conn = c /\ doctor' \in Doctors
        BY <2>7 DEF Inspect, Doctors, Unless, Codes
      <3>2. conn'[c] = IF RoleOf[c] = "application" THEN Inspected(conn[c]) ELSE Idle
        BY <1>1, <2>7 DEF Inspect, Ended, LockInv
      <3>3. Inspected(conn[c]).open /\ c # None
        BY <1>1, InspectedRow, DeploymentAssumption DEF LockInv
      <3>4. QED
        BY <3>1, <3>2, <3>3 DEF ProbeInv
    <2>8. ASSUME InspectFails(c) PROVE ProbeInv'
      <3>1. doctor'.phase = "idle" /\ doctor'.conn = None /\ doctor' \in Doctors
        BY <2>8 DEF InspectFails, Well, Doctors, Codes
      <3>2. QED
        BY <3>1 DEF ProbeInv
    <2>9. ASSUME InsertProbe(c) PROVE ProbeInv'
      <3>1. /\ doctor.conn = c /\ doctor.phase = "probe"
            /\ doctor' = [doctor EXCEPT !.phase = "cross"]
            /\ conn' = [conn EXCEPT ![c] = Probed(conn[c])]
        BY <1>1, <2>9 DEF InsertProbe, LockInv
      <3>2. doctor' \in Doctors /\ doctor'.phase = "cross" /\ doctor'.conn = c
        BY <1>1, <3>1 DEF ProbeInv, Doctors
      <3>3. conn'[c].open
        BY <1>1, <3>1, ProbedRow DEF ProbeInv, LockInv
      <3>4. c # None /\ RoleOf[c] = "application"
        BY <1>1, <3>1, DeploymentAssumption DEF ProbeInv
      <3>5. QED
        BY <3>2, <3>3, <3>4 DEF ProbeInv
    <2>10. ASSUME ProbeFails(c) \/ CrossTenant(c) \/ CommitSettings(c) PROVE ProbeInv'
      <3>1. c # None /\ doctor.conn = c /\ conn'[c] = Idle
        BY <1>1, <2>10, DeploymentAssumption DEF ProbeFails, CrossTenant, CommitSettings, Ended, LockInv
      <3>2. doctor' \in Doctors /\ doctor'.phase \in {"settings", "reuse"} /\ doctor'.conn = c
        <4>1. doctor \in Doctors /\ doctor.failed \in SUBSET Codes
          BY <1>1 DEF ProbeInv, Doctors
        <4>2. CASE ProbeFails(c)
          BY <4>1, <4>2, <3>1 DEF ProbeFails, Doctors, Report, Codes
        <4>3. CASE CrossTenant(c)
          <5> DEFINE failures == doctor'.failed
          <5>1. failures \in SUBSET Codes
            BY <4>1, <4>3 DEF CrossTenant, Doctors, Report, Unless, Codes
          <5>2. doctor' = [doctor EXCEPT !.phase = "settings", !.failed = failures]
            BY <4>1, <4>3 DEF CrossTenant, Doctors
          <5> HIDE DEF failures
          <5>3. QED
            BY <4>1, <5>1, <5>2, <3>1 DEF Doctors
        <4>4. CASE CommitSettings(c)
          BY <4>1, <4>4, <3>1 DEF CommitSettings, Doctors, Report, Unless, Codes
        <4>5. QED
          BY <2>10, <4>2, <4>3, <4>4
      <3>3. QED
        BY <3>1, <3>2 DEF ProbeInv
    <2>11. ASSUME NEW other \in Pool, Reuse(c, other) PROVE ProbeInv'
      <3>1. doctor'.phase = "idle" /\ doctor'.conn = None /\ doctor' \in Doctors
        BY <1>1, <2>11 DEF Reuse, ProbeInv, Doctors, Report, Unless, Codes
      <3>2. QED
        BY <3>1 DEF ProbeInv
    <2>12. QED
      BY <1>4, <2>2, <2>3, <2>4, <2>5, <2>6, <2>7, <2>8, <2>9, <2>10, <2>11 DEF Serve, Examine
  <1>5. CASE UNCHANGED vars
    BY <1>2, <1>5 DEF vars
  <1>6. QED
    BY <1>1, <1>3, <1>4, <1>5 DEF Next

-----------------------------------------------------------------------------
(* Tenants.                                                                  *)

Isolated(c, row) ==
  /\ \A x \in row.added : x[2] \in Tenants
  /\ RoleOf[c] = "application" =>
       /\ row.setting = row.serving
       /\ row.saw \subseteq {row.serving}
       /\ \A x \in row.added \cup row.removed : x[2] = row.serving

TenantInv == \A c \in Pool : doctor.conn # c => Isolated(c, conn[c])

\* The application's policies show the rows of the tenant set, and no others.
LEMMA ApplicationTenant == \A p \in AllPolicies : p[1] = "application" => p[4] = "tenant"
  <1>1. \A p \in core_rls : p[1] = "application" => p[4] = "tenant"
    BY PolicyFields DEF core_rls, Controlled
  <1>2. \A p \in webhook_rls : p[1] = "application" => p[4] = "tenant"
    BY PolicyFields DEF webhook_rls, Controlled
  <1>3. \A p \in executor_rls : p[1] = "application" => p[4] = "tenant"
    BY PolicyFields DEF executor_rls
  <1>4. \A p \in command_rls : p[1] = "application" => p[4] = "tenant"
    BY PolicyFields DEF command_rls, Controlled
  <1>5. QED
    BY <1>1, <1>2, <1>3, <1>4 DEF AllPolicies

LEMMA VisibleTenant ==
  ASSUME CatalogueInv, NEW setting, NEW table, NEW command, NEW owners,
         NEW owner \in Visible("application", setting, table, command, owners)
  PROVE  owner = setting
  <1>1. PICK p \in Reached(catalogue, "application", table, command) : p[4] = "all" \/ owner = setting
    BY DEF Visible
  <1>2. p \in AllPolicies /\ p[1] = "application"
    BY <1>1 DEF Reached, CatalogueInv, Consistent, PoliciesOn
  <1>3. p[4] = "tenant"
    BY <1>2, ApplicationTenant
  <1>4. QED
    BY <1>1, <1>3

LEMMA IdleIsolated == \A c \in Pool : Isolated(c, Idle)
  BY IdleRow DEF Isolated

LEMMA TenantInit == Init => TenantInv
  BY IdleIsolated DEF Init, TenantInv

\* A step of a connection that is not, or no longer, the doctor's.
LEMMA TenantServe ==
  ASSUME TenantInv, LockInv, NEW c \in Pool, NEW row, Isolated(c, row),
         conn' = [conn EXCEPT ![c] = row], doctor'.conn = doctor.conn
  PROVE  TenantInv'
  <1>1. \A d \in Pool : conn'[d] = IF d = c THEN row ELSE conn[d]
    BY DEF LockInv
  <1>2. QED
    BY <1>1 DEF TenantInv, Isolated

LEMMA TenantStep == CatalogueInv /\ LockInv /\ ProbeInv /\ TenantInv /\ [Next]_vars => TenantInv'
  <1>1. SUFFICES ASSUME CatalogueInv, LockInv, ProbeInv, TenantInv, [Next]_vars PROVE TenantInv'
    OBVIOUS
  <1>2. ASSUME conn' = conn, doctor'.conn = doctor.conn PROVE TenantInv'
    BY <1>1, <1>2 DEF TenantInv, Isolated
  <1>3. ASSUME Migrate PROVE TenantInv'
    <2>1. CASE CommitDowngrade \/ drop_core_schema
      BY <1>1, <1>2, <2>1 DEF CommitDowngrade, drop_core_schema, ProbeInv, Doctors
    <2>2. CASE ~(CommitDowngrade \/ drop_core_schema)
      BY <1>2, <1>3, <2>2 DEF Migrate, Upgrade, UpgradeFails, Downgrade, Look, Forget, Drop, Revised,
         Refuse, Install
    <2>3. QED
      BY <2>1, <2>2
  <1>4. ASSUME NEW c \in Pool, Serve(c) \/ Examine(c) PROVE TenantInv'
    <2>1. conn[c] \in Connections /\ RowLocked(conn[c])
          /\ Exercised \subseteq Tables /\ Tenants \subseteq Owners
      BY <1>1, DeploymentAssumption DEF LockInv, Owners
    <2>2. ASSUME Start(c) PROVE TenantInv'
      BY <1>2, <2>2 DEF Start
    <2>3. ASSUME NEW tenant \in Tenants \cup {None}, Begin(c, tenant) PROVE TenantInv'
      <3>1. conn' = [conn EXCEPT ![c] = Opened(conn[c], tenant)] /\ doctor' = doctor /\ conn[c] = Idle
        BY <1>1, <2>1, <2>3 DEF Begin, LockInv, RowLocked
      <3>2. Isolated(c, Opened(conn[c], tenant))
        BY <2>1, <3>1, IdleRow, OpenedRow DEF Isolated
      <3>3. QED
        BY <1>1, <3>1, <3>2, TenantServe
    <2>4. ASSUME NEW table \in Exercised, Read(c, table) PROVE TenantInv'
      <3> DEFINE owners == Visible(RoleOf[c], conn[c].setting, table, "SELECT", Contents(c, table))
      <3>1. /\ conn' = [conn EXCEPT ![c] = Shown(conn[c], table, owners)] /\ doctor' = doctor
            /\ doctor.conn # c
        BY <1>1, <2>4 DEF Read, Ready, LockInv
      <3>2. owners \in SUBSET Owners
        BY <1>1, <2>1 DEF Visible, Contents, CatalogueInv, Connections
      <3>3. RoleOf[c] = "application" => owners \subseteq {conn[c].setting}
        BY <1>1, VisibleTenant
      <3>4. Isolated(c, conn[c]) /\ table \in Tables
        BY <1>1, <2>1, <3>1 DEF TenantInv
      <3> HIDE DEF owners
      <3>5. Isolated(c, Shown(conn[c], table, owners))
        BY <2>1, <3>2, <3>3, <3>4, ShownRow DEF Isolated
      <3>6. QED
        BY <1>1, <3>1, <3>5, TenantServe
    <2>5. ASSUME NEW table \in Exercised, NEW owner \in Tenants, Insert(c, table, owner) PROVE TenantInv'
      <3>1. /\ conn' = [conn EXCEPT ![c] = Inserted(conn[c], table, owner)] /\ doctor' = doctor
            /\ doctor.conn # c
            /\ owner \in Visible(RoleOf[c], conn[c].setting, table, "INSERT", Tenants)
        BY <1>1, <2>5 DEF Insert, Ready, LockInv
      <3>2. RoleOf[c] = "application" => owner = conn[c].setting
        BY <1>1, <3>1, VisibleTenant
      <3>3. Isolated(c, conn[c]) /\ table \in Tables /\ owner \in Owners
        BY <1>1, <2>1, <3>1 DEF TenantInv
      <3>4. Isolated(c, Inserted(conn[c], table, owner))
        BY <2>1, <3>2, <3>3, InsertedRow DEF Isolated
      <3>5. QED
        BY <1>1, <3>1, <3>4, TenantServe
    <2>6. ASSUME NEW table \in Exercised, NEW owner \in Tenants, Prune(c, owner, table) PROVE TenantInv'
      <3>1. /\ conn' = [conn EXCEPT ![c] = Deleted(conn[c], table, owner)] /\ doctor' = doctor
            /\ doctor.conn # c /\ conn[c].setting = owner
        BY <1>1, <2>6 DEF Prune, Prunable, Ready, LockInv
      <3>2. Isolated(c, conn[c]) /\ table \in Tables /\ owner \in Owners
        BY <1>1, <2>1, <3>1 DEF TenantInv
      <3>3. Isolated(c, Deleted(conn[c], table, owner))
        BY <2>1, <3>1, <3>2, DeletedRow DEF Isolated
      <3>4. QED
        BY <1>1, <3>1, <3>3, TenantServe
    <2>7. ASSUME Commit(c) \/ Rollback(c) PROVE TenantInv'
      <3>1. conn' = [conn EXCEPT ![c] = Idle] /\ doctor' = doctor
        BY <2>7 DEF Commit, Rollback, Ended
      <3>2. QED
        BY <1>1, <3>1, IdleIsolated, TenantServe
    <2>8. ASSUME Inspect(c) PROVE TenantInv'
      <3>1. doctor.conn = None /\ doctor'.conn = c /\ \A d \in Pool : d # c => conn'[d] = conn[d]
        BY <1>1, <2>8 DEF Inspect, ProbeInv, LockInv
      <3>2. None \notin Pool
        BY DeploymentAssumption
      <3>3. QED
        BY <1>1, <3>1, <3>2 DEF TenantInv, Isolated
    <2>9. ASSUME InspectFails(c) PROVE TenantInv'
      <3>1. doctor.conn = None /\ doctor'.conn = None /\ conn' = conn
        BY <1>1, <2>9 DEF InspectFails, ProbeInv, Well
      <3>2. QED
        BY <1>2, <3>1
    <2>10. ASSUME InsertProbe(c) \/ ProbeFails(c) \/ CrossTenant(c) \/ CommitSettings(c) PROVE TenantInv'
      <3>1. doctor.conn = c /\ doctor'.conn = c /\ \A d \in Pool : d # c => conn'[d] = conn[d]
        BY <1>1, <2>10 DEF InsertProbe, ProbeFails, CrossTenant, CommitSettings, ProbeInv, LockInv, Doctors
      <3>2. QED
        BY <1>1, <3>1 DEF TenantInv, Isolated
    <2>11. ASSUME NEW other \in Pool, Reuse(c, other) PROVE TenantInv'
      <3>1. doctor.conn = c /\ conn' = conn /\ conn[c] = Idle
        BY <1>1, <2>11 DEF Reuse, ProbeInv
      <3>2. \A d \in Pool : Isolated(d, conn[d])
        BY <1>1, <3>1, IdleIsolated DEF TenantInv
      <3>3. QED
        BY <3>1, <3>2 DEF TenantInv, Isolated
    <2>12. QED
      BY <1>4, <2>2, <2>3, <2>4, <2>5, <2>6, <2>7, <2>8, <2>9, <2>10, <2>11 DEF Serve, Examine
  <1>5. CASE UNCHANGED vars
    BY <1>2, <1>5 DEF vars
  <1>6. QED
    BY <1>1, <1>3, <1>4, <1>5 DEF Next

LEMMA PoolAlways == Spec => [](CatalogueInv /\ LockInv /\ ProbeInv /\ TenantInv)
  <1>1. Init => CatalogueInv /\ LockInv /\ ProbeInv /\ TenantInv
    BY CatalogueInit, LockInit, ProbeInit, TenantInit
  <1>2. CatalogueInv /\ LockInv /\ ProbeInv /\ TenantInv /\ [Next]_vars
          => (CatalogueInv /\ LockInv /\ ProbeInv /\ TenantInv)'
    BY CatalogueStep, LockStep, ProbeStep, TenantStep
  <1>3. QED
    BY <1>1, <1>2, PTL DEF Spec

\* A transaction for a tenant's principal reads, writes and deletes rows of that tenant
\* only, whatever the pool, the doctor and the migrations do (tenant row security).
THEOREM TenantsApart == Spec => []TenantIsolation
  <1>1. TenantInv => TenantIsolation
    <2>1. SUFFICES ASSUME TenantInv, NEW c \in Pool, RoleOf[c] = "application", doctor.conn # c,
                          NEW o \in conn[c].saw \cup {a[2] : a \in conn[c].added \cup conn[c].removed}
                   PROVE  o = conn[c].serving
      BY DEF TenantIsolation
    <2>2. QED
      BY <2>1 DEF TenantInv, Isolated
  <1>2. QED
    BY <1>1, PoolAlways, PTL

-----------------------------------------------------------------------------
(* Downgrades and the rows they find.                                        *)

FoundOK(m) ==
  \A t \in Exercised :
    /\ m.found[t] \subseteq rows[t]
    /\ t \in m.dropped => m.found[t] = {}
    /\ m.phase = "idle" => m.found[t] = {}
    /\ m.phase = "look" /\ t \in ToSet(Guarded(m.at)) => t \in ToSet(m.todo) \/ m.found[t] = {}
    /\ m.phase = "drop" /\ t \in ToSet(Introduced(m.at)) => m.found[t] = {}

RowsInv ==
  /\ \A t \in Exercised : rows[t] \subseteq Tenants /\ (rows[t] # {} => t \in catalogue.tables)
  /\ FoundOK(migrator)

\* Row security hides no row from the owner of the tables.
LEMMA OwnerSees ==
  ASSUME CatalogueInv, NEW table \in Exercised, table \in catalogue.tables, NEW owners
  PROVE  Visible("migration", None, table, "SELECT", owners) = owners
  <1>1. table \in Tables \ {"schema_revision"}
    BY DeploymentAssumption
  <1>2. \E p \in AllPolicies : p[1] = "migration" /\ p[2] = table /\ "SELECT" \in p[3] /\ p[4] = "all"
    <2>1. ASSUME NEW tables, Policy("migration", tables, All, "all") \subseteq AllPolicies, table \in tables
          PROVE  \E p \in AllPolicies : p[1] = "migration" /\ p[2] = table /\ "SELECT" \in p[3]
                     /\ p[4] = "all"
      <3>1. <<"migration", table, All, "all">> \in Policy("migration", tables, All, "all")
        BY <2>1 DEF Policy
      <3>2. <<"migration", table, All, "all">> \in AllPolicies
        BY <2>1, <3>1
      <3>3. "SELECT" \in All
        BY DEF All
      <3>4. QED
        BY <3>2, <3>3
    <2>2. CASE table \in ToSet(CoreTables) \ {"schema_revision"}
      <3>1. Policy("migration", ToSet(CoreTables) \ {"schema_revision"}, All, "all") \subseteq AllPolicies
        BY DEF AllPolicies, core_rls, Controlled
      <3>2. QED
        BY <2>1, <2>2, <3>1
    <2>3. CASE table \in ToSet(WebhookTables)
      <3>1. Policy("migration", ToSet(WebhookTables), All, "all") \subseteq AllPolicies
        BY DEF AllPolicies, webhook_rls, Controlled
      <3>2. QED
        BY <2>1, <2>3, <3>1
    <2>4. CASE table \in ToSet(TaskiqTables)
      <3>1. Policy("migration", {"taskiq_handoffs"}, All, "all") \subseteq AllPolicies
        BY DEF AllPolicies, executor_rls
      <3>2. table \in {"taskiq_handoffs"}
        BY <2>4, TableNames
      <3>3. QED
        BY <2>1, <3>1, <3>2
    <2>5. CASE table \in ToSet(CommandTables)
      <3>1. Policy("migration", {"commands"}, All, "all") \subseteq AllPolicies
        BY DEF AllPolicies, command_rls, Controlled
      <3>2. table \in {"commands"}
        BY <2>5, TableNames
      <3>3. QED
        BY <2>1, <3>1, <3>2
    <2>6. QED
      BY <1>1, <2>2, <2>3, <2>4, <2>5 DEF Tables
  <1>3. PICK p \in Reached(catalogue, "migration", table, "SELECT") : p[4] = "all"
    BY <1>2 DEF Reached, CatalogueInv, Consistent, PoliciesOn
  <1>4. QED
    BY <1>3 DEF Visible

LEMMA RowsInit == Init => RowsInv
  BY DEF Init, RowsInv, FoundOK, Resting

\* A step that leaves the rows.
LEMMA RowsMigrate ==
  ASSUME RowsInv, UNCHANGED <<rows, catalogue>>, FoundOK(migrator')
  PROVE  RowsInv'
  BY DEF RowsInv, FoundOK

LEMMA RowsMigration ==
  ASSUME CatalogueInv, LockInv, RowsInv, Migrate
  PROVE  RowsInv'
  <1>1. migrator \in Migrators /\ FoundOK(migrator)
    BY DEF CatalogueInv, RowsInv
  <1>2. ASSUME rows' = rows, migrator' = migrator, catalogue.tables \subseteq catalogue'.tables
        PROVE  RowsInv'
    BY <1>2 DEF RowsInv, FoundOK
  <1>3. ASSUME NEW target \in Targets, Upgrade(target) PROVE RowsInv'
    BY <1>2, <1>3, UpgradedGrows DEF Upgrade, CatalogueInv, Grown
  <1>4. ASSUME NEW target \in Targets, UpgradeFails(target) PROVE RowsInv'
    BY <1>2, <1>4 DEF UpgradeFails
  <1>5. ASSUME NEW component \in Components, Install(component) PROVE RowsInv'
    BY <1>2, <1>5, InstalledGrows DEF Install, CatalogueInv, Grown
  <1>6. ASSUME NEW target \in Targets, Downgrade(target) PROVE RowsInv'
    <2>1. /\ migrator'.phase = "look" /\ migrator'.at = version /\ migrator'.todo = Guarded(version)
          /\ migrator'.dropped = {} /\ migrator'.found = rows
          /\ UNCHANGED <<rows, catalogue>>
      BY <1>6 DEF Downgrade, Resting
    <2>2. FoundOK(migrator')
      BY <2>1 DEF FoundOK
    <2>3. QED
      BY <2>1, <2>2, RowsMigrate
  <1>7. ASSUME Look PROVE RowsInv'
    <2> DEFINE table == Head(migrator.todo)
    <2>1. /\ migrator.phase = "look" /\ ~Nonempty(table) /\ UNCHANGED <<rows, catalogue>>
          /\ migrator.todo \in Seq(Tables) /\ migrator.todo # <<>>
          /\ migrator'.phase = "look" /\ migrator'.at = migrator.at
          /\ migrator'.todo = Tail(migrator.todo)
          /\ migrator'.dropped = migrator.dropped /\ migrator'.found = migrator.found
      BY <1>1, <1>7 DEF Look, Migrators
    <2>2. ToSet(migrator.todo) = {table} \cup ToSet(migrator'.todo)
      BY <2>1, HeadTail
    <2>3. table \in Exercised => migrator.found[table] = {}
      <3>1. SUFFICES ASSUME table \in Exercised PROVE rows[table] = {}
        BY <1>1 DEF FoundOK
      <3>2. DOMAIN rows = Exercised
        BY DEF CatalogueInv
      <3>3. Visible("migration", None, table, "SELECT", rows[table]) = {}
        BY <2>1, <3>1, <3>2 DEF Nonempty
      <3>4. CASE rows[table] # {}
        BY <3>1, <3>3, <3>4, OwnerSees DEF RowsInv
      <3>5. QED
        BY <3>4
    <2>4. FoundOK(migrator')
      BY <1>1, <2>1, <2>2, <2>3 DEF FoundOK
    <2>5. QED
      BY <2>1, <2>4, RowsMigrate
  <1>8. ASSUME Forget PROVE RowsInv'
    <2> DEFINE work == Forgotten(migrator.at, migrator.work)
               todo == Reverse(Introduced(migrator.at))
    <2>1. /\ migrator.phase = "look" /\ migrator.todo = <<>> /\ UNCHANGED <<rows, catalogue>>
          /\ migrator' = [migrator EXCEPT !.phase = "drop", !.work = work, !.todo = todo]
      BY <1>8 DEF Forget
    <2> HIDE DEF work, todo
    <2>2. /\ migrator'.phase = "drop" /\ migrator'.at = migrator.at
          /\ migrator'.dropped = migrator.dropped /\ migrator'.found = migrator.found
      BY <1>1, <2>1 DEF Migrators
    <2>3. ToSet(Guarded(migrator.at)) = ToSet(Introduced(migrator.at)) \ {"schema_revision"}
      <3>1. migrator.at \in Versions
        BY <2>1 DEF CatalogueInv, DowngradeOK, Versions
      <3>2. QED
        BY <3>1, IntroducedLists
    <2>4. "schema_revision" \notin Exercised /\ ToSet(migrator.todo) = {}
      BY <2>1, TableNames, DeploymentAssumption
    <2>5. FoundOK(migrator')
      BY <1>1, <2>1, <2>2, <2>3, <2>4 DEF FoundOK
    <2>6. QED
      BY <2>1, <2>5, RowsMigrate
  <1>9. ASSUME Drop PROVE RowsInv'
    <2> DEFINE table == Head(migrator.todo)
               work == WithoutTable(migrator.work, table)
               todo == Tail(migrator.todo)
               dropped == migrator.dropped \cup {table}
    <2>1. /\ migrator.phase = "drop" /\ UNCHANGED <<rows, catalogue>>
          /\ migrator.todo \in Seq(Tables) /\ migrator.todo # <<>>
          /\ migrator' = [migrator EXCEPT !.todo = todo, !.dropped = dropped, !.work = work]
      BY <1>1, <1>9 DEF Drop, Migrators
    <2>2. table \in ToSet(Introduced(migrator.at))
      <3>1. table \in ToSet(migrator.todo)
        BY <2>1, HeadTail
      <3>2. QED
        BY <2>1, <3>1 DEF CatalogueInv, DowngradeOK
    <2> HIDE DEF work, todo
    <2>3. /\ migrator'.phase = "drop" /\ migrator'.at = migrator.at
          /\ migrator'.dropped = dropped /\ migrator'.found = migrator.found
      BY <1>1, <2>1 DEF Migrators
    <2>4. FoundOK(migrator')
      BY <1>1, <2>1, <2>2, <2>3 DEF FoundOK
    <2>5. QED
      BY <2>1, <2>4, RowsMigrate
  <1>10. ASSUME Revised PROVE RowsInv'
    <2> DEFINE todo == Guarded(migrator.at - 1)
    <2>1. /\ migrator'.phase = "look" /\ migrator'.at = migrator.at - 1
          /\ migrator'.todo = Guarded(migrator'.at)
          /\ migrator'.dropped = migrator.dropped /\ migrator'.found = migrator.found
          /\ UNCHANGED <<rows, catalogue>>
      BY <1>1, <1>10 DEF Revised, Migrators
    <2>2. FoundOK(migrator')
      BY <1>1, <2>1 DEF FoundOK
    <2>3. QED
      BY <2>1, <2>2, RowsMigrate
  <1>11. ASSUME CommitDowngrade PROVE RowsInv'
    <2>1. /\ migrator.phase = "drop" /\ catalogue' = migrator.work /\ migrator' = Resting
          /\ rows' = Emptied(migrator.dropped)
      BY <1>11 DEF CommitDowngrade
    <2>2. \A t \in Exercised : rows'[t] = IF t \in migrator.dropped THEN {} ELSE rows[t]
      BY <2>1 DEF Emptied
    <2>3. catalogue.tables \ migrator.dropped \subseteq migrator.work.tables
      BY <2>1 DEF LockInv
    <2>4. \A t \in Exercised : rows'[t] \subseteq Tenants /\ (rows'[t] # {} => t \in catalogue'.tables)
      BY <2>1, <2>2, <2>3 DEF RowsInv
    <2>5. FoundOK(migrator)'
      BY <2>1, <2>4 DEF FoundOK, Resting
    <2>6. QED
      BY <2>4, <2>5 DEF RowsInv
  <1>12. ASSUME Refuse PROVE RowsInv'
    <2>1. migrator' = Resting /\ UNCHANGED <<rows, catalogue>>
      BY <1>12 DEF Refuse
    <2>2. FoundOK(migrator')
      BY <2>1 DEF FoundOK, Resting
    <2>3. QED
      BY <2>1, <2>2, RowsMigrate
  <1>13. ASSUME drop_core_schema PROVE RowsInv'
    <2>1. migrator' = migrator /\ migrator.phase = "idle" /\ rows' = Emptied(Exercised)
      BY <1>13 DEF drop_core_schema, Run
    <2>2. \A t \in Exercised : rows'[t] = {}
      BY <2>1 DEF Emptied
    <2>3. \A t \in Exercised : migrator.found[t] = {}
      BY <2>1, <1>1 DEF FoundOK
    <2>4. QED
      BY <1>1, <2>1, <2>2, <2>3 DEF RowsInv, FoundOK
  <1>14. QED
    BY <1>3, <1>4, <1>5, <1>6, <1>7, <1>8, <1>9, <1>10, <1>11, <1>12, <1>13 DEF Migrate

LEMMA RowsStep == CatalogueInv /\ LockInv /\ TenantInv /\ RowsInv /\ [Next]_vars => RowsInv'
  <1>1. SUFFICES ASSUME CatalogueInv, LockInv, TenantInv, RowsInv, [Next]_vars PROVE RowsInv'
    OBVIOUS
  <1>2. ASSUME UNCHANGED <<rows, catalogue, migrator>> PROVE RowsInv'
    BY <1>1, <1>2 DEF RowsInv, FoundOK
  <1>3. ASSUME NEW c \in Pool, Commit(c) PROVE RowsInv'
    <2> DEFINE found == [t \in Exercised |-> {o \in migrator.found[t] : <<t, o>> \notin conn[c].removed}]
    <2>1. /\ catalogue' = catalogue /\ doctor.conn # c
          /\ migrator' = [migrator EXCEPT !.found = found]
          /\ rows' = [t \in Exercised |->
               {o \in Owners : <<t, o>> \in conn[c].added
                                     \/ (o \in rows[t] /\ <<t, o>> \notin conn[c].removed)}]
      BY <1>3 DEF Commit
    <2>2. /\ \A x \in conn[c].added : x[2] \in Tenants
          /\ \A x \in conn[c].added : x[1] \in catalogue.tables
      BY <1>1, <1>3, <2>1 DEF TenantInv, Isolated, LockInv, RowLocked
    <2>3. \A t \in Exercised : rows'[t] \subseteq Tenants /\ (rows'[t] # {} => t \in catalogue'.tables)
      <3>1. SUFFICES ASSUME NEW t \in Exercised, NEW o \in rows'[t]
                     PROVE  o \in Tenants /\ t \in catalogue.tables
        BY <2>1
      <3>2. <<t, o>> \in conn[c].added \/ o \in rows[t]
        BY <2>1, <3>1
      <3>3. CASE <<t, o>> \in conn[c].added
        BY <2>2, <3>3
      <3>4. CASE o \in rows[t]
        BY <1>1, <3>4 DEF RowsInv
      <3>5. QED
        BY <3>2, <3>3, <3>4
    <2>4. /\ migrator'.phase = migrator.phase /\ migrator'.at = migrator.at
          /\ migrator'.todo = migrator.todo /\ migrator'.dropped = migrator.dropped
          /\ \A t \in Exercised : migrator'.found[t] =
                 {o \in migrator.found[t] : <<t, o>> \notin conn[c].removed}
      <3>1. migrator \in Migrators /\ found \in [Exercised -> SUBSET Owners]
        BY <1>1 DEF CatalogueInv, Migrators
      <3>2. \A t \in Exercised : found[t] = {o \in migrator.found[t] : <<t, o>> \notin conn[c].removed}
        OBVIOUS
      <3> HIDE DEF found
      <3>3. QED
        BY <2>1, <3>1, <3>2 DEF Migrators
    <2>5. \A t \in Exercised : migrator'.found[t] \subseteq rows'[t]
      <3>1. SUFFICES ASSUME NEW t \in Exercised, NEW o \in migrator'.found[t] PROVE o \in rows'[t]
        OBVIOUS
      <3>2. o \in migrator.found[t] /\ <<t, o>> \notin conn[c].removed
        BY <2>4, <3>1
      <3>3. o \in rows[t] /\ o \in Owners
        BY <1>1, <3>2 DEF RowsInv, FoundOK, CatalogueInv
      <3>4. QED
        BY <2>1, <3>2, <3>3
    <2>6. FoundOK(migrator)'
      BY <1>1, <2>4, <2>5 DEF RowsInv, FoundOK
    <2>7. QED
      BY <2>3, <2>6 DEF RowsInv
  <1>4. ASSUME NEW c \in Pool, Serve(c) \/ Examine(c) PROVE RowsInv'
    BY <1>2, <1>3, <1>4, ServeKeeps
  <1>5. CASE UNCHANGED vars
    BY <1>2, <1>5 DEF vars
  <1>6. QED
    BY <1>1, <1>4, <1>5, RowsMigration DEF Next

LEMMA RowsAlways == Spec => []RowsInv
  <1>1. CatalogueInv /\ LockInv /\ TenantInv /\ RowsInv /\ [Next]_vars => RowsInv'
    BY RowsStep
  <1>2. QED
    BY <1>1, RowsInit, PoolAlways, PTL DEF Spec

\* A downgrade drops no row that was committed before it began: reject_nonempty_downgrade
\* overlooks none, for the forced policies show the owner every row.
THEOREM DowngradesKeep == Spec => []DowngradeKeepsWhatItFound
  <1>1. RowsInv => DowngradeKeepsWhatItFound
    BY DEF RowsInv, FoundOK, DowngradeKeepsWhatItFound
  <1>2. QED
    BY <1>1, RowsAlways, PTL

-----------------------------------------------------------------------------
(* The doctor.                                                               *)

DoctorInv ==
  /\ doctor.failed # {} => doctor.disturbed
  /\ doctor.phase \in {"probe", "cross"} /\ ~doctor.disturbed =>
       "schema_revision" \in catalogue.tables

\* Where there is a core schema, it is marked, granted and secured.
LEMMA CoreInOrder ==
  ASSUME CatalogueInv, "schema_revision" \in catalogue.tables
  PROVE  /\ catalogue.revision["core"] = 1
         /\ \A t \in ToSet(Tail(CoreTables)) : Secured(t)
         /\ Permitted(catalogue, "application", "events", "INSERT")
  <1>1. /\ catalogue.revision["core"] = 1
        /\ \A t \in {"events", "deliveries", "attempts"} : t \in catalogue.tables
    BY ObjectNames DEF CatalogueInv, Told
  <1>2. ASSUME NEW t \in {"events", "deliveries", "attempts"} PROVE Secured(t)
    <2>1. PICK p \in AllPolicies : p[1] = "application" /\ p[2] = t
      BY TablesReached DEF Reaches, All
    <2>2. p \in catalogue.policies
      BY <1>1, <2>1 DEF CatalogueInv, Consistent, PoliciesOn
    <2>3. QED
      BY <1>1, <2>1, <2>2 DEF Secured
  <1>3. Permitted(catalogue, "application", "events", "INSERT")
    <2>1. PICK g \in AllGrants : g[1] = "application" /\ g[2] = "events" /\ "INSERT" \in g[3]
      BY ApplicationMay DEF MayUse
    <2>2. g \in catalogue.grants
      BY <1>1, <2>1 DEF CatalogueInv, Consistent, GrantsOn
    <2>3. QED
      BY <2>1, <2>2 DEF Permitted
  <1>4. QED
    BY <1>1, <1>2, <1>3, TableNames

LEMMA DoctorInit == Init => DoctorInv
  BY DEF Init, DoctorInv, Well

LEMMA DoctorStep == CatalogueInv /\ LockInv /\ ProbeInv /\ DoctorInv /\ [Next]_vars => DoctorInv'
  <1>1. SUFFICES ASSUME CatalogueInv, LockInv, ProbeInv, DoctorInv, [Next]_vars PROVE DoctorInv'
    OBVIOUS
  <1>2. doctor \in Doctors
    BY <1>1 DEF ProbeInv
  <1>3. ASSUME doctor' = doctor, catalogue.tables \subseteq catalogue'.tables PROVE DoctorInv'
    BY <1>1, <1>3 DEF DoctorInv
  <1>4. ASSUME Migrate PROVE DoctorInv'
    <2>1. ASSUME NEW target \in Targets, Upgrade(target) PROVE DoctorInv'
      BY <1>1, <1>3, <2>1, UpgradedGrows DEF Upgrade, CatalogueInv, Grown
    <2>2. ASSUME NEW component \in Components, Install(component) PROVE DoctorInv'
      BY <1>1, <1>3, <2>2, InstalledGrows DEF Install, CatalogueInv, Grown
    <2>3. ASSUME CommitDowngrade \/ drop_core_schema PROVE DoctorInv'
      <3>1. doctor'.disturbed
        BY <1>2, <2>3 DEF CommitDowngrade, drop_core_schema, Doctors
      <3>2. QED
        BY <3>1 DEF DoctorInv
    <2>4. ASSUME doctor' = doctor, catalogue' = catalogue PROVE DoctorInv'
      BY <1>3, <2>4
    <2>5. QED
      BY <1>4, <2>1, <2>2, <2>3, <2>4 DEF Migrate, UpgradeFails, Downgrade, Look, Forget, Drop,
         Revised, Refuse
  <1>5. ASSUME NEW c \in Pool, Serve(c) \/ Examine(c) PROVE DoctorInv'
    <2>1. ASSUME Serve(c) PROVE DoctorInv'
      BY <1>3, <2>1 DEF Serve, Start, Begin, Read, Insert, Prune, Commit, Rollback
    <2>2. ASSUME Inspect(c) PROVE DoctorInv'
      <3>1. /\ "schema_revision" \in catalogue.tables /\ catalogue' = catalogue /\ ~conn[c].open
        BY <2>2 DEF Inspect
      <3>2. conn[c].setting = None
        BY <1>1, <3>1, IdleRow DEF LockInv, RowLocked
      <3>3. doctor'.failed = {}
        BY <1>1, <2>2, <3>1, <3>2, CoreInOrder DEF Inspect, Unless
      <3>4. QED
        BY <3>1, <3>3 DEF DoctorInv
    <2>3. ASSUME InspectFails(c) PROVE DoctorInv'
      BY <2>3 DEF InspectFails, Well, DoctorInv
    <2>4. ASSUME InsertProbe(c) PROVE DoctorInv'
      <3>1. /\ doctor.phase = "probe" /\ doctor'.failed = doctor.failed
            /\ doctor'.disturbed = doctor.disturbed /\ catalogue' = catalogue
        BY <1>2, <2>4 DEF InsertProbe, Doctors
      <3>2. QED
        BY <1>1, <3>1 DEF DoctorInv
    <2>5. ASSUME ProbeFails(c) PROVE DoctorInv'
      <3>1. /\ doctor.phase = "probe" /\ doctor.conn = c /\ doctor'.phase = "settings"
            /\ doctor'.disturbed = (doctor.disturbed \/ ~Available("events"))
            /\ ~Available("events") \/ ~Granted(c, "events", "INSERT")
        BY <1>2, <2>5 DEF ProbeFails, Doctors
      <3>2. RoleOf[c] = "application"
        BY <1>1, <3>1 DEF ProbeInv
      <3>3. ~Available("events") \/ doctor.disturbed
        BY <1>1, <3>1, <3>2, CoreInOrder DEF DoctorInv, Granted
      <3>4. doctor'.disturbed
        BY <3>1, <3>3
      <3>5. QED
        BY <3>1, <3>4 DEF DoctorInv
    <2>6. ASSUME CrossTenant(c) PROVE DoctorInv'
      <3> DEFINE seen(setting) == Probe \in Visible("application", setting, "events", "SELECT", {Probe})
      <3>1. Probe # Other /\ Probe # None
        BY DeploymentAssumption
      <3>2. ~seen(Other) /\ ~seen(None)
        BY <1>1, <3>1, VisibleTenant
      <3>3. Ended(c).setting = None
        BY IdleRow DEF Ended
      <3>4. doctor' = [doctor EXCEPT !.phase = "settings",
               !.failed = Report(Unless(~seen(Other) /\ ~seen(None), "rls.live_cross_tenant")
                                 \cup Unless(Ended(c).setting = None, "context.rollback_cleanup"))]
        BY <2>6 DEF CrossTenant
      <3>5. Report(Unless(~seen(Other) /\ ~seen(None), "rls.live_cross_tenant")
                   \cup Unless(Ended(c).setting = None, "context.rollback_cleanup")) = doctor.failed
        BY <3>2, <3>3 DEF Report, Unless
      <3> HIDE DEF seen
      <3>6. doctor' = [doctor EXCEPT !.phase = "settings", !.failed = doctor.failed]
        BY <3>4, <3>5
      <3>7. /\ doctor'.phase = "settings" /\ doctor'.failed = doctor.failed
            /\ doctor'.disturbed = doctor.disturbed
        BY <1>2, <3>6 DEF Doctors
      <3>8. QED
        BY <1>1, <3>7 DEF DoctorInv
    <2>7. ASSUME CommitSettings(c) PROVE DoctorInv'
      <3>1. /\ doctor'.phase = "reuse" /\ doctor'.failed = doctor.failed
            /\ doctor'.disturbed = doctor.disturbed
        BY <1>2, <2>7, IdleRow DEF CommitSettings, Ended, Report, Unless, Doctors
      <3>2. QED
        BY <1>1, <3>1 DEF DoctorInv
    <2>8. ASSUME NEW other \in Pool, Reuse(c, other) PROVE DoctorInv'
      <3>1. conn[other].setting = None
        BY <1>1, <2>8, IdleRow DEF Reuse, LockInv, RowLocked
      <3>2. /\ doctor'.phase = "idle" /\ doctor'.failed = doctor.failed
            /\ doctor'.disturbed = doctor.disturbed
        BY <1>2, <2>8, <3>1 DEF Reuse, Report, Unless, Doctors
      <3>3. QED
        BY <1>1, <3>2 DEF DoctorInv
    <2>9. QED
      BY <1>5, <2>1, <2>2, <2>3, <2>4, <2>5, <2>6, <2>7, <2>8 DEF Examine
  <1>6. CASE UNCHANGED vars
    BY <1>3, <1>6 DEF vars
  <1>7. QED
    BY <1>1, <1>4, <1>5, <1>6 DEF Next

LEMMA DoctorAlways == Spec => []DoctorInv
  <1>1. CatalogueInv /\ LockInv /\ ProbeInv /\ DoctorInv /\ [Next]_vars => DoctorInv'
    BY DoctorStep
  <1>2. QED
    BY <1>1, DoctorInit, PoolAlways, PTL DEF Spec

\* The doctor's probe row is never left behind, and a run that meets no downgrade and
\* no dropped schema reports no failure.
THEOREM DoctorsHarmless == Spec => []DoctorHarmless
  <1>1. RowsInv /\ DoctorInv => DoctorHarmless
    BY DEF RowsInv, DoctorInv, DoctorHarmless
  <1>2. QED
    BY <1>1, RowsAlways, DoctorAlways, PTL

\* Every version is one of the migrations', every connection's setting and locks are
\* tenants and tables, and the schema holds no object the migrations do not create.
THEOREM DeploymentTyped == Spec => []DeploymentTypeOK
  <1>1. CatalogueInv /\ LockInv => DeploymentTypeOK
    BY DEF CatalogueInv, Consistent, Catalogues, LockInv, Connections, DeploymentTypeOK
  <1>2. QED
    BY <1>1, PoolAlways, PTL
=============================================================================
