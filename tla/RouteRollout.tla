----------------------------- MODULE RouteRollout -----------------------------
(***************************************************************************)
(* Routes and handlers through rolling releases: how a process declares    *)
(* and freezes them when it starts (core/routing.py, api.py), the          *)
(* snapshots that deliveries are published with, and the processes of      *)
(* earlier and later releases that execute those deliveries                *)
(* (handlers/executor.py under postgres/relay.py).                         *)
(*                                                                         *)
(* A release is a program: what its modules declare, in import order.  A   *)
(* configuration error ends the process, at startup or while it executes   *)
(* a batch of deliveries, whose leases then expire.  When they do is the   *)
(* affair of LeaseRepository, and the handler's own verdict that of        *)
(* Authority: a delivery is pending until a process executes it, denies    *)
(* its authority, or ends while it holds it for the last attempt.          *)
(***************************************************************************)
EXTENDS Integers, Sequences, FiniteSets, SequencesExt

CONSTANTS
  Processes,
  Histories,     \* sequences of releases
  Load,          \* bound: events with deliveries, of each history
  MaxCrashes,    \* bound: crashes
  BatchSize,     \* bound: deliveries a relay claims at once
  max_attempts,  \* the routes' retry budget
  None

\* A program is [declarations, resolver, policies]: its statements in order; whether
\* an authorization resolver is configured; what each service policy grants, or None.
\* A declaration's statement is route(...).to_handler, handler(...), or something that
\* freezes (freeze, uow_dependency, handler_executor); its function is a handler's.
Declared(program) == {program.declarations[i] : i \in DOMAIN program.declarations}

Identity(d) == <<d.key, d.version>>

\* "Retain registered historical handler versions for already-snapshotted
\* deliveries" (docs/adr/0004-routing-and-policy-snapshots.md:20): the operators'
\* part of the bargain.
Retains(before, after) ==
  /\ \A d \in Declared(before) : d.statement # "freeze" =>
       \E e \in Declared(after) : e.statement # "freeze" /\ Identity(e) = Identity(d)
  /\ before.resolver => after.resolver

Releases(h) == {h[i] : i \in DOMAIN h}

\* Registrations check that versions are positive integers.
WellFormed(program) ==
  /\ program.declarations \in Seq(Declared(program))
  /\ \A d \in Declared(program) :
       /\ d.statement \in {"route", "handler", "freeze"}
       /\ d.statement # "freeze" => d.version \in Nat \ {0}

ASSUME HistoryAssumption ==
  \A h \in Histories :
    /\ h \in Seq(Releases(h)) /\ Len(h) > 0
    /\ \A program \in Releases(h) : WellFormed(program)
    /\ \A i, j \in DOMAIN h : i < j => Retains(h[i], h[j])

ASSUME RolloutAssumption ==
  /\ Load \in [Histories -> Nat] /\ MaxCrashes \in Nat
  /\ BatchSize \in Nat \ {0} /\ max_attempts \in Nat \ {0}

VARIABLES
  history,    \* the releases, chosen once
  current,    \* the release that is deployed
  process,    \* what runs
  delivery,   \* handler deliveries
  events, crashes

vars == <<history, current, process, delivery, events, crashes>>

-----------------------------------------------------------------------------
(* RouteRegistry *)

Unfrozen == [routes |-> {}, handlers |-> {}, frozen |-> FALSE]

Registered(registry, identity) == {h \in registry.handlers : h.identity = identity}

\* to_handler: each mode has its own parameters.
ModeDeclared(d) ==
  CASE d.authorization = "snapshot" -> d.maximum_snapshot_age # None /\ d.service_policy = None
    [] d.authorization = "revalidate" -> d.maximum_snapshot_age = None /\ d.service_policy = None
    [] d.authorization = "service_policy" -> d.maximum_snapshot_age = None /\ d.service_policy # None

\* The immutable specification; capabilities are resolved when the registry freezes.
RouteSpecification(d) ==
  [event_type |-> d.event_type, key |-> d.key, version |-> d.version,
   authorization |-> d.authorization, required_scopes |-> d.required_scopes,
   service_policy |-> d.service_policy, maximum_snapshot_age |-> d.maximum_snapshot_age,
   service_capabilities |-> None]

\* Mutant of HandlerAccepted: a second registration replaces the first.
HandlerAcceptedAnyway(registry, d) == ~registry.frozen

HandlerAccepted(registry, d) ==
  /\ ~registry.frozen
  /\ \A h \in Registered(registry, Identity(d)) : h.function = d.function

register_handler(registry, d) ==
  [registry EXCEPT !.handlers =
     (@ \ Registered(registry, Identity(d))) \cup {[identity |-> Identity(d), function |-> d.function]}]

\* A key keeps its event type, and its versions are declared in ascending order.
RouteAccepted(registry, d) ==
  /\ ModeDeclared(d)
  /\ HandlerAccepted(registry, d)
  /\ \A r \in registry.routes : r.key = d.key =>
       r.event_type = d.event_type /\ r.version < d.version

register_route(registry, d) ==
  [register_handler(registry, d) EXCEPT !.routes = @ \cup {RouteSpecification(d)}]

Services(registry) == {r \in registry.routes : r.authorization = "service_policy"}

\* Mutant of SnapshotsPrepared: that the policy is registered is enough.
SnapshotsPreparedNamed(registry, program) ==
  /\ (\E r \in registry.routes : r.authorization = "revalidate") => program.resolver
  /\ \A r \in Services(registry) : program.policies[r.service_policy] # None

\* _prepare_authorization_snapshots and the checks of RouteRegistry.freeze.
SnapshotsPrepared(registry, program) ==
  /\ (\E r \in registry.routes : r.authorization = "revalidate") => program.resolver
  /\ \A r \in Services(registry) :
       /\ program.policies[r.service_policy] # None
       /\ r.required_scopes \subseteq program.policies[r.service_policy]
  /\ \A r \in registry.routes : Registered(registry, <<r.key, r.version>>) # {}

\* snapshot_service_capabilities pins what the policies grant; then nothing changes.
freeze(registry, program) ==
  IF registry.frozen THEN registry
  ELSE [registry EXCEPT !.frozen = TRUE, !.routes =
          {IF r \in Services(registry)
             THEN [r EXCEPT !.service_capabilities = program.policies[r.service_policy]]
             ELSE r : r \in @}]

Accepted(registry, d, program) ==
  CASE d.statement = "route" -> ~registry.frozen /\ RouteAccepted(registry, d)
    [] d.statement = "handler" -> HandlerAccepted(registry, d)
    [] d.statement = "freeze" -> registry.frozen \/ SnapshotsPrepared(registry, program)

Performed(registry, d, program) ==
  CASE d.statement = "route" -> register_route(registry, d)
    [] d.statement = "handler" -> register_handler(registry, d)
    [] d.statement = "freeze" -> freeze(registry, program)

\* Mutant of matching: every version that is registered.
matchingAll(registry, event_type) == {r \in registry.routes : r.event_type = event_type}

\* The newest version of each key.
matching(registry, event_type) ==
  {r \in registry.routes : r.event_type = event_type
     /\ \A q \in registry.routes : q.key = r.key => q.version <= r.version}

-----------------------------------------------------------------------------
(* Processes *)

Down == [state |-> "down", release |-> 0, position |-> 0, registry |-> Unfrozen]

Init ==
  /\ history \in Histories
  /\ current = 1
  /\ process = [p \in Processes |-> Down]
  /\ delivery = {}
  /\ events = 0 /\ crashes = 0

Running(p) == history[process[p].release]

Held(p) == {d \in delivery : d.holder = p}

\* The lease expires and reconcile_expired charges the attempt.  lost records the relay
\* that held it and the release of the delivery that stopped the relay; 0, if none did.
Lost(d, relay, offender) ==
  [d EXCEPT !.state = IF Len(d.lost) + 1 < max_attempts THEN "pending" ELSE "dead",
            !.holder = None,
            !.lost = Append(@, [relay |-> relay, offender |-> offender])]

Abandoned(p, offender) ==
  {IF d \in Held(p) THEN Lost(d, process[p].release, offender) ELSE d : d \in delivery}

Deploy ==
  /\ current < Len(history)
  /\ current' = current + 1
  /\ UNCHANGED <<history, process, delivery, events, crashes>>

\* A process that is down, or of an earlier release, is replaced; what it still holds
\* when its grace is over is abandoned.
Start(p) ==
  /\ process[p].state = "down" \/ process[p].release # current
  /\ process' = [process EXCEPT ![p] =
       [state |-> "starting", release |-> current, position |-> 0, registry |-> Unfrozen]]
  /\ delivery' = Abandoned(p, 0)
  /\ UNCHANGED <<history, current, events, crashes>>

Crash(p) ==
  /\ crashes < MaxCrashes
  /\ process[p].state # "down"
  /\ process' = [process EXCEPT ![p] = Down]
  /\ delivery' = Abandoned(p, 0)
  /\ crashes' = crashes + 1
  /\ UNCHANGED <<history, current, events>>

\* The next statement of the program, or the configuration error it raises.
Advanced(s, program) ==
  LET d == program.declarations[s.position + 1]
  IN  IF Accepted(s.registry, d, program)
        THEN [state |-> "starting", release |-> s.release, position |-> s.position + 1,
              registry |-> Performed(s.registry, d, program)]
        ELSE Down

Declare(p) ==
  /\ process[p].state = "starting"
  /\ process[p].position < Len(Running(p).declarations)
  /\ process' = [process EXCEPT ![p] = Advanced(process[p], Running(p))]
  /\ UNCHANGED <<history, current, delivery, events, crashes>>

\* Units of work and the executor need a frozen registry.
Serve(p) ==
  /\ process[p].state = "starting"
  /\ process[p].position = Len(Running(p).declarations)
  /\ process[p].registry.frozen
  /\ process' = [process EXCEPT ![p].state = "serving"]
  /\ UNCHANGED <<history, current, delivery, events, crashes>>

\* emit(): the deliveries carry to_snapshot() of their routes.  An event that no route
\* matches has none, and leaves nothing here.
Emit(p, event_type) ==
  /\ process[p].state = "serving"
  /\ matching(process[p].registry, event_type) # {}
  /\ events < Load[history]
  /\ events' = events + 1
  /\ delivery' = delivery \cup
       {[event |-> events + 1, route |-> r, release |-> process[p].release,
         state |-> "pending", holder |-> None, lost |-> <<>>] :
          r \in matching(process[p].registry, event_type)}
  /\ UNCHANGED <<history, current, process, crashes>>

\* run_once claims a batch, and the next one when every task of it has ended.
Claim(p) ==
  /\ process[p].state = "serving"
  /\ Held(p) = {}
  /\ \E batch \in SUBSET {d \in delivery : d.state = "pending" /\ d.holder = None} :
       /\ batch # {} /\ Cardinality(batch) <= BatchSize
       /\ delivery' = {IF d \in batch THEN [d EXCEPT !.holder = p] ELSE d : d \in delivery}
  /\ UNCHANGED <<history, current, process, events, crashes>>

\* Mutant of Executable: the handler is looked up among the routes, where handlers
\* that a release only retains are not.
ExecutableRoutes(p, d) ==
  \E r \in process[p].registry.routes : <<r.key, r.version>> = <<d.route.key, d.route.version>>

\* resolve_handler finds the identity, and the snapshot's mode can be evaluated.
Executable(p, d) ==
  /\ Registered(process[p].registry, <<d.route.key, d.route.version>>) # {}
  /\ d.route.authorization = "revalidate" => Running(p).resolver
  /\ d.route.authorization = "service_policy" => d.route.service_capabilities # None
  /\ d.route.authorization = "snapshot" => d.route.maximum_snapshot_age # None

\* Whether the handler may run; users' authority is the subject of Authority.
Verdicts(d) ==
  IF d.route.authorization = "service_policy"
    THEN IF d.route.required_scopes \subseteq d.route.service_capabilities
           THEN {"executed"} ELSE {"denied"}
    ELSE {"executed", "denied"}

Execute(p, d) ==
  /\ d \in Held(p)
  /\ Executable(p, d)
  /\ \E verdict \in Verdicts(d) :
       delivery' = (delivery \ {d}) \cup {[d EXCEPT !.state = verdict, !.holder = None]}
  /\ UNCHANGED <<history, current, process, events, crashes>>

\* The configuration error leaves execute_claim: the task group cancels every other
\* delivery of the batch, and the relay ends.
Unexecutable(p, d) ==
  /\ d \in Held(p)
  /\ ~Executable(p, d)
  /\ process' = [process EXCEPT ![p] = Down]
  /\ delivery' = Abandoned(p, d.release)
  /\ UNCHANGED <<history, current, events, crashes>>

EventTypes == {d.event_type : d \in UNION {Declared(history[i]) : i \in DOMAIN history}}

Step(p) ==
  \/ Start(p) \/ Crash(p) \/ Declare(p) \/ Serve(p) \/ Claim(p)
  \/ \E event_type \in EventTypes : Emit(p, event_type)
  \/ \E d \in delivery : Execute(p, d) \/ Unexecutable(p, d)

Next == Deploy \/ \E p \in Processes : Step(p)

Spec == Init /\ [][Next]_vars

\* Operators finish the rollout, supervisors restart what is down or old, startup
\* code goes on, and a relay polls and works off what it has claimed.
Fairness ==
  /\ WF_vars(Deploy)
  /\ \A p \in Processes :
       /\ WF_vars(Start(p)) /\ WF_vars(Declare(p) \/ Serve(p))
       /\ WF_vars(Claim(p) \/ \E d \in delivery : Execute(p, d) \/ Unexecutable(p, d))

FairSpec == Spec /\ Fairness

-----------------------------------------------------------------------------
(* Properties *)

\* What a process has published, it and every process of a later release that
\* retains its handlers can execute: the handler is found, the mode's parameters
\* are there, and a service policy grants what the route requires.  So a relay
\* stops with a configuration error only on deliveries of a release it does not
\* yet run (routing.py:141-240, api.py:288-328, executor.py:47-139).
PublishedIsExecutable ==
  \A p \in Processes, d \in delivery :
    process[p].state = "serving" /\ process[p].release >= d.release =>
      Executable(p, d) /\ "executed" \in Verdicts(d)

\* In a serving process every route runs the function it was declared with,
\* whatever else was declared under that identity; an event has one delivery per
\* key, of the newest version its publisher declared: "select only the highest
\* registered version of each stable route key" (ADR 0004:21-22; routing.py:123-227).
RoutesRunAsDeclared ==
  /\ \A p \in Processes : process[p].state = "serving" =>
       \A d \in Declared(Running(p)) : d.statement = "route" =>
         Registered(process[p].registry, Identity(d))
           = {[identity |-> Identity(d), function |-> d.function]}
  /\ \A d \in delivery :
       /\ \A e \in delivery : e.event = d.event /\ e.route.key = d.route.key => e = d
       /\ \A r \in Declared(history[d.release]) :
            r.statement = "route" /\ r.key = d.route.key => r.version <= d.route.version

\* The outcome of a program's startup.
Starts(program) ==
  LET perform(s, d) == [ok |-> s.ok /\ Accepted(s.registry, d, program),
                        registry |-> IF s.ok /\ Accepted(s.registry, d, program)
                                       THEN Performed(s.registry, d, program) ELSE s.registry]
      end == FoldLeft(perform, [ok |-> TRUE, registry |-> Unfrozen], program.declarations)
  IN end.ok /\ end.registry.frozen

\* Every attempt of a dead delivery was lost with a process that crashed or was
\* replaced, or with a relay that stopped on a delivery of a later release than its own.
Ended(d) ==
  /\ d.state \in {"executed", "denied", "dead"}
  /\ d.state = "dead" => \A i \in DOMAIN d.lost :
       d.lost[i].offender # 0 => d.lost[i].relay < d.lost[i].offender

\* Histories whose last release starts.
Completed == {h \in Histories : Starts(h[Len(h)])}

Events == UNION {1 .. Load[h] : h \in Histories}

\* A rollout whose last release starts leaves no delivery pending, whichever releases
\* in between do not start.  It is executed or denied, or it is dead, and then each of
\* its attempts was lost with a process that crashed or was replaced, or with a relay
\* older than some delivery of the same batch: its own, or a sibling's that took a
\* delivery of the relay's own release with it.  No relay stops on what its own or an
\* earlier release published (relay.py:126-171, routing.py:223-234).
EveryDeliveryEnds ==
  \A event \in Events :
    (history \in Completed /\ \E d \in delivery : d.event = event)
      ~> \A d \in delivery : d.event = event => Ended(d)
=============================================================================
