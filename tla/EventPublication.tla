-------------------------- MODULE EventPublication --------------------------
(***************************************************************************)
(* Units of work that publish events (sqlalchemy/uow.py, repository.py):   *)
(* emit() matches the routes, inserts the event and one delivery per route *)
(* in the caller's transaction, and resolves a dedupe key that another     *)
(* transaction has already used.  Webhook retention removes deliveries and *)
(* orphan events underneath (postgres/webhook_schema.py).                  *)
(*                                                                         *)
(* Transactions are READ COMMITTED.  An insert whose dedupe key is held by *)
(* an uncommitted insert waits for that transaction, as ON CONFLICT DO     *)
(* NOTHING does; the SELECT that resolves a conflict is a later statement. *)
(***************************************************************************)
EXTENDS Naturals, Sequences

CONSTANTS
  Sessions,     \* concurrent transactions
  EventIds,     \* the event identifiers that may be drawn
  DedupeKeys,   \* dedupe identities (namespace and key)
  Contents,     \* event contents, records with an event_type
  Declared,     \* the frozen route registry, in the order of specifications()
  Provided,     \* the answers a route provider may give, sequences of routes
  None

VARIABLES
  event,        \* event and delivery rows, with those of open transactions
  uow           \* the unit of work of each session

pubVars == <<event, uow>>

\* The identity that deliveries and duplicates of a route are told apart by.
RouteIdentity(route) ==
  <<route.route_key, route.version, route.destination_kind, route.destination_key>>

\* Of every route key the newest version declared for the event type, and of
\* equal versions the first.
matching_routes(routes, event_type) ==
  {routes[n] : n \in {i \in DOMAIN routes :
     /\ routes[i].event_type = event_type
     /\ \A j \in DOMAIN routes :
          /\ routes[j].event_type = event_type
          /\ routes[j].route_key = routes[i].route_key
          => \/ routes[j].version < routes[i].version
             \/ routes[j].version = routes[i].version /\ i <= j}}

\* Static and provided routes must not coincide; emit() raises if they do.
unique_routes(declared, provided) ==
  \A r \in declared, q \in provided : RouteIdentity(r) # RouteIdentity(q)

Matched(content, provided) ==
  matching_routes(Declared, content.event_type)
    \cup matching_routes(provided, content.event_type)

Deliverable == UNION {Matched(c, p) : c \in Contents, p \in Provided}

\* An event row with its deliveries.  "pruned" stands for a deleted row: its
\* identifier is never drawn again.  History: origin, the command execution
\* that published the event, and original, the deliveries it was inserted with.
EventRow(origins) ==
  [status : {"pending", "committed", "pruned"}, by : Sessions \cup {None},
   content : Contents, key : DedupeKeys \cup {None}, origin : origins,
   deliveries : SUBSET Deliverable, original : SUBSET Deliverable]

\* returned: the events that emit() has returned, and for which content.
\* conflict: the insert that found its key taken and is to be resolved.
Idle == [active |-> FALSE, returned |-> {}, conflict |-> None]

UnitOfWork ==
  [active : BOOLEAN, returned : SUBSET [event : EventIds, content : Contents],
   conflict : {None} \cup [key : DedupeKeys, content : Contents]]

PubInit ==
  /\ event = [e \in EventIds |-> None]
  /\ uow = [s \in Sessions |-> Idle]

Durable(e) == event[e] # None /\ event[e].status = "committed"
Pending(e, s) == event[e] # None /\ event[e].status = "pending" /\ event[e].by = s
Visible(e, s) == Durable(e) \/ Pending(e, s)

\* Rows with this key that the session's statements see, and those that only
\* the unique index sees.
Holders(key, s) == {e \in EventIds : Visible(e, s) /\ event[e].key = key}
InFlight(key, s) ==
  {e \in EventIds : event[e] # None /\ event[e].status = "pending"
                      /\ event[e].by # s /\ event[e].key = key}

-----------------------------------------------------------------------------
Enter(s) ==
  /\ ~uow[s].active
  /\ uow' = [uow EXCEPT ![s] = [active |-> TRUE, returned |-> {}, conflict |-> None]]
  /\ UNCHANGED event

CanEmit(s, content, provided) ==
  /\ uow[s].active
  /\ uow[s].conflict = None
  /\ unique_routes(matching_routes(Declared, content.event_type),
                   matching_routes(provided, content.event_type))

\* The row goes in: no row has the key, or the event has none.
EmitInsert(s, e, content, key, provided, origin) ==
  /\ CanEmit(s, content, provided)
  /\ event[e] = None
  /\ key # None => Holders(key, s) = {} /\ InFlight(key, s) = {}
  /\ event' = [event EXCEPT ![e] =
       [status |-> "pending", by |-> s, content |-> content, key |-> key,
        origin |-> origin, deliveries |-> Matched(content, provided),
        original |-> Matched(content, provided)]]
  /\ uow' = [uow EXCEPT ![s].returned = @ \cup {[event |-> e, content |-> content]}]

\* ON CONFLICT DO NOTHING returned no row; the transaction that held the key
\* has ended, or is this one.
EmitConflict(s, content, key, provided) ==
  /\ CanEmit(s, content, provided)
  /\ key # None
  /\ Holders(key, s) # {}
  /\ uow' = [uow EXCEPT ![s].conflict = [key |-> key, content |-> content]]
  /\ UNCHANGED event

\* Mutant of EmitResolve: the stored event is returned whatever its content.
EmitResolveAnyContent(s) ==
  /\ uow[s].conflict # None
  /\ LET asked == uow[s].conflict
     IN uow' = [uow EXCEPT ![s].conflict = None, ![s].returned =
          @ \cup {[event |-> e, content |-> asked.content] : e \in Holders(asked.key, s)}]
  /\ UNCHANGED event

\* Mutant of EmitResolve: the stored event is given deliveries for the routes of
\* the repeated emit().
EmitResolveFansOut(s) ==
  /\ uow[s].conflict # None
  /\ LET asked == uow[s].conflict
         hit == {e \in Holders(asked.key, s) : event[e].content = asked.content}
     IN /\ \E p \in Provided :
             event' = [e \in EventIds |-> IF e \in hit
               THEN [event[e] EXCEPT !.deliveries = @ \cup Matched(asked.content, p)]
               ELSE event[e]]
        /\ uow' = [uow EXCEPT ![s].conflict = None, ![s].returned =
             @ \cup {[event |-> e, content |-> asked.content] : e \in hit}]

\* _event_for_dedupe: the event is returned when its content is the same.
\* Otherwise, and when retention has deleted it in between, emit() raises and
\* the caller may still catch the error and go on.
EmitResolve(s) ==
  /\ uow[s].active
  /\ uow[s].conflict # None
  /\ LET asked == uow[s].conflict
         hit == {e \in Holders(asked.key, s) : event[e].content = asked.content}
     IN uow' = [uow EXCEPT ![s] = [active |-> TRUE, conflict |-> None, returned |->
          @.returned \cup {[event |-> e, content |-> asked.content] : e \in hit}]]
  /\ UNCHANGED event

Committed(row) == [row EXCEPT !.status = "committed", !.by = None]

Commit(s) ==
  /\ uow[s].active
  /\ uow[s].conflict = None
  /\ event' = [e \in EventIds |->
       IF Pending(e, s) THEN Committed(event[e]) ELSE event[e]]
  /\ uow' = [uow EXCEPT ![s] = Idle]

\* An exception in the block, a lost connection or a crash.
Rollback(s) ==
  /\ uow[s].active
  /\ event' = [e \in EventIds |-> IF Pending(e, s) THEN None ELSE event[e]]
  /\ uow' = [uow EXCEPT ![s] = Idle]

\* prune_webhook_history deletes terminal webhook deliveries.  Which ones have
\* ended, and when, is left open.
RetainDeliveries(e) ==
  /\ Durable(e)
  /\ \E gone \in (SUBSET {r \in event[e].deliveries :
                            r.destination_kind = "webhook"}) \ {{}} :
       event' = [event EXCEPT ![e].deliveries = @ \ gone]
  /\ UNCHANGED uow

Pruned(row) == [row EXCEPT !.status = "pruned", !.original = {}]

\* ... and events that no delivery is left of.
RetainEvent(e) ==
  /\ Durable(e)
  /\ event[e].deliveries = {}
  /\ event' = [event EXCEPT ![e] = Pruned(@)]
  /\ UNCHANGED uow

Emit(s, origin) ==
  \/ \E e \in EventIds, c \in Contents, k \in DedupeKeys \cup {None}, p \in Provided :
       EmitInsert(s, e, c, k, p, origin)
  \/ \E c \in Contents, k \in DedupeKeys, p \in Provided : EmitConflict(s, c, k, p)
  \/ EmitResolve(s)

Retention == \E e \in EventIds : RetainDeliveries(e) \/ RetainEvent(e)
=============================================================================
