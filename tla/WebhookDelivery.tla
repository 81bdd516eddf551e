-------------------------- MODULE WebhookDelivery --------------------------
(***************************************************************************)
(* Webhooks end to end: managers change subscriptions and keys, units of   *)
(* work snapshot the active subscriptions as deliveries (EventPublication),*)
(* attempts of those deliveries look up signing keys, send the request     *)
(* (WebhookTransport) and record the subscription's health, and retention  *)
(* removes what has ended.                                                 *)
(*                                                                         *)
(* Which attempt runs when is the ledger's affair (LeaseRepository): any   *)
(* committed delivery may be attempted at any time, also twice at once.    *)
(***************************************************************************)
EXTENDS WebhookSubscriptions, WebhookTransport, SequencesExt

CONSTANTS
  Sessions, EventIds, DedupeKeys, Contents, Declared, Provided, \* see EventPublication
  Remaining     \* times to the delivery deadline that an answer may find

\* Subscriptions are rows; the registry's own routes lead to handlers (to_handler).
ASSUME WebhookAssumption ==
  /\ Remaining \subseteq Int
  /\ IsFiniteSet(Subscriptions)
  /\ \A i \in DOMAIN Declared : Declared[i].destination_kind # "webhook"

VARIABLES
  event, uow,   \* see EventPublication
  sink          \* WebhookDeliverySink.execute of each attempt

INSTANCE EventPublication

vars == <<now, secretVars, subscriptionVars, event, uow, request, sink>>

\* route: the delivery's snapshot.  keys: the versions whose signatures the request
\* carries.  barred: history, the versions that were revoked when it began.
Sink(routes) ==
  [phase : {"idle", "keys", "sending"}, route : routes \cup {None},
   keys : SUBSET (Nat \ {0}), barred : SUBSET (Nat \ {0})]

NoSink == [phase |-> "idle", route |-> None, keys |-> {}, barred |-> {}]

Init ==
  /\ SubscriptionInit
  /\ TransportInit
  /\ PubInit
  /\ sink = [a \in Attempts |-> NoSink]

-----------------------------------------------------------------------------
\* execute() is called with a claim; a route that names no subscription is refused at
\* once.  The attempt deadline may have passed already.
BeginAttempt(a, e, route) ==
  /\ sink[a].phase = "idle"
  /\ Durable(e)
  /\ route \in event[e].deliveries
  /\ route.destination_kind = "webhook"
  /\ \E late \in BOOLEAN :
       /\ sink' = [sink EXCEPT ![a] =
            [phase |-> IF late THEN "sending" ELSE "keys", route |-> route,
             keys |-> {}, barred |-> revoked[route.secret_set]]]
       /\ request' = [request EXCEPT ![a] =
            IF late THEN Ended(NoRequest, "timeout") ELSE NoRequest]

\* The request is signed once, for every address and redirect; without a key it
\* is not sent.
LookUpKeys(a) ==
  /\ sink[a].phase = "keys"
  /\ LET keys == eligible_for_signing(sink[a].route.secret_set)
     IN /\ sink' = [sink EXCEPT ![a] = [@ EXCEPT !.phase = "sending", !.keys = keys]]
        /\ IF keys = {} THEN Ends(a, "permanent") ELSE StartRequest(a)

\* The aggregate deadline during the lookup.
LookUpTimesOut(a) ==
  /\ sink[a].phase = "keys"
  /\ sink' = [sink EXCEPT ![a].phase = "sending"]
  /\ Ends(a, "timeout")

Sending(a) ==
  /\ sink[a].phase = "sending"
  /\ \E remaining \in Remaining : TransportStep(a, remaining)
  /\ UNCHANGED sink

Leaves(a) ==
  /\ sink' = [sink EXCEPT ![a] = NoSink]
  /\ request' = [request EXCEPT ![a] = NoRequest]

\* The observer's transaction, then the result is returned or the error raised.
RecordHealth(a) ==
  /\ request[a].phase = "ended"
  /\ LET s == sink[a].route.route_key
     IN IF request[a].outcome = "success" THEN RecordSuccess(s) ELSE RecordFailure(s)
  /\ Leaves(a)

\* No observer, or its transaction fails.
HealthUnrecorded(a) ==
  /\ request[a].phase = "ended"
  /\ Leaves(a)
  /\ UNCHANGED <<secretVars, subscriptionVars>>

\* Cancelled with its relay, a crash, or an error of the key lookup.
Vanish(a) ==
  /\ sink[a].phase # "idle"
  /\ request[a].phase # "ended"
  /\ Leaves(a)

-----------------------------------------------------------------------------
Changes ==
  LET revisions == {<<"head", s, n>> : s \in Subscriptions, n \in 1 .. MaxChanges}
                     \cup {<<"set", k, n>> : k \in SecretSets, n \in 1 .. MaxChanges}
  IN Cardinality({r \in revisions :
       \/ r[1] = "head" /\ head[r[2]] # None /\ r[3] <= head[r[2]].revision
       \/ r[1] = "set" /\ r[3] <= secret_set[r[2]]})

\* Creation and change of subscriptions and key sets, disabling and revocation.
Manage ==
  /\ Changes < MaxChanges
  /\ \/ \E m \in Managers, s \in Subscriptions :
          \/ \E k \in SecretSets, types \in normalize_event_types :
               \/ \E threshold \in Thresholds : CreateSubscription(m, s, k, types, threshold)
               \/ UpdateSubscription(m, s, k, types)
          \/ SetState(m, s, "disabled")
     \/ \E k \in SecretSets :
          /\ CreateSecret(k) \/ RevokeSecret(k)
          /\ UNCHANGED subscriptionVars
  /\ UNCHANGED <<now, event, uow, request, sink>>

\* WebhookOperations: pause, reactivate and rotate_secret.
Operate ==
  /\ Changes < MaxChanges
  /\ \/ \E m \in Managers, s \in Subscriptions, state \in {"paused", "active"} :
          SetState(m, s, state)
     \/ \E k \in SecretSets, window \in Overlaps :
          RotateSecret(k, window) /\ UNCHANGED subscriptionVars
  /\ UNCHANGED <<now, event, uow, request, sink>>

Inspect ==
  /\ \E m \in Managers, s \in Subscriptions : GetSubscription(m, s)
  /\ UNCHANGED <<now, event, uow, request, sink>>

\* routes_for: read in the publishing transaction.
routes_for(event_type) == SetToSeq({route_of(s, event_type) : s \in Subscribed(event_type)})

PublishStep ==
  /\ \E s \in Sessions :
       \/ Enter(s)
       \/ \E e \in EventIds, c \in Contents :
            EmitInsert(s, e, c, None, routes_for(c.event_type), None)
       \/ Commit(s)
       \/ Rollback(s)
  /\ UNCHANGED <<now, secretVars, subscriptionVars, request, sink>>

Attempt(a) ==
  /\ \/ \E e \in EventIds : Durable(e) /\ \E route \in event[e].deliveries : BeginAttempt(a, e, route)
     \/ LookUpKeys(a)
     \/ LookUpTimesOut(a)
     \/ Sending(a)
     \/ Vanish(a)
  /\ UNCHANGED <<now, secretVars, subscriptionVars, event, uow>>

Health ==
  /\ \E a \in Attempts :
       \/ Changes < MaxChanges /\ RecordHealth(a)
       \/ HealthUnrecorded(a)
  /\ UNCHANGED <<now, event, uow>>

\* The stages of prune_webhook_history; a batch leaves rows of any of them behind.
Retain ==
  \/ Retention /\ UNCHANGED <<now, secretVars, subscriptionVars, request, sink>>
  \/ \E cutoff \in 0 .. now :
       PruneSecrets(cutoff) /\ UNCHANGED <<now, subscriptionVars, event, uow, request, sink>>

Tick ==
  /\ now < MaxTime
  /\ now' = now + 1
  /\ UNCHANGED <<secretVars, subscriptionVars, event, uow, request, sink>>

Next ==
  \/ Manage \/ Operate \/ Inspect \/ PublishStep
  \/ \E a \in Attempts : Attempt(a)
  \/ Health \/ Retain \/ Tick

Spec == Init /\ [][Next]_vars

-----------------------------------------------------------------------------
\* What a delivery was committed with stays true of the subscription version it
\* names, and an attempt signs with keys of that version's set, none of them
\* revoked before the attempt began, or sends nothing: "already committed
\* deliveries retain their original route and secret-set snapshot"
\* (docs/operations/webhook-secrets.md:29-31; subscriptions.py:145-165, sink.py:127-160).
SnapshotSigns ==
  /\ \A e \in EventIds : event[e] # None => \A r \in event[e].deliveries :
       r.destination_kind = "webhook" =>
       /\ version[r.route_key][r.version].secret_set = r.secret_set
       /\ r.event_type \in version[r.route_key][r.version].event_types
  /\ \A a \in Attempts :
       /\ request[a].copies > 0 => sink[a].keys # {}
       /\ sink[a].keys \cap sink[a].barred = {}
       /\ sink[a].route # None => \A v \in sink[a].keys : v <= issued[sink[a].route.secret_set]
=============================================================================
