------------------------ MODULE WebhookSubscriptions ------------------------
(***************************************************************************)
(* Webhook subscriptions (webhooks/subscriptions.py), the management API   *)
(* over them (webhooks/api.py, operations.py) and the health accounting    *)
(* that relays do on the same rows (WebhookHealthRepository).              *)
(*                                                                         *)
(* A subscription is a mutable head row and immutable version rows.  Every *)
(* writer locks the head; managers also name the revision they expect,     *)
(* which is the one they were last shown.  A manager without the scope, a  *)
(* wrong revision (OptimisticConflict) and invalid settings change nothing.*)
(***************************************************************************)
EXTENDS WebhookSecrets, Sequences

CONSTANTS
  Subscriptions,  \* subscription identifiers
  Managers,       \* principals that may manage webhooks
  EventTypes,     \* the types that events may have
  Thresholds,     \* auto-pause thresholds
  MaxChanges      \* bound of the revisions of heads and sets together

ASSUME SubscriptionAssumption ==
  /\ Thresholds \subseteq Nat \ {0}
  /\ MaxChanges \in Nat

VARIABLES
  head,           \* the webhook_subscriptions row, or None
  version,        \* its webhook_subscription_versions rows, in order
  seen,           \* the subscription a manager was last shown, per subscription
  auto_paused,    \* the subscription.auto_paused audit rows, counted
  activated       \* history: how often a subscription became active

subscriptionVars == <<head, version, seen, auto_paused, activated>>

SubscriptionState == {"active", "paused", "disabled"}

HeadRow ==
  [current_version : Nat \ {0}, revision : Nat \ {0}, state : SubscriptionState,
   failure_streak : Nat, auto_pause_threshold : Nat \ {0}]

ASSUME NoneAssumption == None \notin HeadRow

\* What a delivery snapshot takes from a version row.
Version == [event_types : SUBSET EventTypes, secret_set : SecretSets]

SubscriptionInit ==
  /\ SecretInit
  /\ head = [s \in Subscriptions |-> None]
  /\ version = [s \in Subscriptions |-> <<>>]
  /\ seen = [m \in Managers |-> [s \in Subscriptions |-> None]]
  /\ auto_paused = [s \in Subscriptions |-> 0]
  /\ activated = [s \in Subscriptions |-> 0]

normalize_event_types == (SUBSET EventTypes) \ {{}}

\* The row that the response of an operation was built from.
Shown(m, s) == seen' = [seen EXCEPT ![m][s] = head'[s]]

\* The API creates the secret set in the same transaction; the repository also
\* takes an existing one.
CreateSubscription(m, s, k, types, threshold) ==
  /\ head[s] = None
  /\ types \in normalize_event_types
  /\ \/ CreateSecret(k)
     \/ Exists(k) /\ UNCHANGED secretVars
  /\ head' = [head EXCEPT ![s] =
       [current_version |-> 1, revision |-> 1, state |-> "active",
        failure_streak |-> 0, auto_pause_threshold |-> threshold]]
  /\ version' = [version EXCEPT ![s] = <<[event_types |-> types, secret_set |-> k]>>]
  /\ activated' = [activated EXCEPT ![s] = 1]
  /\ Shown(m, s)
  /\ UNCHANGED auto_paused

\* _locked_head and the check of expected_revision.
Expected(m, s) ==
  /\ head[s] # None
  /\ seen[m][s] # None
  /\ head[s].revision = seen[m][s].revision

\* Mutant of UpdateSubscription: the current version row is changed in place.
UpdateInPlace(m, s, k, types) ==
  /\ Expected(m, s)
  /\ types \in normalize_event_types
  /\ Exists(k)
  /\ head' = [head EXCEPT ![s].revision = @ + 1]
  /\ version' = [version EXCEPT ![s][head[s].current_version] =
       [event_types |-> types, secret_set |-> k]]
  /\ Shown(m, s)
  /\ UNCHANGED <<auto_paused, activated, secretVars>>

\* What update, pause, reactivate and disable, and a recorded success write.
NextVersion(row) == [row EXCEPT !.current_version = @ + 1, !.revision = @ + 1]

Moved(row, state) == [row EXCEPT !.state = state, !.revision = @ + 1]

Recovered(row) == [row EXCEPT !.failure_streak = 0, !.revision = @ + 1]

UpdateSubscription(m, s, k, types) ==
  /\ Expected(m, s)
  /\ types \in normalize_event_types
  /\ Exists(k)
  /\ head' = [head EXCEPT ![s] = NextVersion(@)]
  /\ version' = [version EXCEPT ![s] = Append(@, [event_types |-> types, secret_set |-> k])]
  /\ Shown(m, s)
  /\ UNCHANGED <<auto_paused, activated, secretVars>>

\* pause, reactivate and disable.  The failure streak stays as it is.
SetState(m, s, state) ==
  /\ Expected(m, s)
  /\ head' = [head EXCEPT ![s] = Moved(@, state)]
  /\ activated' = [activated EXCEPT ![s] =
       @ + (IF state = "active" /\ head[s].state # "active" THEN 1 ELSE 0)]
  /\ Shown(m, s)
  /\ UNCHANGED <<version, auto_paused, secretVars>>

GetSubscription(m, s) ==
  /\ head[s] # None
  /\ seen' = [seen EXCEPT ![m][s] = head[s]]
  /\ UNCHANGED <<head, version, auto_paused, activated, secretVars>>

\* A success ends a streak; without one the row is left alone.
RecordSuccess(s) ==
  /\ head[s] # None
  /\ head' = [head EXCEPT ![s] =
       IF @.failure_streak = 0 THEN @ ELSE Recovered(@)]
  /\ UNCHANGED <<version, seen, auto_paused, activated, secretVars>>

\* Mutant of Failed: health accounting leaves the revision to managers.
FailedQuietly(row) ==
  [row EXCEPT !.failure_streak = @ + 1,
              !.state = IF row.state = "active"
                             /\ row.failure_streak + 1 >= row.auto_pause_threshold
                          THEN "paused" ELSE @]

Failed(row) ==
  [row EXCEPT !.failure_streak = @ + 1, !.revision = @ + 1,
              !.state = IF row.state = "active"
                             /\ row.failure_streak + 1 >= row.auto_pause_threshold
                          THEN "paused" ELSE @]

\* Mutant of RecordFailure: the audit row is written whenever the streak is over
\* the threshold.
RecordFailureAuditsAgain(s) ==
  /\ head[s] # None
  /\ head' = [head EXCEPT ![s] = Failed(@)]
  /\ auto_paused' = [auto_paused EXCEPT ![s] =
       @ + (IF head[s].failure_streak + 1 >= head[s].auto_pause_threshold THEN 1 ELSE 0)]
  /\ UNCHANGED <<version, seen, activated, secretVars>>

RecordFailure(s) ==
  /\ head[s] # None
  /\ head' = [head EXCEPT ![s] = Failed(@)]
  /\ auto_paused' = [auto_paused EXCEPT ![s] =
       @ + (IF Failed(head[s]).state # head[s].state THEN 1 ELSE 0)]
  /\ UNCHANGED <<version, seen, activated, secretVars>>

\* WebhookRouteProvider.routes_for: the current version of every active
\* subscription to the type, as routes of the publishing transaction.
route_of(s, event_type) ==
  [event_type |-> event_type, route_key |-> s, version |-> head[s].current_version,
   destination_kind |-> "webhook", destination_key |-> s,
   secret_set |-> version[s][head[s].current_version].secret_set]

Subscribed(event_type) ==
  {s \in Subscriptions :
     /\ head[s] # None
     /\ head[s].state = "active"
     /\ event_type \in version[s][head[s].current_version].event_types}

-----------------------------------------------------------------------------
SubscriptionTypeOK ==
  /\ SecretTypeOK
  /\ head \in [Subscriptions -> HeadRow \cup {None}]
  /\ version \in [Subscriptions -> Seq(Version)]
  /\ seen \in [Managers -> [Subscriptions -> HeadRow \cup {None}]]
  /\ auto_paused \in [Subscriptions -> Nat]
  /\ activated \in [Subscriptions -> Nat]

\* A revision names one content of the head: a manager whose expected_revision is
\* accepted changes the row it was shown, although relays account health on the
\* same row in between (subscriptions.py:138, operations.py:79-88).
RevisionNamesHead ==
  \A m \in Managers, s \in Subscriptions :
    Expected(m, s) => seen[m][s] = head[s]

\* "Threshold crossing auto-pauses future snapshotting and emits one audit
\* record" (docs/operations/webhooks.md:47): a subscription is paused by relays, and
\* the pause audited, at most once for each time it was made active, however many
\* relays report failures and however far the streak is over the threshold
\* (operations.py:83-100).
AuditedOncePerActivation ==
  \A s \in Subscriptions :
    /\ auto_paused[s] <= activated[s]
    /\ head[s] # None /\ head[s].state = "active" => auto_paused[s] < activated[s]
=============================================================================
