--------------------------- MODULE LeaseRepository ---------------------------
(***************************************************************************)
(* The durable delivery ledger and the operations LeaseRepository           *)
(* (postgres/leasing.py) performs on it: claim, succeed, fail,              *)
(* reconcile_expired and replay, plus the insertion of original fan-out by  *)
(* RuntimeRepository.publish.                                               *)
(*                                                                          *)
(* A claim is several statements of one READ COMMITTED transaction and is   *)
(* split where another session can run: the statement snapshot              *)
(* (ClaimSelect), the row locks taken one row at a time with SKIP LOCKED    *)
(* (ClaimLockRow), the second clock sample (ClaimStamp) and the commit.     *)
(* Every other operation locks the rows it writes before it decides         *)
(* anything, so it is one step.                                             *)
(*                                                                          *)
(* Any holder of an issued token may try to finalize at any time: workers   *)
(* that are late, duplicated, partitioned or restarted need no state here.  *)
(* A finalization that raises LeaseLost changes nothing and is a stutter.   *)
(***************************************************************************)
EXTENDS RetryPolicy, FiniteSets

CONSTANTS
  Deliveries,      \* delivery ids (UUIDs)
  TenantOf,        \* the tenant that owns each id
  Policies,        \* retry policies a route snapshot may carry
  Sessions,        \* database sessions that run claim()
  BatchSize,       \* claim's batch_size
  PerTenant,       \* claim's per_tenant
  ReconcileBatch,  \* reconcile_expired's batch_size
  RetryAfters,     \* Retry-After hints; 0 stands for no hint
  None,            \* SQL NULL in replay_of
  Skew,            \* bound: how far an application clock is off the database's
  PublishHorizon,  \* bound: no delivery is created after this database time
  MaxTime,         \* bound: the database clock stops here
  MaxAttemptRows   \* bound: attempts kept per delivery

ASSUME PolicyAssumption == \A p \in Policies : ValidPolicy(p)
ASSUME NoneAssumption == None \notin Deliveries
ASSUME BoundAssumption ==
  /\ BatchSize \in Nat \ {0}
  /\ PerTenant \in Nat \ {0}
  /\ ReconcileBatch \in Nat \ {0}
  /\ RetryAfters \subseteq Nat
  /\ Skew \in Nat
  /\ PublishHorizon \in Nat
  /\ MaxTime \in Nat
  /\ MaxAttemptRows \in Nat
  /\ \A p \in Policies : p.max_attempts <= MaxAttemptRows
ASSUME SomePolicy == Policies # {}

VARIABLES
  now,       \* the database's clock_timestamp()
  delivery,  \* the deliveries table: one row per id, state "absent" if no row
  attempt,   \* the attempts table: rows of each delivery by attempt_number
  tx         \* each session's claim transaction

vars == <<now, delivery, attempt, tx>>

-----------------------------------------------------------------------------
(* Rows.  A lease token is a fresh UUID; since attempt numbers are never     *)
(* reused for a delivery, the number of the attempt stands for its token,    *)
(* and 0 for NULL.                                                           *)

Terminal == {"succeeded", "dead"}
Waiting == {"pending", "retry_wait"}
DeliveryState == {"absent", "leased"} \cup Waiting \cup Terminal
AttemptOutcome ==
  {"absent", "started", "succeeded", "retryable", "terminal", "abandoned"}
Token == 0 .. MaxAttemptRows
AttemptNumber == 1 .. MaxAttemptRows

DeliveryRow ==
  [state : DeliveryState, policy : Policies, attempts_started : Token,
   created_at : Nat, updated_at : Nat, next_attempt_at : Nat,
   lease_token : Token, lease_expires_at : Nat,
   replay_of : Deliveries \cup {None}]

AttemptRow ==
  [outcome : AttemptOutcome, started_at : Nat, finished_at : Nat]

ClaimTx ==
  [phase : {"idle", "locking", "claiming"}, selected : SUBSET Deliveries,
   rank : [Deliveries -> Nat], locked : SUBSET Deliveries, effective_now : Nat]

NoDelivery ==
  [state |-> "absent", policy |-> CHOOSE p \in Policies : TRUE,
   attempts_started |-> 0, created_at |-> 0, updated_at |-> 0,
   next_attempt_at |-> 0, lease_token |-> 0, lease_expires_at |-> 0,
   replay_of |-> None]
NoAttempt == [outcome |-> "absent", started_at |-> 0, finished_at |-> 0]
NoTx ==
  [phase |-> "idle", selected |-> {}, rank |-> [d \in Deliveries |-> 0],
   locked |-> {}, effective_now |-> 0]

\* A new pending row: original fan-out, or the replay of a terminal delivery.
PendingRow(p, at, origin) ==
  [state |-> "pending", policy |-> p, attempts_started |-> 0,
   created_at |-> at, updated_at |-> at, next_attempt_at |-> at,
   lease_token |-> 0, lease_expires_at |-> 0, replay_of |-> origin]

\* The delivery_lease_coherent CHECK constraint.
LeaseCoherent(row) == (row.state = "leased") <=> (row.lease_token # 0)

\* The record loads: __post_init__ of DeliveryRecord and of AttemptRecord raises
\* nothing.  What it asks of identities, keys and texts is left out.
DeliveryRecord(row) ==
  /\ (row.lease_token = 0) <=> (row.lease_expires_at = 0)
  /\ LeaseCoherent(row)
  /\ row.created_at <= row.updated_at
AttemptRecord(row) ==
  row.outcome # "started" => row.started_at <= row.finished_at

Deadline(row) == delivery_deadline(row.policy, row.created_at)
RowLocked(d) == \E s \in Sessions : d \in tx[s].locked

\* now() of an application process that emits or replays.
ApplicationClock == {t \in 0 .. now + Skew : now <= t + Skew}

Init ==
  /\ now = 0
  /\ delivery = [d \in Deliveries |-> NoDelivery]
  /\ attempt = [d \in Deliveries |-> [k \in AttemptNumber |-> NoAttempt]]
  /\ tx = [s \in Sessions |-> NoTx]

-----------------------------------------------------------------------------
(* publish: one committed unit of work inserts the fan-out of an event.      *)

Publish(ds, policyOf, at) ==
  /\ now <= PublishHorizon
  /\ ds # {}
  /\ \A d \in ds : delivery[d].state = "absent"
  /\ \A d, e \in ds : TenantOf[d] = TenantOf[e]
  /\ delivery' = [d \in Deliveries |->
                    IF d \in ds THEN PendingRow(policyOf[d], at, None)
                                ELSE delivery[d]]
  /\ UNCHANGED <<now, attempt, tx>>

-----------------------------------------------------------------------------
(* claim                                                                     *)

\* Mutants: not-yet-due work is taken; succeeded work is not excluded.
ClaimableEarly(d) == delivery[d].state \in Waiting
ClaimableByExclusion(d) ==
  /\ delivery[d].state \notin {"absent", "leased", "dead"}
  /\ delivery[d].next_attempt_at <= now

Claimable(d) ==
  /\ delivery[d].state \in Waiting
  /\ delivery[d].next_attempt_at <= now

\* ORDER BY next_attempt_at, created_at; rows that tie come in any order.
NotAfter(d, e) ==
  \/ delivery[d].next_attempt_at < delivery[e].next_attempt_at
  \/ /\ delivery[d].next_attempt_at = delivery[e].next_attempt_at
     /\ delivery[d].created_at <= delivery[e].created_at

\* The row_number() window: the first PerTenant claimable rows of each tenant.
RankedCandidates ==
  LET due == {d \in Deliveries : Claimable(d)}
      OfTenant(C, d) == {e \in C : TenantOf[e] = TenantOf[d]}
  IN  {C \in SUBSET due : \A d \in due :
         /\ Cardinality(OfTenant(C, d)) <= PerTenant
         /\ d \notin C =>
              /\ Cardinality(OfTenant(C, d)) = PerTenant
              /\ \A e \in OfTenant(C, d) : NotAfter(e, d)}

\* The statement starts: its snapshot fixes the candidates and their order.
\* An empty result changes nothing, so only a non-empty one is a step.
ClaimSelect(s) ==
  /\ tx[s].phase = "idle"
  /\ \E C \in RankedCandidates :
       /\ C # {}
       /\ tx' = [tx EXCEPT ![s] =
                   [phase |-> "locking", selected |-> C, locked |-> {},
                    rank |-> [d \in Deliveries |->
                                IF d \in C THEN delivery[d].next_attempt_at
                                           ELSE 0],
                    effective_now |-> 0]]
  /\ UNCHANGED <<now, delivery, attempt>>

\* The next candidate of the sorted result; created_at never changes.
NextCandidate(s, d) ==
  /\ d \in tx[s].selected
  /\ \A e \in tx[s].selected :
       \/ tx[s].rank[d] < tx[s].rank[e]
       \/ /\ tx[s].rank[d] = tx[s].rank[e]
          /\ delivery[d].created_at <= delivery[e].created_at

\* FOR UPDATE OF deliveries SKIP LOCKED on one candidate, below LIMIT.  A row
\* that a concurrent transaction changed since the snapshot is locked in its
\* new version: the re-check of the join compares only tenant_id and
\* delivery_id with the candidate, whose state predicate is in the CTE.  The
\* row is skipped when another claim holds it, and may be when it has left the
\* waiting states: a finalization, reconciliation or replay that
\* has not ended may hold it then.
ClaimLockRow(s, d, skipped) ==
  /\ tx[s].phase = "locking"
  /\ Cardinality(tx[s].locked) < BatchSize
  /\ NextCandidate(s, d)
  /\ RowLocked(d) => skipped
  /\ skipped => RowLocked(d) \/ delivery[d].state \notin Waiting
  /\ tx' = [tx EXCEPT ![s] =
              [phase |-> "locking", selected |-> tx[s].selected \ {d},
               locked |-> IF skipped THEN tx[s].locked
                                     ELSE tx[s].locked \cup {d},
               rank |-> tx[s].rank, effective_now |-> 0]]
  /\ UNCHANGED <<now, delivery, attempt>>

\* The result is complete; effective_now is sampled.
ClaimStamp(s) ==
  /\ tx[s].phase = "locking"
  /\ tx[s].selected = {} \/ Cardinality(tx[s].locked) = BatchSize
  /\ tx' = [tx EXCEPT ![s] =
              [phase |-> "claiming", selected |-> {}, locked |-> tx[s].locked,
               rank |-> [d \in Deliveries |-> 0], effective_now |-> now]]
  /\ UNCHANGED <<now, delivery, attempt>>

\* The loop body: a row past its deadline dies, any other row is leased under
\* a fresh token and gets an attempt row.
Expired(row, at) == at >= Deadline(row)

ClaimedRow(row, at) ==
  IF Expired(row, at)
    THEN [row EXCEPT !.state = "dead",
                     !.next_attempt_at = at,
                     !.updated_at = at]
    ELSE [row EXCEPT !.state = "leased",
                     !.attempts_started = row.attempts_started + 1,
                     !.lease_token = row.attempts_started + 1,
                     !.lease_expires_at = at + row.policy.lease_duration,
                     !.updated_at = at]

ClaimedAttempts(row, attempts, at) ==
  IF Expired(row, at)
    THEN attempts
    ELSE [attempts EXCEPT ![row.attempts_started + 1] =
            [outcome |-> "started", started_at |-> at, finished_at |-> 0]]

ClaimCommit(s) ==
  LET at == tx[s].effective_now
      L  == tx[s].locked
  IN  /\ tx[s].phase = "claiming"
      /\ \A d \in L : /\ delivery[d].attempts_started < MaxAttemptRows
                      /\ LeaseCoherent(ClaimedRow(delivery[d], at))
      /\ delivery' = [d \in Deliveries |->
                        IF d \in L THEN ClaimedRow(delivery[d], at)
                                   ELSE delivery[d]]
      /\ attempt' = [d \in Deliveries |->
                       IF d \in L
                         THEN ClaimedAttempts(delivery[d], attempt[d], at)
                         ELSE attempt[d]]
      /\ tx' = [tx EXCEPT ![s] = NoTx]
      /\ UNCHANGED now

\* Process crash, control-plane timeout, cancellation or connection loss.
ClaimAbort(s) ==
  /\ tx[s].phase # "idle"
  /\ tx' = [tx EXCEPT ![s] = NoTx]
  /\ UNCHANGED <<now, delivery, attempt>>

\* The database rejects the batch: a row that another session leased between
\* the snapshot and the lock is marked dead without clearing its lease.  To the
\* ledger this is an abort like any other; the relay tells it apart.
ClaimRejected(s) ==
  /\ tx[s].phase = "claiming"
  /\ \E d \in tx[s].locked : 
       ~LeaseCoherent(ClaimedRow(delivery[d], tx[s].effective_now))
  /\ ClaimAbort(s)

-----------------------------------------------------------------------------
(* Finalization by the holder of token k.                                    *)

\* Mutant: the lease is not fenced by its token.
ActiveLeaseUnfenced(d, k) ==
  /\ ~RowLocked(d)
  /\ delivery[d].state = "leased"
  /\ delivery[d].lease_expires_at > now

\* _locked_active_rows returns rather than raising LeaseLost.
ActiveLease(d, k) ==
  /\ ~RowLocked(d)
  /\ delivery[d].state = "leased"
  /\ delivery[d].lease_token = k
  /\ attempt[d][k].outcome = "started"
  /\ delivery[d].lease_expires_at > now

\* A state change followed by _clear_lease.
Released(row, state, next_attempt_at, at) ==
  [row EXCEPT !.state = state,
              !.next_attempt_at = next_attempt_at,
              !.lease_token = 0,
              !.lease_expires_at = 0,
              !.updated_at = at]

\* Attempt k of a delivery is closed.
Closed(attempts, k, outcome, at) ==
  [attempts EXCEPT ![k] = [outcome |-> outcome,
                           started_at |-> attempts[k].started_at,
                           finished_at |-> at]]

\* Mutant: only the lease bounds a success.
AttemptDeadlineLeaseOnly(row, attempts, k) == row.lease_expires_at

\* succeed_in_transaction accepts a success strictly before this time.
AttemptDeadline(row, attempts, k) ==
  attempt_deadline(row.policy, row.created_at,
                   attempts[k].started_at, row.lease_expires_at)

Succeed(d, k) ==
  /\ ActiveLease(d, k)
  /\ now < AttemptDeadline(delivery[d], attempt[d], k)
  /\ delivery' = [delivery EXCEPT ![d] =
       Released(delivery[d], "succeeded", delivery[d].next_attempt_at, now)]
  /\ attempt' = [attempt EXCEPT ![d] = Closed(attempt[d], k, "succeeded", now)]
  /\ UNCHANGED <<now, tx>>

\* fail_in_transaction: a retry inside the budget and before the deadline
\* waits, a retry that would start too late dies now, everything else dies.
FailedRow(row, k, retryable, delay, at) ==
  IF retryable /\ permits_retry(row.policy, k, row.created_at, at)
    THEN IF at + delay < Deadline(row)
           THEN Released(row, "retry_wait", at + delay, at)
           ELSE Released(row, "dead", at, at)
    ELSE Released(row, "dead", row.next_attempt_at, at)

Fail(d, k, retryable, retry_after) ==
  /\ ActiveLease(d, k)
  /\ \E delay \in ScheduledDelays(delivery[d].policy, k, retry_after) :
       delivery' = [delivery EXCEPT ![d] =
                      FailedRow(delivery[d], k, retryable, delay, now)]
  /\ attempt' = [attempt EXCEPT ![d] =
       Closed(attempt[d], k, IF retryable THEN "retryable" ELSE "terminal", now)]
  /\ UNCHANGED <<now, tx>>

-----------------------------------------------------------------------------
(* reconcile_expired: the predicate is on the locked table itself, so a row   *)
(* changed since the snapshot is re-checked before it is returned.           *)

\* Mutants: a live lease is reclaimed; a lease that outlived the delivery
\* deadline is left alone.
LeaseExpiredEarly(d) == delivery[d].state = "leased"
LeaseExpiredBeforeDeadline(d) ==
  /\ delivery[d].state = "leased"
  /\ delivery[d].lease_expires_at <= now
  /\ ~Expired(delivery[d], now)

LeaseExpired(d) ==
  /\ delivery[d].state = "leased"
  /\ delivery[d].lease_expires_at <= now

\* The rows one call may take, at most a batch.  They come oldest expiry first,
\* but SKIP LOCKED passes over a row that an unfinished finalization holds, so
\* any expired row may be left for a later call.
ReconcileRows ==
  {R \in SUBSET {d \in Deliveries : LeaseExpired(d) /\ ~RowLocked(d)} :
     R # {} /\ Cardinality(R) <= ReconcileBatch}

ReconciledRow(row, at) ==
  Released(row,
           IF row.attempts_started < row.policy.max_attempts /\ ~Expired(row, at)
             THEN "retry_wait" ELSE "dead",
           at, at)

\* Mutant: the attempt stays open.
ReconciledAttemptsOpen(row, attempts, at) == attempts

\* The open attempt that carries the expired lease's token, if there is one,
\* is abandoned.
ReconciledAttempts(row, attempts, at) ==
  IF attempts[row.lease_token].outcome = "started"
    THEN Closed(attempts, row.lease_token, "abandoned", at)
    ELSE attempts

ReconcileExpired ==
  /\ \E R \in ReconcileRows :
       /\ delivery' = [d \in Deliveries |->
                         IF d \in R THEN ReconciledRow(delivery[d], now)
                                    ELSE delivery[d]]
       /\ attempt' = [d \in Deliveries |->
                        IF d \in R
                          THEN ReconciledAttempts(delivery[d], attempt[d], now)
                          ELSE attempt[d]]
  /\ UNCHANGED <<now, tx>>

-----------------------------------------------------------------------------
(* replay: new pending work linked to a terminal delivery of the tenant.     *)

Replay(source, d, at) ==
  /\ now <= PublishHorizon
  /\ delivery[source].state \in Terminal
  /\ delivery[d].state = "absent"
  /\ TenantOf[d] = TenantOf[source]
  /\ delivery' = [delivery EXCEPT ![d] =
                    PendingRow(delivery[source].policy, at, source)]
  /\ UNCHANGED <<now, attempt, tx>>

Tick ==
  /\ now < MaxTime
  /\ now' = now + 1
  /\ UNCHANGED <<delivery, attempt, tx>>

ClaimStep(s) ==
  \/ ClaimSelect(s)
  \/ \E d \in Deliveries, skipped \in BOOLEAN : ClaimLockRow(s, d, skipped)
  \/ ClaimStamp(s)
  \/ ClaimCommit(s)
  \/ ClaimAbort(s)

Next ==
  \/ \E ds \in SUBSET Deliveries, at \in ApplicationClock :
       \E policyOf \in [ds -> Policies] : Publish(ds, policyOf, at)
  \/ \E s \in Sessions : ClaimStep(s)
  \/ \E d \in Deliveries, k \in AttemptNumber : Succeed(d, k)
  \/ \E d \in Deliveries, k \in AttemptNumber, retryable \in BOOLEAN,
        retry_after \in RetryAfters : Fail(d, k, retryable, retry_after)
  \/ ReconcileExpired
  \/ \E source, d \in Deliveries, at \in ApplicationClock : Replay(source, d, at)
  \/ Tick

Spec == Init /\ [][Next]_vars

-----------------------------------------------------------------------------
(* Properties that hold for any number of concurrent claim sessions.         *)

Present(d) == delivery[d].state # "absent"

\* Every variable has its type.
TypeOK ==
  /\ now \in Nat
  /\ delivery \in [Deliveries -> DeliveryRow]
  /\ attempt \in [Deliveries -> [AttemptNumber -> AttemptRow]]
  /\ tx \in [Sessions -> ClaimTx]

\* A leased row always carries the token of the newest attempt, that attempt
\* is still open, and the lease runs lease_duration from its start: claim
\* writes both rows in one transaction and succeed, fail and reconcile_expired
\* close both together (leasing.py 139-158, 241-244, 334, 379-399).
CurrentLeaseIsOpen ==
  \A d \in Deliveries :
    delivery[d].state = "leased" =>
      LET k == delivery[d].attempts_started
      IN  /\ k \in AttemptNumber
          /\ delivery[d].lease_token = k
          /\ attempt[d][k].outcome = "started"
          /\ delivery[d].lease_expires_at =
               attempt[d][k].started_at + delivery[d].policy.lease_duration

\* The attempts of a delivery are numbered without gaps up to
\* attempts_started, whatever mixture of claims, crashes and reconciliation
\* produced them (leasing.py 141-158; the unique key on attempt_number).
AttemptsContiguous ==
  \A d \in Deliveries, k \in AttemptNumber :
    attempt[d][k].outcome # "absent" <=> k <= delivery[d].attempts_started

\* A success is recorded only strictly before the delivery deadline, the
\* handler timeout and the lease expiry of its attempt, although the worker
\* learns the time only after waiting for the row lock (leasing.py 226-245).
SuccessWithinDeadlines ==
  \A d \in Deliveries, k \in AttemptNumber :
    attempt[d][k].outcome = "succeeded" =>
      /\ attempt[d][k].finished_at < Deadline(delivery[d])
      /\ attempt[d][k].finished_at <
           attempt[d][k].started_at + delivery[d].policy.handler_timeout

\* No attempt starts at or after the delivery deadline and no retry is
\* scheduled there, even though an application clock stamped created_at
\* (leasing.py 128-138, 316-327, 375-398).
NoWorkPastDeadline ==
  \A d \in Deliveries :
    /\ \A k \in AttemptNumber :
         attempt[d][k].outcome # "absent" => attempt[d][k].started_at < Deadline(delivery[d])
    /\ delivery[d].state = "retry_wait" =>
         delivery[d].next_attempt_at < Deadline(delivery[d])

\* No stored row is one that DeliveryRecord or AttemptRecord refuses to load: a
\* row updated before it was created would make every later claim of its tenant
\* raise.  created_at comes from an application clock, updated_at from the
\* database's.
RecordsLoadable ==
  \A d \in Deliveries :
    Present(d) =>
      /\ DeliveryRecord(delivery[d])
      /\ \A k \in AttemptNumber :
           attempt[d][k].outcome # "absent" =>
             /\ AttemptRecord(attempt[d][k])
             /\ delivery[d].created_at <= attempt[d][k].started_at

\* Every stored row can be loaded again, and a lease belongs to the newest
\* attempt, which is open: whatever claims, crashes and reconciliations did,
\* the next worker finds rows it can go on from.
StoredRowsSound == CurrentLeaseIsOpen /\ RecordsLoadable

\* No deadline is overrun: neither by a recorded success, nor by the start of
\* an attempt, nor by the schedule of a retry.
WithinDeadlines == SuccessWithinDeadlines /\ NoWorkPastDeadline

\* The attempt history is append-only: a finished attempt never changes again,
\* an open one keeps its start, and a row never disappears (leasing.py 599-610
\* filters on outcome = 'started' before any write).
AttemptsAppendOnly ==
  [][\A d \in Deliveries, k \in AttemptNumber :
       /\ attempt[d][k].outcome \notin {"absent", "started"} =>
            attempt'[d][k] = attempt[d][k]
       /\ attempt[d][k].outcome = "started" =>
            /\ attempt'[d][k].outcome # "absent"
            /\ attempt'[d][k].started_at = attempt[d][k].started_at]_vars

-----------------------------------------------------------------------------
(* Properties that need claims to be serialized: with one claim session they *)
(* hold; with two the stale snapshot of ClaimLockRow breaks them.            *)

\* At most one attempt of a delivery is open, and it is the one that holds the
\* lease: two claimers never hold the same delivery (leasing.py 101-118).
SingleOpenAttempt ==
  \A d \in Deliveries, k \in AttemptNumber :
    attempt[d][k].outcome = "started" =>
      delivery[d].state = "leased" /\ delivery[d].lease_token = k

\* max_attempts is a hard bound, and a delivery that waits for a retry still
\* has an attempt left (leasing.py 303, 394; core/retry.py 95).
AttemptBudget ==
  \A d \in Deliveries :
    /\ delivery[d].attempts_started <= delivery[d].policy.max_attempts
    /\ delivery[d].state = "retry_wait" =>
         delivery[d].attempts_started < delivery[d].policy.max_attempts
    /\ delivery[d].state = "pending" => delivery[d].attempts_started = 0

\* A delivery is succeeded exactly when its newest attempt is, and no other
\* attempt of it succeeded: the destination was never acknowledged twice and
\* no success is lost to a later claim or reconciliation (leasing.py 241-244).
SuccessIsUnique ==
  \A d \in Deliveries, k \in AttemptNumber :
    attempt[d][k].outcome = "succeeded" <=>
      delivery[d].state = "succeeded" /\ k = delivery[d].attempts_started

\* A replay points at a terminal delivery of its own tenant and carries that
\* delivery's policy snapshot (leasing.py 485-507).
ReplayLineage ==
  \A d \in Deliveries :
    delivery[d].replay_of # None =>
      LET source == delivery[d].replay_of
      IN  /\ source # d
          /\ delivery[source].state \in Terminal
          /\ TenantOf[source] = TenantOf[d]
          /\ delivery[source].policy = delivery[d].policy

\* Serialized claims: one open attempt, within the attempt budget, and replays
\* only of work that ended.
SerialClaims == SingleOpenAttempt /\ AttemptBudget /\ ReplayLineage

\* A succeeded or dead row and its attempts never change again.
TerminalImmutable ==
  [][\A d \in Deliveries :
       delivery[d].state \in Terminal =>
         delivery'[d] = delivery[d] /\ attempt'[d] = attempt[d]]_vars

\* Until it expires a lease ends only by its own holder's verdict: no claim
\* and no reconciliation takes a delivery from a live worker.
LiveLeaseExclusive ==
  [][\A d \in Deliveries :
       LET k == delivery[d].lease_token
       IN  /\ delivery[d].state = "leased"
           /\ delivery[d].lease_expires_at > now
           /\ delivery'[d].lease_token # k
           => attempt'[d][k].outcome \in {"succeeded", "retryable", "terminal"}]_vars

\* Every committed delivery is eventually succeeded or dead, whatever the
\* workers do: reconciliation and the deadline check in claim suffice
\* (docs/concepts/boundary-contract.md, eventual terminal outcome).
EventuallyTerminal ==
  \A d \in Deliveries : Present(d) ~> delivery[d].state \in Terminal
=============================================================================
