------------------------ MODULE LeaseRepositoryProofs ------------------------
(***************************************************************************)
(* Theorems about LeaseRepository for every set of deliveries, policies and *)
(* sessions and every bound.                                                *)
(*                                                                          *)
(* The invariant is a statement about one row, its attempts and the clock   *)
(* (RowOK), so what each operation does is a lemma about one row; the       *)
(* induction over steps only has to say which rows a step rewrites.         *)
(***************************************************************************)
EXTENDS LeaseRepository, TLAPS

Attempts == [AttemptNumber -> AttemptRow]

\* What any number of concurrent sessions preserve about one delivery.
RowOK(row, attempts, at) ==
  /\ LeaseCoherent(row)
  /\ row.state # "leased" => row.lease_expires_at = 0
  /\ row.state = "absent" => row.attempts_started = 0
  /\ row.state = "leased" =>
       /\ row.attempts_started \in AttemptNumber
       /\ row.lease_token = row.attempts_started
       /\ attempts[row.attempts_started].outcome = "started"
       /\ row.lease_expires_at =
            attempts[row.attempts_started].started_at + row.policy.lease_duration
  /\ row.state = "retry_wait" => row.next_attempt_at < Deadline(row)
  /\ row.state # "absent" =>
       /\ row.created_at <= row.updated_at
       /\ row.created_at <= row.next_attempt_at
  /\ \A k \in AttemptNumber :
       /\ attempts[k].outcome # "absent" <=> k <= row.attempts_started
       /\ attempts[k].outcome # "absent" =>
            /\ row.created_at <= attempts[k].started_at
            /\ attempts[k].started_at <= at
            /\ attempts[k].started_at < Deadline(row)
            /\ attempts[k].outcome # "started" =>
                 attempts[k].started_at <= attempts[k].finished_at
       /\ attempts[k].outcome = "succeeded" =>
            /\ attempts[k].finished_at < Deadline(row)
            /\ attempts[k].finished_at <
                 attempts[k].started_at + row.policy.handler_timeout

\* What no operation does to a row: remove it or rewrite its snapshot.
RowKept(row, new) ==
  /\ new.state # "absent"
  /\ new.created_at = row.created_at
  /\ new.policy = row.policy
  /\ new.replay_of = row.replay_of

\* A claim transaction only holds rows that exist, were created no later than
\* the clock reading it will write, and its reading is not from the future.
TxOK(s) ==
  /\ tx[s].effective_now <= now
  /\ \A d \in tx[s].selected \cup tx[s].locked :
       /\ delivery[d].state # "absent"
       /\ delivery[d].created_at <= now
       /\ tx[s].phase = "claiming" =>
            delivery[d].created_at <= tx[s].effective_now

CoreInv ==
  /\ TypeOK
  /\ \A d \in Deliveries : RowOK(delivery[d], attempt[d], now)
  /\ \A s \in Sessions : TxOK(s)

-----------------------------------------------------------------------------
(* The deadline arithmetic.                                                  *)

\* A valid policy has natural durations, and its deadline is a natural number
\* after creation.
LEMMA PolicyFacts ==
  ASSUME NEW p \in Policies
  PROVE  /\ p.max_attempts \in Nat /\ p.maximum_elapsed \in Nat
         /\ p.base_delay \in Nat /\ p.maximum_delay \in Nat
         /\ p.handler_timeout \in Nat /\ p.lease_duration \in Nat
         /\ p.max_attempts > 0
         /\ p.maximum_elapsed > 0
         /\ p.handler_timeout < p.lease_duration
         /\ p.max_attempts <= MaxAttemptRows
  BY PolicyAssumption, BoundAssumption DEF ValidPolicy, RetrySettings

\* Every delay fail_in_transaction may schedule is a natural number.
LEMMA DelayFacts ==
  ASSUME NEW p \in Policies, NEW k \in Nat, NEW h \in Nat,
         NEW x \in ScheduledDelays(p, k, h)
  PROVE  x \in Nat /\ x <= p.maximum_delay
  <1>1. PICK y \in retry_delay(p, k) : x = Least(Greatest(y, h), p.maximum_delay)
    BY DEF ScheduledDelays
  <1>2. y \in Nat
    BY PolicyFacts DEF retry_delay
  <1>3. QED
    BY <1>1, <1>2, PolicyFacts DEF Least, Greatest

\* The columns of a typed row, and its deadline.
LEMMA RowTypes ==
  ASSUME NEW r \in DeliveryRow
  PROVE  /\ r.state \in DeliveryState /\ r.policy \in Policies
         /\ r.attempts_started \in 0 .. MaxAttemptRows
         /\ r.lease_token \in 0 .. MaxAttemptRows
         /\ r.created_at \in Nat /\ r.updated_at \in Nat
         /\ r.next_attempt_at \in Nat /\ r.lease_expires_at \in Nat
         /\ r.replay_of \in Deliveries \cup {None}
         /\ Deadline(r) \in Nat
         /\ Deadline(r) = r.created_at + r.policy.maximum_elapsed
  BY PolicyFacts DEF DeliveryRow, Deadline, delivery_deadline, Token

\* Overwriting one column of a row keeps the row's type.
LEMMA RowUpdates ==
  ASSUME NEW r \in DeliveryRow
  PROVE  /\ \A x \in DeliveryState : [r EXCEPT !.state = x] \in DeliveryRow
         /\ \A x \in Token : [r EXCEPT !.attempts_started = x] \in DeliveryRow
         /\ \A x \in Token : [r EXCEPT !.lease_token = x] \in DeliveryRow
         /\ \A x \in Nat : [r EXCEPT !.updated_at = x] \in DeliveryRow
         /\ \A x \in Nat : [r EXCEPT !.next_attempt_at = x] \in DeliveryRow
         /\ \A x \in Nat : [r EXCEPT !.lease_expires_at = x] \in DeliveryRow
  BY DEF DeliveryRow

\* Time passing keeps a row's invariant.
LEMMA RowAges ==
  ASSUME NEW r \in DeliveryRow, NEW a \in Attempts, NEW t \in Nat, NEW u \in Nat,
         t <= u, RowOK(r, a, t)
  PROVE  RowOK(r, a, u)
  BY DEF RowOK, Attempts, AttemptRow

\* A fresh pending row without attempts.
LEMMA RowPending ==
  ASSUME NEW r \in DeliveryRow, NEW a \in Attempts, NEW t \in Nat,
         RowOK(r, a, t), r.state = "absent",
         NEW p \in Policies, NEW c \in Nat, NEW o \in Deliveries \cup {None}
  PROVE  /\ PendingRow(p, c, o) \in DeliveryRow
         /\ RowOK(PendingRow(p, c, o), a, t)
  <1> DEFINE q == PendingRow(p, c, o)
  <1>1. q \in DeliveryRow
    BY BoundAssumption DEF PendingRow, DeliveryRow, DeliveryState, Waiting, Token
  <1>2. \A k \in AttemptNumber : a[k].outcome = "absent"
    BY DEF RowOK, AttemptNumber
  <1>3. RowOK(q, a, t)
    BY <1>1, <1>2 DEF RowOK, PendingRow, LeaseCoherent, AttemptNumber
  <1>4. QED
    BY <1>1, <1>3

\* claim leases a row, or kills it past its deadline, and stays coherent even
\* when the row it locked was leased or terminal already.
LEMMA RowClaimed ==
  ASSUME NEW r \in DeliveryRow, NEW a \in Attempts, NEW t \in Nat, NEW c \in Nat,
         RowOK(r, a, t), r.state # "absent", r.created_at <= c, c <= t,
         r.attempts_started < MaxAttemptRows,
         LeaseCoherent(ClaimedRow(r, c))
  PROVE  /\ ClaimedRow(r, c) \in DeliveryRow
         /\ ClaimedAttempts(r, a, c) \in Attempts
         /\ RowOK(ClaimedRow(r, c), ClaimedAttempts(r, a, c), t)
         /\ RowKept(r, ClaimedRow(r, c))
  <1> DEFINE q == ClaimedRow(r, c)
             b == ClaimedAttempts(r, a, c)
             n == r.attempts_started + 1
  <1> USE BoundAssumption
  <1>0. n \in AttemptNumber
    BY RowTypes DEF AttemptNumber
  <1>1. CASE Expired(r, c)
    <2>1. q = [r EXCEPT !.state = "dead", !.next_attempt_at = c, !.updated_at = c]
      BY <1>1 DEF ClaimedRow
    <2>2. q \in DeliveryRow
      BY <2>1 DEF DeliveryRow, DeliveryState, Terminal
    <2>3. b = a
      BY <1>1 DEF ClaimedAttempts
    <2>4. Deadline(q) = Deadline(r)
      BY <2>1 DEF Deadline, DeliveryRow
    <2>5. RowOK(q, a, t)
      <3>1. r.state # "leased"
        BY <2>1 DEF RowOK, LeaseCoherent, DeliveryRow
      <3>2. QED
        BY <2>1, <2>4, <3>1 DEF RowOK, DeliveryRow
    <2>6. RowKept(r, q)
      BY <2>1 DEF RowKept, DeliveryRow
    <2>7. QED
      BY <2>2, <2>3, <2>5, <2>6
  <1>2. CASE ~Expired(r, c)
    <2>1. q = [r EXCEPT !.state = "leased", !.attempts_started = n,
                        !.lease_token = n,
                        !.lease_expires_at = c + r.policy.lease_duration,
                        !.updated_at = c]
      BY <1>2 DEF ClaimedRow
    <2>2. q \in DeliveryRow
      <3> DEFINE q1 == [r EXCEPT !.state = "leased"]
                 q2 == [q1 EXCEPT !.attempts_started = n]
                 q3 == [q2 EXCEPT !.lease_token = n]
                 q4 == [q3 EXCEPT !.lease_expires_at = c + r.policy.lease_duration]
                 q5 == [q4 EXCEPT !.updated_at = c]
      <3>1. q1 \in DeliveryRow
        BY RowUpdates DEF DeliveryState
      <3> HIDE DEF q1
      <3>2. n \in Token
        BY <1>0 DEF AttemptNumber, Token
      <3> HIDE DEF n
      <3>3. q2 \in DeliveryRow
        BY <3>1, <3>2, RowUpdates
      <3> HIDE DEF q2
      <3>4. q3 \in DeliveryRow
        BY <3>2, <3>3, RowUpdates
      <3> HIDE DEF q3
      <3>5. q4 \in DeliveryRow
        BY <3>4, RowUpdates, RowTypes, PolicyFacts
      <3> HIDE DEF q4
      <3>6. q5 \in DeliveryRow
        BY <3>5, RowUpdates
      <3>7. QED
        BY <2>1, <3>6 DEF q1, q2, q3, q4, n
    <2>3. b = [a EXCEPT ![n] = [outcome |-> "started", started_at |-> c,
                                finished_at |-> 0]]
      BY <1>2 DEF ClaimedAttempts
    <2>4. b \in Attempts
      BY <1>0, <2>3 DEF Attempts, AttemptRow, AttemptOutcome
    <2>5. Deadline(q) = Deadline(r) /\ c < Deadline(r)
      BY <1>2, <2>1, RowTypes DEF Deadline, DeliveryRow, Expired
    <2>6. /\ q.state = "leased" /\ q.attempts_started = n /\ q.lease_token = n
          /\ q.lease_expires_at = c + r.policy.lease_duration
          /\ q.updated_at = c /\ q.policy = r.policy
          /\ q.created_at = r.created_at
          /\ q.next_attempt_at = r.next_attempt_at
      BY <2>1 DEF DeliveryRow
    <2>7. /\ b[n].outcome = "started" /\ b[n].started_at = c
          /\ \A k \in AttemptNumber : k # n => b[k] = a[k]
      BY <1>0, <2>3 DEF Attempts
    <2>8. \A k \in AttemptNumber :
            b[k].outcome # "absent" <=> k <= q.attempts_started
      BY <2>6, <2>7, RowTypes DEF RowOK, AttemptNumber
    <2>9. RowOK(q, b, t)
      BY <1>0, <2>5, <2>6, <2>7, <2>8, RowTypes DEF RowOK, LeaseCoherent, AttemptNumber
    <2>10. RowKept(r, q)
      BY <2>1 DEF RowKept, DeliveryRow
    <2>11. QED
      BY <2>2, <2>4, <2>9, <2>10
  <1>3. QED
    BY <1>1, <1>2

\* Closing the attempt that holds the lease and releasing the lease together:
\* the common part of succeed, fail and reconcile_expired.
LEMMA RowReleased ==
  ASSUME NEW r \in DeliveryRow, NEW a \in Attempts, NEW t \in Nat,
         RowOK(r, a, t), r.state = "leased",
         NEW oc \in {"succeeded", "retryable", "terminal", "abandoned"},
         NEW st \in {"succeeded", "dead", "retry_wait"},
         NEW nx \in Nat, r.created_at <= nx,
         st = "retry_wait" => nx < Deadline(r),
         oc = "succeeded" =>
           /\ t < Deadline(r)
           /\ t < a[r.lease_token].started_at + r.policy.handler_timeout
  PROVE  /\ Released(r, st, nx, t) \in DeliveryRow
         /\ Closed(a, r.lease_token, oc, t) \in Attempts
         /\ RowOK(Released(r, st, nx, t), Closed(a, r.lease_token, oc, t), t)
         /\ RowKept(r, Released(r, st, nx, t))
  <1> DEFINE q == Released(r, st, nx, t)
             k == r.lease_token
             b == Closed(a, k, oc, t)
  <1>1. /\ k \in AttemptNumber /\ k = r.attempts_started
        /\ a[k].outcome = "started" /\ a[k].started_at \in Nat
    BY DEF RowOK, Attempts, AttemptRow
  <1>2. /\ q.state = st /\ q.next_attempt_at = nx /\ q.updated_at = t
        /\ q.lease_token = 0 /\ q.lease_expires_at = 0
        /\ q.attempts_started = r.attempts_started
        /\ q.policy = r.policy /\ q.created_at = r.created_at
        /\ q.replay_of = r.replay_of
    BY DEF Released, DeliveryRow
  <1>3. q \in DeliveryRow
    <2> DEFINE q1 == [r EXCEPT !.state = st]
               q2 == [q1 EXCEPT !.next_attempt_at = nx]
               q3 == [q2 EXCEPT !.lease_token = 0]
               q4 == [q3 EXCEPT !.lease_expires_at = 0]
               q5 == [q4 EXCEPT !.updated_at = t]
    <2>1. q1 \in DeliveryRow
      BY RowUpdates DEF DeliveryState, Terminal, Waiting
    <2> HIDE DEF q1
    <2>2. q2 \in DeliveryRow
      BY <2>1, RowUpdates
    <2> HIDE DEF q2
    <2>3. q3 \in DeliveryRow
      BY <2>2, RowUpdates, BoundAssumption DEF Token
    <2> HIDE DEF q3
    <2>4. q4 \in DeliveryRow
      BY <2>3, RowUpdates
    <2> HIDE DEF q4
    <2>5. q5 \in DeliveryRow
      BY <2>4, RowUpdates
    <2>6. QED
      BY <2>5 DEF Released, q1, q2, q3, q4
  <1>4. /\ b[k] = [outcome |-> oc, started_at |-> a[k].started_at, finished_at |-> t]
        /\ \A j \in AttemptNumber : j # k => b[j] = a[j]
    BY <1>1 DEF Closed, Attempts
  <1>5. b \in Attempts
    BY <1>1 DEF Closed, Attempts, AttemptRow, AttemptOutcome
  <1>6. Deadline(q) = Deadline(r)
    BY <1>2 DEF Deadline
  <1>7. \A j \in AttemptNumber :
          b[j].outcome # "absent" <=> j <= q.attempts_started
    BY <1>1, <1>2, <1>4 DEF RowOK
  <1>8. r.created_at <= t
    BY <1>1, RowTypes DEF RowOK
  <1>9. RowOK(q, b, t)
    BY <1>1, <1>2, <1>4, <1>6, <1>7, <1>8, RowTypes DEF RowOK, LeaseCoherent
  <1>10. RowKept(r, q)
    BY <1>2 DEF RowKept
  <1>11. QED
    BY <1>3, <1>5, <1>9, <1>10

\* succeed writes a row and an attempt that satisfy the invariant.
LEMMA RowSucceeds ==
  ASSUME CoreInv, NEW d \in Deliveries, NEW k \in AttemptNumber,
         ActiveLease(d, k), now < AttemptDeadline(delivery[d], attempt[d], k)
  PROVE  LET q == Released(delivery[d], "succeeded", delivery[d].next_attempt_at, now)
             b == Closed(attempt[d], k, "succeeded", now)
         IN  /\ q \in DeliveryRow /\ b \in Attempts
             /\ RowOK(q, b, now) /\ RowKept(delivery[d], q)
  <1> DEFINE r == delivery[d]
             a == attempt[d]
  <1>1. /\ r \in DeliveryRow /\ a \in Attempts /\ RowOK(r, a, now) /\ now \in Nat
        /\ r.state = "leased" /\ r.lease_token = k
    BY DEF CoreInv, TypeOK, Attempts, ActiveLease
  <1>2. /\ a[k].started_at \in Nat /\ r.policy.handler_timeout \in Nat
        /\ r.lease_expires_at \in Nat /\ Deadline(r) \in Nat
        /\ r.next_attempt_at \in Nat /\ r.created_at <= r.next_attempt_at
    BY <1>1, RowTypes, PolicyFacts DEF RowOK, Attempts, AttemptRow
  <1>3. now < Deadline(r) /\ now < a[k].started_at + r.policy.handler_timeout
    BY <1>1, <1>2 DEF AttemptDeadline, attempt_deadline, Least, Deadline
  <1>4. QED
    BY <1>1, <1>2, <1>3, RowReleased

\* fail writes a row and an attempt that satisfy the invariant.
LEMMA RowFails ==
  ASSUME CoreInv, NEW d \in Deliveries, NEW k \in AttemptNumber,
         NEW retryable \in BOOLEAN, NEW h \in Nat,
         NEW x \in ScheduledDelays(delivery[d].policy, k, h),
         ActiveLease(d, k)
  PROVE  LET q == FailedRow(delivery[d], k, retryable, x, now)
             b == Closed(attempt[d], k,
                         IF retryable THEN "retryable" ELSE "terminal", now)
         IN  /\ q \in DeliveryRow /\ b \in Attempts
             /\ RowOK(q, b, now) /\ RowKept(delivery[d], q)
  <1> DEFINE r == delivery[d]
             a == attempt[d]
             oc == IF retryable THEN "retryable" ELSE "terminal"
  <1>1. /\ r \in DeliveryRow /\ a \in Attempts /\ RowOK(r, a, now) /\ now \in Nat
        /\ r.state = "leased" /\ r.lease_token = k
    BY DEF CoreInv, TypeOK, Attempts, ActiveLease
  <1>2. x \in Nat
    BY <1>1, DelayFacts, RowTypes, BoundAssumption DEF AttemptNumber
  <1>3. /\ r.next_attempt_at \in Nat /\ r.created_at <= r.next_attempt_at
        /\ r.created_at <= now /\ Deadline(r) \in Nat /\ r.created_at \in Nat
    BY <1>1, RowTypes DEF RowOK, Attempts, AttemptRow
  <1>4. oc \in {"succeeded", "retryable", "terminal", "abandoned"} /\ oc # "succeeded"
    OBVIOUS
  <1> HIDE DEF oc
  <1>5. \A st \in {"dead", "retry_wait"}, nx \in Nat :
          r.created_at <= nx /\ (st = "retry_wait" => nx < Deadline(r)) =>
            LET q == Released(r, st, nx, now)
                b == Closed(a, k, oc, now)
            IN  /\ q \in DeliveryRow /\ b \in Attempts
                /\ RowOK(q, b, now) /\ RowKept(r, q)
    BY <1>1, <1>4, RowReleased
  <1>6. \E st \in {"dead", "retry_wait"}, nx \in Nat :
          /\ FailedRow(r, k, retryable, x, now) = Released(r, st, nx, now)
          /\ r.created_at <= nx /\ (st = "retry_wait" => nx < Deadline(r))
    <2>1. CASE retryable /\ permits_retry(r.policy, k, r.created_at, now)
               /\ now + x < Deadline(r)
      <3>1. FailedRow(r, k, retryable, x, now) = Released(r, "retry_wait", now + x, now)
        BY <2>1 DEF FailedRow
      <3>2. now + x \in Nat /\ r.created_at <= now + x
        BY <1>1, <1>2, <1>3
      <3>3. QED
        BY <2>1, <3>1, <3>2
    <2>2. CASE retryable /\ permits_retry(r.policy, k, r.created_at, now)
               /\ ~(now + x < Deadline(r))
      <3>1. FailedRow(r, k, retryable, x, now) = Released(r, "dead", now, now)
        BY <2>2 DEF FailedRow
      <3>2. QED
        BY <1>1, <1>3, <3>1
    <2>3. CASE ~(retryable /\ permits_retry(r.policy, k, r.created_at, now))
      <3>1. FailedRow(r, k, retryable, x, now) =
              Released(r, "dead", r.next_attempt_at, now)
        BY <2>3 DEF FailedRow
      <3>2. QED
        BY <1>3, <3>1
    <2>4. QED
      BY <2>1, <2>2, <2>3
  <1>7. QED
    BY <1>5, <1>6 DEF oc

\* reconcile_expired writes rows and attempts that satisfy the invariant.
LEMMA RowReconciles ==
  ASSUME CoreInv, NEW d \in Deliveries, LeaseExpired(d)
  PROVE  LET q == ReconciledRow(delivery[d], now)
             b == ReconciledAttempts(delivery[d], attempt[d], now)
         IN  /\ q \in DeliveryRow /\ b \in Attempts
             /\ RowOK(q, b, now) /\ RowKept(delivery[d], q)
             /\ b = Closed(attempt[d], delivery[d].lease_token, "abandoned", now)
  <1> DEFINE r == delivery[d]
             a == attempt[d]
             st == IF r.attempts_started < r.policy.max_attempts /\ ~Expired(r, now)
                     THEN "retry_wait" ELSE "dead"
  <1>1. /\ r \in DeliveryRow /\ a \in Attempts /\ RowOK(r, a, now) /\ now \in Nat
        /\ r.state = "leased"
    BY DEF CoreInv, TypeOK, Attempts, LeaseExpired
  <1>2. r.created_at <= now /\ Deadline(r) \in Nat
    BY <1>1, RowTypes DEF RowOK, Attempts, AttemptRow
  <1>3. a[r.lease_token].outcome = "started"
    BY <1>1 DEF RowOK
  <1>4. ReconciledAttempts(r, a, now) = Closed(a, r.lease_token, "abandoned", now)
    BY <1>3 DEF ReconciledAttempts
  <1>5. st \in {"succeeded", "dead", "retry_wait"} /\ (st = "retry_wait" => now < Deadline(r))
    BY <1>1, <1>2 DEF Expired
  <1>6. ReconciledRow(r, now) = Released(r, st, now, now)
    BY DEF ReconciledRow
  <1> HIDE DEF st
  <1>7. QED
    BY <1>1, <1>2, <1>4, <1>5, <1>6, RowReleased

-----------------------------------------------------------------------------
(* Every step preserves CoreInv.                                             *)

\* A step that leaves the transactions alone, never removes a row or moves its
\* creation, and does not turn back the clock keeps every transaction sound.
LEMMA TxFrame ==
  ASSUME CoreInv, now' \in Nat, now <= now', tx' = tx,
         \A d \in Deliveries : delivery[d].state # "absent" =>
           /\ delivery'[d].state # "absent"
           /\ delivery'[d].created_at = delivery[d].created_at
  PROVE  \A s \in Sessions : TxOK(s)'
  <1> SUFFICES ASSUME NEW s \in Sessions PROVE TxOK(s)'
    OBVIOUS
  <1>1. TxOK(s) /\ tx[s] \in ClaimTx /\ now \in Nat
    BY DEF CoreInv, TypeOK
  <1>2. \A d \in tx[s].selected \cup tx[s].locked :
          d \in Deliveries /\ delivery[d].created_at \in Nat
    BY <1>1, RowTypes DEF CoreInv, TypeOK, ClaimTx
  <1>3. tx[s].effective_now \in Nat
    BY <1>1 DEF ClaimTx
  <1>4. QED
    BY <1>1, <1>2, <1>3 DEF TxOK

\* A step on one session's transaction only.
LEMMA TxStep ==
  ASSUME CoreInv, UNCHANGED <<now, delivery, attempt>>,
         NEW s \in Sessions, NEW new \in ClaimTx, tx' = [tx EXCEPT ![s] = new],
         new.effective_now <= now,
         \A d \in new.selected \cup new.locked :
           /\ delivery[d].state # "absent"
           /\ delivery[d].created_at <= now
           /\ new.phase = "claiming" => delivery[d].created_at <= new.effective_now
  PROVE  CoreInv'
  <1>1. TypeOK'
    BY DEF CoreInv, TypeOK
  <1>2. \A d \in Deliveries : RowOK(delivery[d], attempt[d], now)'
    BY DEF CoreInv, RowOK
  <1>3. ASSUME NEW u \in Sessions PROVE TxOK(u)'
    <2>1. CASE u = s
      <3>1. tx'[u] = new
        BY <2>1 DEF CoreInv, TypeOK
      <3>2. QED
        BY <3>1 DEF TxOK
    <2>2. CASE u # s
      <3>1. tx'[u] = tx[u]
        BY <2>2 DEF CoreInv, TypeOK
      <3>2. QED
        BY <3>1 DEF TxOK, CoreInv
    <2>3. QED
      BY <2>1, <2>2
  <1>4. QED
    BY <1>1, <1>2, <1>3 DEF CoreInv

\* The idle transaction is well typed.
LEMMA NoTxType == NoTx \in ClaimTx
  BY DEF NoTx, ClaimTx

\* A step that rewrites some rows, each to a typed row that satisfies RowOK.
LEMMA RowsStep ==
  ASSUME CoreInv, now' = now, tx' = tx,
         NEW D \in [Deliveries -> DeliveryRow], NEW A \in [Deliveries -> Attempts],
         delivery' = D, attempt' = A,
         \A d \in Deliveries :
           /\ RowOK(D[d], A[d], now)
           /\ delivery[d].state # "absent" => RowKept(delivery[d], D[d])
  PROVE  CoreInv'
  <1>1. TypeOK'
    BY DEF CoreInv, TypeOK, Attempts
  <1>2. \A d \in Deliveries : RowOK(delivery[d], attempt[d], now)'
    BY DEF RowOK
  <1>3. now' \in Nat /\ now <= now'
    BY DEF CoreInv, TypeOK
  <1>4. \A s \in Sessions : TxOK(s)'
    BY <1>3, TxFrame DEF RowKept
  <1>5. QED
    BY <1>1, <1>2, <1>4 DEF CoreInv

\* publish preserves CoreInv: it writes only rows that did not exist.
LEMMA PublishCore ==
  ASSUME CoreInv, NEW ds \in SUBSET Deliveries, NEW at \in ApplicationClock,
         NEW policyOf \in [ds -> Policies], Publish(ds, policyOf, at)
  PROVE  CoreInv'
  <1> DEFINE D == [d \in Deliveries |->
                     IF d \in ds THEN PendingRow(policyOf[d], at, None)
                                 ELSE delivery[d]]
  <1>1. at \in Nat
    BY BoundAssumption DEF ApplicationClock, CoreInv, TypeOK
  <1>2. ASSUME NEW d \in Deliveries
        PROVE  /\ D[d] \in DeliveryRow /\ RowOK(D[d], attempt[d], now)
               /\ delivery[d].state # "absent" => RowKept(delivery[d], D[d])
    <2>1. /\ delivery[d] \in DeliveryRow /\ attempt[d] \in Attempts /\ now \in Nat
          /\ RowOK(delivery[d], attempt[d], now)
      BY DEF CoreInv, TypeOK, Attempts
    <2>2. CASE d \in ds
      <3>1. delivery[d].state = "absent" /\ policyOf[d] \in Policies
        BY <2>2 DEF Publish
      <3>2. QED
        BY <1>1, <2>1, <2>2, <3>1, RowPending
    <2>3. CASE d \notin ds
      BY <2>1, <2>3 DEF RowKept
    <2>4. QED
      BY <2>2, <2>3
  <1>3. D \in [Deliveries -> DeliveryRow]
    BY <1>2
  <1>4. delivery' = D /\ attempt' = attempt /\ now' = now /\ tx' = tx
    BY DEF Publish
  <1> HIDE DEF D
  <1>5. attempt \in [Deliveries -> Attempts]
    BY DEF CoreInv, TypeOK, Attempts
  <1>6. QED
    BY <1>2, <1>3, <1>4, <1>5, RowsStep

\* replay preserves CoreInv: the new row starts without attempts.
LEMMA ReplayCore ==
  ASSUME CoreInv, NEW source \in Deliveries, NEW e \in Deliveries,
         NEW at \in ApplicationClock, Replay(source, e, at)
  PROVE  CoreInv'
  <1> DEFINE new == PendingRow(delivery[source].policy, at, source)
             D == [delivery EXCEPT ![e] = new]
  <1>1. at \in Nat /\ delivery[source].policy \in Policies
    BY BoundAssumption, RowTypes DEF ApplicationClock, CoreInv, TypeOK
  <1>2. ASSUME NEW d \in Deliveries
        PROVE  /\ delivery[d] \in DeliveryRow /\ attempt[d] \in Attempts
               /\ now \in Nat /\ RowOK(delivery[d], attempt[d], now)
    BY DEF CoreInv, TypeOK, Attempts
  <1>3. new \in DeliveryRow /\ RowOK(new, attempt[e], now)
    BY <1>1, <1>2, RowPending DEF Replay
  <1> HIDE DEF new
  <1>4. D \in [Deliveries -> DeliveryRow]
    BY <1>3 DEF CoreInv, TypeOK
  <1>5. ASSUME NEW d \in Deliveries
        PROVE  /\ RowOK(D[d], attempt[d], now)
               /\ delivery[d].state # "absent" => RowKept(delivery[d], D[d])
    <2>1. CASE d = e
      <3>1. D[d] = new
        BY <2>1 DEF CoreInv, TypeOK
      <3>2. QED
        BY <1>3, <2>1, <3>1 DEF Replay
    <2>2. CASE d # e
      <3>1. D[d] = delivery[d]
        BY <2>2 DEF CoreInv, TypeOK
      <3>2. QED
        BY <1>2, <3>1 DEF RowKept
    <2>3. QED
      BY <2>1, <2>2
  <1>6. delivery' = D /\ attempt' = attempt /\ now' = now /\ tx' = tx
    BY DEF Replay, new
  <1> HIDE DEF D
  <1>7. attempt \in [Deliveries -> Attempts]
    BY DEF CoreInv, TypeOK, Attempts
  <1>8. QED
    BY <1>4, <1>5, <1>6, <1>7, RowsStep

\* One row and its attempts are replaced.
LEMMA OneRowStep ==
  ASSUME CoreInv, now' = now, tx' = tx, NEW e \in Deliveries,
         NEW q \in DeliveryRow, NEW b \in Attempts,
         RowOK(q, b, now), RowKept(delivery[e], q),
         delivery' = [delivery EXCEPT ![e] = q],
         attempt' = [attempt EXCEPT ![e] = b]
  PROVE  CoreInv'
  <1> DEFINE D == [delivery EXCEPT ![e] = q]
             A == [attempt EXCEPT ![e] = b]
  <1>1. D \in [Deliveries -> DeliveryRow] /\ A \in [Deliveries -> Attempts]
    BY DEF CoreInv, TypeOK, Attempts
  <1>2. ASSUME NEW d \in Deliveries
        PROVE  /\ RowOK(D[d], A[d], now)
               /\ delivery[d].state # "absent" => RowKept(delivery[d], D[d])
    <2>1. CASE d = e
      <3>1. D[d] = q /\ A[d] = b
        BY <2>1 DEF CoreInv, TypeOK
      <3>2. QED
        BY <2>1, <3>1
    <2>2. CASE d # e
      <3>1. D[d] = delivery[d] /\ A[d] = attempt[d]
        BY <2>2 DEF CoreInv, TypeOK
      <3>2. QED
        BY <3>1 DEF RowKept, CoreInv
    <2>3. QED
      BY <2>1, <2>2
  <1>3. delivery' = D /\ attempt' = A
    OBVIOUS
  <1> HIDE DEF D, A
  <1>4. QED
    BY <1>1, <1>2, <1>3, RowsStep

\* succeed preserves CoreInv.
LEMMA SucceedCore ==
  ASSUME CoreInv, NEW d \in Deliveries, NEW k \in AttemptNumber, Succeed(d, k)
  PROVE  CoreInv'
  <1> DEFINE q == Released(delivery[d], "succeeded", delivery[d].next_attempt_at, now)
             b == Closed(attempt[d], k, "succeeded", now)
  <1>1. /\ q \in DeliveryRow /\ b \in Attempts
        /\ RowOK(q, b, now) /\ RowKept(delivery[d], q)
    BY RowSucceeds DEF Succeed
  <1>2. /\ delivery' = [delivery EXCEPT ![d] = q]
        /\ attempt' = [attempt EXCEPT ![d] = b] /\ now' = now /\ tx' = tx
    BY DEF Succeed
  <1> HIDE DEF q, b
  <1>3. QED
    BY <1>1, <1>2, OneRowStep

\* fail preserves CoreInv for every classification and Retry-After hint.
LEMMA FailCore ==
  ASSUME CoreInv, NEW d \in Deliveries, NEW k \in AttemptNumber,
         NEW retryable \in BOOLEAN, NEW h \in RetryAfters, Fail(d, k, retryable, h)
  PROVE  CoreInv'
  <1> DEFINE b == Closed(attempt[d], k,
                         IF retryable THEN "retryable" ELSE "terminal", now)
  <1>1. PICK x \in ScheduledDelays(delivery[d].policy, k, h) :
          delivery' = [delivery EXCEPT ![d] =
                         FailedRow(delivery[d], k, retryable, x, now)]
    BY DEF Fail
  <1> DEFINE q == FailedRow(delivery[d], k, retryable, x, now)
  <1>2. h \in Nat /\ ActiveLease(d, k)
    BY BoundAssumption DEF Fail
  <1>3. /\ q \in DeliveryRow /\ b \in Attempts
        /\ RowOK(q, b, now) /\ RowKept(delivery[d], q)
    BY <1>2, RowFails
  <1>4. /\ delivery' = [delivery EXCEPT ![d] = q]
        /\ attempt' = [attempt EXCEPT ![d] = b] /\ now' = now /\ tx' = tx
    BY <1>1 DEF Fail
  <1> HIDE DEF q, b
  <1>5. QED
    BY <1>3, <1>4, OneRowStep

\* reconcile_expired preserves CoreInv for every batch it may lock.
LEMMA ReconcileCore ==
  ASSUME CoreInv, ReconcileExpired
  PROVE  CoreInv'
  <1>1. PICK R \in ReconcileRows :
          /\ delivery' = [d \in Deliveries |->
                            IF d \in R THEN ReconciledRow(delivery[d], now)
                                       ELSE delivery[d]]
          /\ attempt' = [d \in Deliveries |->
                           IF d \in R
                             THEN ReconciledAttempts(delivery[d], attempt[d], now)
                             ELSE attempt[d]]
    BY DEF ReconcileExpired
  <1>2. R \subseteq Deliveries /\ \A d \in R : LeaseExpired(d)
    BY DEF ReconcileRows
  <1>3. now' = now /\ tx' = tx
    BY DEF ReconcileExpired
  <1> DEFINE D == [d \in Deliveries |->
                     IF d \in R THEN ReconciledRow(delivery[d], now) ELSE delivery[d]]
             A == [d \in Deliveries |->
                     IF d \in R
                       THEN ReconciledAttempts(delivery[d], attempt[d], now)
                       ELSE attempt[d]]
  <1>4. ASSUME NEW d \in Deliveries
        PROVE  /\ D[d] \in DeliveryRow /\ A[d] \in Attempts
               /\ RowOK(D[d], A[d], now)
               /\ delivery[d].state # "absent" => RowKept(delivery[d], D[d])
    <2>1. CASE d \in R
      BY <1>2, <2>1, RowReconciles
    <2>2. CASE d \notin R
      BY <2>2 DEF CoreInv, TypeOK, Attempts, RowKept
    <2>3. QED
      BY <2>1, <2>2
  <1>5. D \in [Deliveries -> DeliveryRow] /\ A \in [Deliveries -> Attempts]
    BY <1>4
  <1>6. delivery' = D /\ attempt' = A
    BY <1>1
  <1> HIDE DEF D, A
  <1>7. QED
    BY <1>3, <1>4, <1>5, <1>6, RowsStep

\* The steps of a claim transaction before its commit, and its rollback,
\* preserve CoreInv.
LEMMA ClaimTxCore ==
  ASSUME CoreInv, NEW s \in Sessions,
         \/ ClaimSelect(s)
         \/ (\E d \in Deliveries, skipped \in BOOLEAN : ClaimLockRow(s, d, skipped))
         \/ ClaimStamp(s) \/ ClaimAbort(s)
  PROVE  CoreInv'
  <1>1. tx[s] \in ClaimTx /\ now \in Nat /\ TxOK(s)
    BY DEF CoreInv, TypeOK
  <1>2. CASE ClaimSelect(s)
    <2>1. PICK C \in RankedCandidates :
            tx' = [tx EXCEPT ![s] =
                     [phase |-> "locking", selected |-> C, locked |-> {},
                      rank |-> [d \in Deliveries |->
                                  IF d \in C THEN delivery[d].next_attempt_at
                                             ELSE 0],
                      effective_now |-> 0]]
      BY <1>2 DEF ClaimSelect
    <2> DEFINE rk == [d \in Deliveries |->
                        IF d \in C THEN delivery[d].next_attempt_at ELSE 0]
               new == [phase |-> "locking", selected |-> C, locked |-> {},
                       rank |-> rk, effective_now |-> 0]
    <2>2. C \subseteq Deliveries /\ \A d \in C : Claimable(d)
      BY DEF RankedCandidates
    <2>3. rk \in [Deliveries -> Nat]
      BY RowTypes DEF CoreInv, TypeOK
    <2>4. tx' = [tx EXCEPT ![s] = new]
      BY <2>1
    <2> HIDE DEF rk
    <2>5. new \in ClaimTx
      BY <2>2, <2>3 DEF ClaimTx
    <2>6. ASSUME NEW d \in C
          PROVE  delivery[d].state # "absent" /\ delivery[d].created_at <= now
      BY <1>1, <2>2, RowTypes DEF Claimable, Waiting, CoreInv, TypeOK, RowOK
    <2>7. UNCHANGED <<now, delivery, attempt>>
      BY <1>2 DEF ClaimSelect
    <2>8. /\ new.effective_now <= now
          /\ \A d \in new.selected \cup new.locked :
               /\ delivery[d].state # "absent"
               /\ delivery[d].created_at <= now
               /\ new.phase = "claiming" =>
                    delivery[d].created_at <= new.effective_now
      BY <1>1, <2>6
    <2> HIDE DEF new
    <2>9. QED
      BY <2>4, <2>5, <2>7, <2>8, TxStep
  <1>3. ASSUME NEW e \in Deliveries, NEW skipped \in BOOLEAN,
               ClaimLockRow(s, e, skipped)
        PROVE  CoreInv'
    <2> DEFINE L == IF skipped THEN tx[s].locked ELSE tx[s].locked \cup {e}
               new == [phase |-> "locking", selected |-> tx[s].selected \ {e},
                       locked |-> L, rank |-> tx[s].rank, effective_now |-> 0]
    <2>1. tx[s].phase = "locking" /\ e \in tx[s].selected
      BY <1>3 DEF ClaimLockRow, NextCandidate
    <2>3. tx' = [tx EXCEPT ![s] = new]
      BY <1>3 DEF ClaimLockRow
    <2>4. L \subseteq Deliveries /\ L \subseteq tx[s].selected \cup tx[s].locked
      BY <1>1, <2>1 DEF ClaimTx
    <2> HIDE DEF L
    <2>5. new \in ClaimTx
      BY <1>1, <2>4 DEF ClaimTx
    <2>6. UNCHANGED <<now, delivery, attempt>>
      BY <1>3 DEF ClaimLockRow
    <2>7. /\ new.effective_now <= now
          /\ \A d \in new.selected \cup new.locked :
               /\ delivery[d].state # "absent"
               /\ delivery[d].created_at <= now
               /\ new.phase = "claiming" =>
                    delivery[d].created_at <= new.effective_now
      BY <1>1, <2>4 DEF TxOK
    <2> HIDE DEF new
    <2>8. QED
      BY <2>3, <2>5, <2>6, <2>7, TxStep
  <1>4. CASE ClaimStamp(s)
    <2> DEFINE new == [phase |-> "claiming", selected |-> {},
                       locked |-> tx[s].locked,
                       rank |-> [d \in Deliveries |-> 0], effective_now |-> now]
    <2>1. tx' = [tx EXCEPT ![s] = new] /\ UNCHANGED <<now, delivery, attempt>>
      BY <1>4 DEF ClaimStamp
    <2>2. new \in ClaimTx
      BY <1>1 DEF ClaimTx
    <2>3. /\ new.effective_now <= now
          /\ \A d \in new.selected \cup new.locked :
               /\ delivery[d].state # "absent"
               /\ delivery[d].created_at <= now
               /\ new.phase = "claiming" =>
                    delivery[d].created_at <= new.effective_now
      BY <1>1 DEF TxOK
    <2> HIDE DEF new
    <2>4. QED
      BY <2>1, <2>2, <2>3, TxStep
  <1>5. CASE ClaimAbort(s)
    <2>1. tx' = [tx EXCEPT ![s] = NoTx] /\ UNCHANGED <<now, delivery, attempt>>
      BY <1>5 DEF ClaimAbort
    <2>2. /\ NoTx.effective_now <= now
          /\ NoTx.selected \cup NoTx.locked = {}
      BY <1>1 DEF NoTx
    <2>3. QED
      BY <2>1, <2>2, NoTxType, TxStep
  <1>6. QED
    BY <1>2, <1>3, <1>4, <1>5

\* The commit of a claim preserves CoreInv, whatever other sessions did to its
\* rows between its snapshot and its locks.
LEMMA ClaimCommitCore ==
  ASSUME CoreInv, NEW s \in Sessions, ClaimCommit(s)
  PROVE  CoreInv'
  <1> DEFINE at == tx[s].effective_now
             L == tx[s].locked
             D == [d \in Deliveries |->
                     IF d \in L THEN ClaimedRow(delivery[d], at) ELSE delivery[d]]
             A == [d \in Deliveries |->
                     IF d \in L THEN ClaimedAttempts(delivery[d], attempt[d], at)
                                ELSE attempt[d]]
  <1>1. /\ tx[s] \in ClaimTx /\ now \in Nat /\ TxOK(s)
        /\ tx[s].phase = "claiming"
    BY DEF CoreInv, TypeOK, ClaimCommit
  <1>2. at \in Nat /\ at <= now /\ L \subseteq Deliveries
    BY <1>1 DEF ClaimTx, TxOK
  <1>3. ASSUME NEW d \in Deliveries
        PROVE  /\ D[d] \in DeliveryRow /\ A[d] \in Attempts
               /\ RowOK(D[d], A[d], now)
               /\ delivery[d].state # "absent" => RowKept(delivery[d], D[d])
    <2>1. /\ delivery[d] \in DeliveryRow /\ attempt[d] \in Attempts
          /\ RowOK(delivery[d], attempt[d], now)
      BY DEF CoreInv, TypeOK, Attempts
    <2>2. CASE d \in L
      <3>1. /\ delivery[d].state # "absent" /\ delivery[d].created_at <= at
            /\ delivery[d].attempts_started < MaxAttemptRows
            /\ LeaseCoherent(ClaimedRow(delivery[d], at))
        BY <1>1, <2>2 DEF TxOK, ClaimCommit
      <3>2. QED
        BY <1>1, <1>2, <2>1, <2>2, <3>1, RowClaimed
    <2>3. CASE d \notin L
      BY <2>1, <2>3 DEF RowKept
    <2>4. QED
      BY <2>2, <2>3
  <1>4. /\ delivery' = D /\ attempt' = A /\ now' = now
        /\ tx' = [tx EXCEPT ![s] = NoTx]
    BY DEF ClaimCommit
  <1>5. D \in [Deliveries -> DeliveryRow] /\ A \in [Deliveries -> Attempts]
    BY <1>3
  <1> HIDE DEF D, A, at, L
  <1>6. TypeOK'
    BY <1>4, <1>5, NoTxType DEF CoreInv, TypeOK, Attempts
  <1>7. \A d \in Deliveries : RowOK(delivery[d], attempt[d], now)'
    BY <1>3, <1>4 DEF RowOK
  <1>8. ASSUME NEW u \in Sessions PROVE TxOK(u)'
    <2>1. CASE u = s
      <3>1. tx'[u] = NoTx
        BY <1>4, <2>1 DEF CoreInv, TypeOK
      <3>2. QED
        BY <1>1, <1>4, <3>1 DEF TxOK, NoTx
    <2>2. CASE u # s
      <3>1. tx'[u] = tx[u] /\ TxOK(u) /\ tx[u] \in ClaimTx
        BY <1>4, <2>2 DEF CoreInv, TypeOK
      <3>2. \A d \in tx[u].selected \cup tx[u].locked :
              d \in Deliveries /\ delivery[d].state # "absent"
        BY <3>1 DEF TxOK, ClaimTx
      <3>3. \A d \in tx[u].selected \cup tx[u].locked :
              /\ delivery'[d].state # "absent"
              /\ delivery'[d].created_at = delivery[d].created_at
        BY <1>3, <1>4, <3>2 DEF RowKept
      <3>4. QED
        BY <1>4, <3>1, <3>3 DEF TxOK
    <2>3. QED
      BY <2>1, <2>2
  <1>9. QED
    BY <1>6, <1>7, <1>8 DEF CoreInv

\* The clock preserves CoreInv.
LEMMA TickCore ==
  ASSUME CoreInv, Tick
  PROVE  CoreInv'
  <1>1. now \in Nat /\ now' \in Nat /\ now <= now'
    BY DEF Tick, CoreInv, TypeOK
  <1>2. delivery' = delivery /\ attempt' = attempt /\ tx' = tx
    BY DEF Tick
  <1>3. TypeOK'
    BY <1>1, <1>2 DEF CoreInv, TypeOK
  <1>4. \A d \in Deliveries : RowOK(delivery[d], attempt[d], now')
    BY <1>1, RowAges DEF CoreInv, TypeOK, Attempts
  <1>5. \A d \in Deliveries : RowOK(delivery[d], attempt[d], now)'
    BY <1>2, <1>4 DEF RowOK
  <1>6. \A s \in Sessions : TxOK(s)'
    BY <1>1, <1>2, TxFrame
  <1>7. QED
    BY <1>3, <1>5, <1>6 DEF CoreInv

\* The empty ledger satisfies CoreInv.
LEMMA InitCore == Init => CoreInv
  <1> SUFFICES ASSUME Init PROVE CoreInv
    OBVIOUS
  <1>1. NoDelivery \in DeliveryRow
    BY SomePolicy, BoundAssumption DEF NoDelivery, DeliveryRow, DeliveryState, Token
  <1>2. NoAttempt \in AttemptRow
    BY DEF NoAttempt, AttemptRow, AttemptOutcome
  <1>3. TypeOK
    BY <1>1, <1>2, NoTxType DEF Init, TypeOK
  <1>4. ASSUME NEW d \in Deliveries PROVE RowOK(delivery[d], attempt[d], now)
    <2>1. delivery[d] = NoDelivery /\ \A k \in AttemptNumber : attempt[d][k] = NoAttempt
      BY DEF Init
    <2>2. QED
      BY <2>1 DEF RowOK, NoDelivery, NoAttempt, LeaseCoherent, AttemptNumber
  <1>5. ASSUME NEW s \in Sessions PROVE TxOK(s)
    <2>1. tx[s] = NoTx /\ now = 0
      BY DEF Init
    <2>2. QED
      BY <2>1 DEF TxOK, NoTx
  <1>6. QED
    BY <1>3, <1>4, <1>5 DEF CoreInv

\* Every step of the specification preserves CoreInv.
LEMMA NextCore == CoreInv /\ [Next]_vars => CoreInv'
  <1> SUFFICES ASSUME CoreInv, [Next]_vars PROVE CoreInv'
    OBVIOUS
  <1>1. CASE \E ds \in SUBSET Deliveries, at \in ApplicationClock :
               \E policyOf \in [ds -> Policies] : Publish(ds, policyOf, at)
    BY <1>1, PublishCore
  <1>2. CASE \E s \in Sessions : ClaimStep(s)
    BY <1>2, ClaimTxCore, ClaimCommitCore DEF ClaimStep
  <1>3. CASE \E d \in Deliveries, k \in AttemptNumber : Succeed(d, k)
    BY <1>3, SucceedCore
  <1>4. CASE \E d \in Deliveries, k \in AttemptNumber, retryable \in BOOLEAN,
               retry_after \in RetryAfters : Fail(d, k, retryable, retry_after)
    BY <1>4, FailCore
  <1>5. CASE ReconcileExpired
    BY <1>5, ReconcileCore
  <1>6. CASE \E source, d \in Deliveries, at \in ApplicationClock :
               Replay(source, d, at)
    BY <1>6, ReplayCore
  <1>7. CASE Tick
    BY <1>7, TickCore
  <1>8. CASE UNCHANGED vars
    BY <1>8 DEF vars, CoreInv, TypeOK, RowOK, TxOK
  <1>9. QED
    BY <1>1, <1>2, <1>3, <1>4, <1>5, <1>6, <1>7, <1>8 DEF Next

\* CoreInv is an invariant of the specification.
THEOREM CoreInvariant == Spec => []CoreInv
  BY InitCore, NextCore, PTL DEF Spec

\* Type correctness for every value of the constants.
THEOREM TypeCorrect == Spec => []TypeOK
  <1>1. CoreInv => TypeOK
    BY DEF CoreInv
  <1>2. QED
    BY <1>1, CoreInvariant, PTL

\* With any number of concurrent claimers a lease always belongs to an open
\* newest attempt, attempts are numbered without gaps, successes and starts
\* respect every deadline, and each stored record can be loaded again.
THEOREM LedgerSafety ==
  Spec => [](StoredRowsSound /\ AttemptsContiguous /\ WithinDeadlines)
  <1>1. CoreInv => CurrentLeaseIsOpen
    BY DEF CoreInv, RowOK, CurrentLeaseIsOpen
  <1>2. CoreInv => AttemptsContiguous
    BY DEF CoreInv, RowOK, AttemptsContiguous
  <1>3. CoreInv => SuccessWithinDeadlines
    BY DEF CoreInv, RowOK, SuccessWithinDeadlines
  <1>4. CoreInv => NoWorkPastDeadline
    BY DEF CoreInv, RowOK, NoWorkPastDeadline
  <1>5. CoreInv => RecordsLoadable
    <2> SUFFICES ASSUME CoreInv, NEW d \in Deliveries, Present(d)
                 PROVE  /\ DeliveryRecord(delivery[d])
                        /\ \A k \in AttemptNumber :
                             attempt[d][k].outcome # "absent" =>
                               /\ AttemptRecord(attempt[d][k])
                               /\ delivery[d].created_at <= attempt[d][k].started_at
      BY DEF RecordsLoadable
    <2> DEFINE r == delivery[d]
    <2>1. RowOK(r, attempt[d], now) /\ r \in DeliveryRow
      BY DEF CoreInv, TypeOK
    <2>2. r.state = "leased" => r.lease_expires_at # 0
      <3>1. r.policy.lease_duration \in Nat \ {0}
        BY <2>1, RowTypes, PolicyFacts
      <3>2. ASSUME r.state = "leased"
            PROVE  attempt[d][r.attempts_started].started_at \in Nat
        BY <2>1, <3>2 DEF RowOK, CoreInv, TypeOK, AttemptRow
      <3>3. QED
        BY <2>1, <3>1, <3>2 DEF RowOK
    <2>3. DeliveryRecord(r)
      BY <2>1, <2>2 DEF RowOK, DeliveryRecord, LeaseCoherent, Present
    <2>4. QED
      BY <2>1, <2>3 DEF RowOK, AttemptRecord
  <1>6. CoreInv => StoredRowsSound /\ WithinDeadlines
    BY <1>1, <1>3, <1>4, <1>5 DEF StoredRowsSound, WithinDeadlines
  <1>7. QED
    BY <1>2, <1>6, CoreInvariant, PTL

\* However many claimers race and however far created_at, stamped by an
\* application clock, is off: no success, no start of an attempt and no scheduled
\* retry overruns the deadline that applies to it.
THEOREM DeadlinesRespected == Spec => []WithinDeadlines
  BY LedgerSafety, PTL

-----------------------------------------------------------------------------
(* What one step may do to one delivery.  W is the set of states a claim may *)
(* lease from: every present state when claimers race, Waiting when they do  *)
(* not.                                                                      *)

CreateRow(r, a, q, b) ==
  /\ r.state = "absent" /\ b = a
  /\ \E p \in Policies, c \in Nat, o \in Deliveries \cup {None} :
       q = PendingRow(p, c, o)

ClaimRow(r, a, q, b, W) ==
  /\ r.state \in W
  /\ r.attempts_started < MaxAttemptRows
  /\ \E c \in Nat : q = ClaimedRow(r, c) /\ b = ClaimedAttempts(r, a, c)

\* A verdict closes the attempt that holds the lease; an abandonment needs an
\* expired lease and a retry needs an attempt left.
CloseRow(r, a, q, b, t) ==
  \E oc \in {"succeeded", "retryable", "terminal", "abandoned"},
     st \in {"succeeded", "dead", "retry_wait"}, nx \in Nat :
    /\ r.state = "leased"
    /\ oc = "succeeded" <=> st = "succeeded"
    /\ oc = "abandoned" => r.lease_expires_at <= t
    /\ st = "retry_wait" => r.attempts_started < r.policy.max_attempts
    /\ q = Released(r, st, nx, t)
    /\ b = Closed(a, r.lease_token, oc, t)

RowStep(r, a, q, b, t, W) ==
  \/ q = r /\ b = a
  \/ CreateRow(r, a, q, b)
  \/ ClaimRow(r, a, q, b, W)
  \/ CloseRow(r, a, q, b, t)

Racing == DeliveryState \ {"absent"}

\* The transactions of claimers that do not race hold only waiting rows.
HoldsWaiting ==
  \A s \in Sessions : \A d \in tx[s].selected \cup tx[s].locked :
    delivery[d].state \in Waiting

\* Every step of the specification treats every delivery as RowStep says.
LEMMA StepRows ==
  ASSUME CoreInv, [Next]_vars, NEW W, W = Racing \/ (HoldsWaiting /\ W = Waiting),
         NEW d \in Deliveries
  PROVE  RowStep(delivery[d], attempt[d], delivery'[d], attempt'[d], now, W)
  <1> DEFINE r == delivery[d]
             a == attempt[d]
  <1>0. /\ r \in DeliveryRow /\ a \in Attempts /\ RowOK(r, a, now) /\ now \in Nat
        /\ delivery \in [Deliveries -> DeliveryRow]
        /\ attempt \in [Deliveries -> Attempts]
    BY DEF CoreInv, TypeOK, Attempts
  <1>1. ASSUME NEW ds \in SUBSET Deliveries, NEW at \in ApplicationClock,
               NEW policyOf \in [ds -> Policies], Publish(ds, policyOf, at)
        PROVE  RowStep(r, a, delivery'[d], attempt'[d], now, W)
    <2>1. at \in Nat
      BY <1>0, BoundAssumption DEF ApplicationClock
    <2>2. CASE d \in ds
      <3>1. /\ r.state = "absent" /\ attempt'[d] = a
            /\ delivery'[d] = PendingRow(policyOf[d], at, None)
            /\ policyOf[d] \in Policies
        BY <1>1, <2>2 DEF Publish
      <3>2. QED
        BY <2>1, <3>1 DEF RowStep, CreateRow
    <2>3. CASE d \notin ds
      BY <1>1, <2>3 DEF Publish, RowStep
    <2>4. QED
      BY <2>2, <2>3
  <1>2. ASSUME NEW s \in Sessions, ClaimStep(s)
        PROVE  RowStep(r, a, delivery'[d], attempt'[d], now, W)
    <2>1. CASE ClaimCommit(s)
      <3>1. CASE d \in tx[s].locked
        <4>1. r.state \in W
          <5>1. r.state # "absent" /\ r.state \in DeliveryState
            BY <1>0, <3>1, RowTypes DEF CoreInv, TxOK
          <5>2. QED
            BY <3>1, <5>1 DEF Racing, HoldsWaiting
        <4>2. /\ r.attempts_started < MaxAttemptRows
              /\ delivery'[d] = ClaimedRow(r, tx[s].effective_now)
              /\ attempt'[d] = ClaimedAttempts(r, a, tx[s].effective_now)
          BY <2>1, <3>1 DEF ClaimCommit
        <4>3. tx[s].effective_now \in Nat
          BY DEF CoreInv, TypeOK, ClaimTx
        <4>4. QED
          BY <4>1, <4>2, <4>3 DEF RowStep, ClaimRow
      <3>2. CASE d \notin tx[s].locked
        BY <2>1, <3>2 DEF ClaimCommit, RowStep
      <3>3. QED
        BY <3>1, <3>2
    <2>2. CASE ~ClaimCommit(s)
      <3>1. delivery' = delivery /\ attempt' = attempt
        BY <1>2, <2>2
        DEF ClaimStep, ClaimSelect, ClaimLockRow, ClaimStamp, ClaimAbort
      <3>2. QED
        BY <3>1 DEF RowStep
    <2>3. QED
      BY <2>1, <2>2
  <1>3. ASSUME NEW e \in Deliveries, NEW k \in AttemptNumber, Succeed(e, k)
        PROVE  RowStep(r, a, delivery'[d], attempt'[d], now, W)
    <2>1. CASE e = d
      <3>1. /\ r.state = "leased" /\ r.lease_token = k
            /\ delivery'[d] = Released(r, "succeeded", r.next_attempt_at, now)
            /\ attempt'[d] = Closed(a, r.lease_token, "succeeded", now)
        BY <1>0, <1>3, <2>1 DEF Succeed, ActiveLease
      <3>2. CloseRow(r, a, delivery'[d], attempt'[d], now)
        BY <1>0, <3>1, RowTypes DEF CloseRow
      <3>3. QED
        BY <3>2 DEF RowStep
    <2>2. CASE e # d
      BY <1>0, <1>3, <2>2 DEF Succeed, RowStep
    <2>3. QED
      BY <2>1, <2>2
  <1>4. ASSUME NEW e \in Deliveries, NEW k \in AttemptNumber,
               NEW retryable \in BOOLEAN, NEW h \in RetryAfters,
               Fail(e, k, retryable, h)
        PROVE  RowStep(r, a, delivery'[d], attempt'[d], now, W)
    <2>1. CASE e = d
      <3> DEFINE oc == IF retryable THEN "retryable" ELSE "terminal"
      <3>1. /\ r.state = "leased" /\ r.lease_token = k
            /\ attempt'[d] = Closed(a, r.lease_token, oc, now)
        BY <1>0, <1>4, <2>1 DEF Fail, ActiveLease
      <3>2. PICK x \in ScheduledDelays(r.policy, k, h) :
              delivery'[d] = FailedRow(r, k, retryable, x, now)
        BY <1>0, <1>4, <2>1 DEF Fail
      <3>3. x \in Nat /\ r.next_attempt_at \in Nat /\ k = r.attempts_started
        BY <1>0, <3>1, DelayFacts, RowTypes, BoundAssumption DEF AttemptNumber, RowOK
      <3>4. oc \in {"retryable", "terminal"}
        OBVIOUS
      <3> HIDE DEF oc
      <3>5. \E st \in {"dead", "retry_wait"}, nx \in Nat :
              /\ delivery'[d] = Released(r, st, nx, now)
              /\ st = "retry_wait" => r.attempts_started < r.policy.max_attempts
        <4>1. CASE retryable /\ permits_retry(r.policy, k, r.created_at, now)
                   /\ now + x < Deadline(r)
          <5>1. /\ delivery'[d] = Released(r, "retry_wait", now + x, now)
                /\ now + x \in Nat
                /\ r.attempts_started < r.policy.max_attempts
            BY <1>0, <3>2, <3>3, <4>1 DEF FailedRow, permits_retry
          <5>2. QED
            BY <5>1
        <4>2. CASE retryable /\ permits_retry(r.policy, k, r.created_at, now)
                   /\ ~(now + x < Deadline(r))
          <5>1. delivery'[d] = Released(r, "dead", now, now)
            BY <3>2, <4>2 DEF FailedRow
          <5>2. QED
            BY <1>0, <5>1
        <4>3. CASE ~(retryable /\ permits_retry(r.policy, k, r.created_at, now))
          <5>1. delivery'[d] = Released(r, "dead", r.next_attempt_at, now)
            BY <3>2, <4>3 DEF FailedRow
          <5>2. QED
            BY <3>3, <5>1
        <4>4. QED
          BY <4>1, <4>2, <4>3
      <3>6. CloseRow(r, a, delivery'[d], attempt'[d], now)
        BY <3>1, <3>4, <3>5 DEF CloseRow
      <3>7. QED
        BY <3>6 DEF RowStep
    <2>2. CASE e # d
      BY <1>0, <1>4, <2>2 DEF Fail, RowStep
    <2>3. QED
      BY <2>1, <2>2
  <1>5. CASE ReconcileExpired
    <2>1. PICK R \in ReconcileRows :
            /\ delivery' = [e \in Deliveries |->
                              IF e \in R THEN ReconciledRow(delivery[e], now)
                                         ELSE delivery[e]]
            /\ attempt' = [e \in Deliveries |->
                             IF e \in R
                               THEN ReconciledAttempts(delivery[e], attempt[e], now)
                               ELSE attempt[e]]
      BY <1>5 DEF ReconcileExpired
    <2>2. CASE d \in R
      <3>1. LeaseExpired(d)
        BY <2>2 DEF ReconcileRows
      <3>2. attempt'[d] = Closed(a, r.lease_token, "abandoned", now)
        BY <2>1, <2>2, <3>1, RowReconciles
      <3>3. \E st \in {"dead", "retry_wait"} :
              /\ delivery'[d] = Released(r, st, now, now)
              /\ st = "retry_wait" => r.attempts_started < r.policy.max_attempts
        BY <2>1, <2>2 DEF ReconciledRow
      <3>4. CloseRow(r, a, delivery'[d], attempt'[d], now)
        BY <1>0, <3>1, <3>2, <3>3 DEF CloseRow, LeaseExpired
      <3>5. QED
        BY <3>4 DEF RowStep
    <2>3. CASE d \notin R
      BY <2>1, <2>3 DEF RowStep
    <2>4. QED
      BY <2>2, <2>3
  <1>6. ASSUME NEW source \in Deliveries, NEW e \in Deliveries,
               NEW at \in ApplicationClock, Replay(source, e, at)
        PROVE  RowStep(r, a, delivery'[d], attempt'[d], now, W)
    <2>1. at \in Nat /\ delivery[source].policy \in Policies
      BY <1>0, BoundAssumption, RowTypes DEF ApplicationClock
    <2>2. CASE e = d
      <3>1. /\ r.state = "absent" /\ attempt'[d] = a
            /\ delivery'[d] = PendingRow(delivery[source].policy, at, source)
        BY <1>0, <1>6, <2>2 DEF Replay
      <3>2. QED
        BY <2>1, <3>1 DEF RowStep, CreateRow
    <2>3. CASE e # d
      BY <1>0, <1>6, <2>3 DEF Replay, RowStep
    <2>4. QED
      BY <2>2, <2>3
  <1>7. CASE Tick \/ UNCHANGED vars
    BY <1>7 DEF Tick, vars, RowStep
  <1>8. QED
    BY <1>1, <1>2, <1>3, <1>4, <1>5, <1>6, <1>7 DEF Next

\* No row step rewrites a finished attempt, moves an open attempt's start or
\* drops an attempt.
LEMMA RowAppendOnly ==
  ASSUME NEW r \in DeliveryRow, NEW a \in Attempts, NEW t \in Nat, RowOK(r, a, t),
         NEW q, NEW b, RowStep(r, a, q, b, t, Racing), NEW k \in AttemptNumber
  PROVE  /\ a[k].outcome \notin {"absent", "started"} => b[k] = a[k]
         /\ a[k].outcome = "started" =>
              b[k].outcome # "absent" /\ b[k].started_at = a[k].started_at
  <1>1. CASE b = a
    BY <1>1
  <1>2. CASE ClaimRow(r, a, q, b, Racing)
    <2>1. PICK c \in Nat : b = ClaimedAttempts(r, a, c)
      BY <1>2 DEF ClaimRow
    <2>2. r.attempts_started + 1 \in AttemptNumber
      BY <1>2, RowTypes, BoundAssumption DEF ClaimRow, AttemptNumber
    <2>3. a[r.attempts_started + 1].outcome = "absent"
      BY <2>2, RowTypes DEF RowOK, AttemptNumber
    <2>4. k # r.attempts_started + 1 => b[k] = a[k]
      BY <2>1, <2>2 DEF ClaimedAttempts, Attempts
    <2>5. QED
      BY <2>3, <2>4
  <1>3. CASE CloseRow(r, a, q, b, t)
    <2>1. PICK oc \in {"succeeded", "retryable", "terminal", "abandoned"} :
            r.state = "leased" /\ b = Closed(a, r.lease_token, oc, t)
      BY <1>3 DEF CloseRow
    <2>2. r.lease_token \in AttemptNumber /\ a[r.lease_token].outcome = "started"
      BY <2>1 DEF RowOK
    <2>3. /\ b[r.lease_token] = [outcome |-> oc, finished_at |-> t,
                                 started_at |-> a[r.lease_token].started_at]
          /\ k # r.lease_token => b[k] = a[k]
      BY <2>1, <2>2 DEF Closed, Attempts
    <2>4. QED
      BY <2>2, <2>3
  <1>4. QED
    BY <1>1, <1>2, <1>3 DEF RowStep, CreateRow

\* No row step removes a row or rewrites its snapshot.
LEMMA RowSnapshotKept ==
  ASSUME NEW r \in DeliveryRow, NEW a, NEW t, NEW q, NEW b,
         RowStep(r, a, q, b, t, Racing), r.state # "absent"
  PROVE  RowKept(r, q)
  <1>1. CASE ClaimRow(r, a, q, b, Racing)
    <2>1. PICK c \in Nat : q = ClaimedRow(r, c)
      BY <1>1 DEF ClaimRow
    <2>2. QED
      BY <2>1 DEF ClaimedRow, DeliveryRow, RowKept
  <1>2. CASE CloseRow(r, a, q, b, t)
    <2>1. PICK st \in {"succeeded", "dead", "retry_wait"}, nx \in Nat :
            q = Released(r, st, nx, t)
      BY <1>2 DEF CloseRow
    <2>2. QED
      BY <2>1 DEF Released, DeliveryRow, RowKept
  <1>3. QED
    BY <1>1, <1>2 DEF RowStep, CreateRow, RowKept

\* The database clock never runs backwards.
LEMMA ClockStep ==
  ASSUME CoreInv, [Next]_vars
  PROVE  now \in Nat /\ now' \in Nat /\ now <= now'
  <1>1. now \in Nat
    BY DEF CoreInv, TypeOK
  <1>2. QED
    BY <1>1 DEF Next, Publish, Replay, ClaimStep, ClaimSelect, ClaimLockRow,
                ClaimStamp, ClaimCommit, ClaimAbort, Succeed, Fail,
                ReconcileExpired, Tick, vars

\* When the time of attempt k is up, from the policy snapshot and its start.
CutOf(row, attempts, k) ==
  attempt_deadline(row.policy, row.created_at, attempts[k].started_at,
                   attempts[k].started_at + row.policy.lease_duration)

\* An attempt's deadline is a time no later than the end of its lease.
LEMMA CutFacts ==
  ASSUME CoreInv, NEW d \in Deliveries, NEW k \in AttemptNumber
  PROVE  /\ CutOf(delivery[d], attempt[d], k) \in Nat
         /\ CutOf(delivery[d], attempt[d], k) <=
              attempt[d][k].started_at + delivery[d].policy.handler_timeout
         /\ CutOf(delivery[d], attempt[d], k) <=
              attempt[d][k].started_at + delivery[d].policy.lease_duration
         /\ attempt[d][k].started_at \in Nat
         /\ delivery[d].policy.handler_timeout \in Nat
         /\ delivery[d].policy.lease_duration \in Nat
  <1> DEFINE p == delivery[d].policy
             c == delivery[d].created_at
             a == attempt[d][k].started_at
  <1>1. p \in Policies /\ c \in Nat /\ a \in Nat
    BY RowTypes DEF CoreInv, TypeOK, AttemptRow
  <1>2. p.maximum_elapsed \in Nat /\ p.handler_timeout \in Nat /\ p.lease_duration \in Nat
    BY <1>1, PolicyFacts
  <1>3. CutOf(delivery[d], attempt[d], k) = attempt_deadline(p, c, a, a + p.lease_duration)
    BY DEF CutOf
  <1> HIDE DEF p, c, a
  <1>4. /\ attempt_deadline(p, c, a, a + p.lease_duration) \in Nat
        /\ attempt_deadline(p, c, a, a + p.lease_duration) <= a + p.handler_timeout
        /\ attempt_deadline(p, c, a, a + p.lease_duration) <= a + p.lease_duration
    BY <1>1, <1>2 DEF attempt_deadline, delivery_deadline, Least
  <1>5. QED
    BY <1>1, <1>2, <1>3, <1>4 DEF p, c, a

\* Nothing moves the start or the deadline of an attempt that exists.
LEMMA CutKept ==
  ASSUME CoreInv, [Next]_vars, NEW d \in Deliveries, NEW k \in AttemptNumber,
         attempt[d][k].outcome # "absent"
  PROVE  /\ CutOf(delivery'[d], attempt'[d], k) = CutOf(delivery[d], attempt[d], k)
         /\ attempt'[d][k].outcome # "absent"
         /\ attempt'[d][k].started_at = attempt[d][k].started_at
         /\ RowKept(delivery[d], delivery'[d])
  <1>1. RowStep(delivery[d], attempt[d], delivery'[d], attempt'[d], now, Racing)
    BY StepRows
  <1>2. /\ delivery[d] \in DeliveryRow /\ attempt[d] \in Attempts /\ now \in Nat
        /\ RowOK(delivery[d], attempt[d], now)
    BY DEF CoreInv, TypeOK, Attempts
  <1>3. /\ attempt'[d][k].outcome # "absent"
        /\ attempt'[d][k].started_at = attempt[d][k].started_at
    BY <1>1, <1>2, RowAppendOnly
  <1>4. delivery[d].state # "absent"
    BY <1>2 DEF RowOK, AttemptNumber
  <1>5. RowKept(delivery[d], delivery'[d])
    BY <1>1, <1>2, <1>4, RowSnapshotKept
  <1>6. QED
    BY <1>3, <1>5 DEF CutOf, RowKept

\* The attempt history is append-only under any number of racing claimers.
THEOREM HistoryAppendOnly == Spec => AttemptsAppendOnly
  <1> DEFINE Step ==
        \A d \in Deliveries, k \in AttemptNumber :
          /\ attempt[d][k].outcome \notin {"absent", "started"} =>
               attempt'[d][k] = attempt[d][k]
          /\ attempt[d][k].outcome = "started" =>
               /\ attempt'[d][k].outcome # "absent"
               /\ attempt'[d][k].started_at = attempt[d][k].started_at
  <1>1. CoreInv /\ [Next]_vars => Step
    <2> SUFFICES ASSUME CoreInv, [Next]_vars,
                        NEW d \in Deliveries, NEW k \in AttemptNumber
                 PROVE  /\ attempt[d][k].outcome \notin {"absent", "started"} =>
                             attempt'[d][k] = attempt[d][k]
                        /\ attempt[d][k].outcome = "started" =>
                             /\ attempt'[d][k].outcome # "absent"
                             /\ attempt'[d][k].started_at = attempt[d][k].started_at
      OBVIOUS
    <2>1. RowStep(delivery[d], attempt[d], delivery'[d], attempt'[d], now, Racing)
      BY StepRows
    <2>2. /\ delivery[d] \in DeliveryRow /\ attempt[d] \in Attempts /\ now \in Nat
          /\ RowOK(delivery[d], attempt[d], now)
      BY DEF CoreInv, TypeOK, Attempts
    <2>3. QED
      BY <2>1, <2>2, RowAppendOnly
  <1>2. CoreInv /\ [Next]_vars => [Step]_vars
    BY <1>1
  <1>3. QED
    BY <1>2, CoreInvariant, PTL DEF Spec, AttemptsAppendOnly

-----------------------------------------------------------------------------
(* What the operations do to outcomes; used by the components that call them. *)

\* A finalization that changes the ledger carries the token of a lease, hence
\* the number of an attempt.
LEMMA LeaseTokens ==
  ASSUME CoreInv, NEW d \in Deliveries, NEW k, ActiveLease(d, k)
  PROVE  k \in AttemptNumber
  BY DEF CoreInv, RowOK, ActiveLease

\* The time left of an attempt is never negative.
LEMMA TimeLeftNat ==
  ASSUME CoreInv, NEW d \in Deliveries, NEW k \in AttemptNumber, NEW reading \in Nat
  PROVE  /\ now \in Nat
         /\ remaining_attempt(delivery[d].policy, delivery[d].created_at,
              attempt[d][k].started_at,
              attempt[d][k].started_at + delivery[d].policy.lease_duration,
              reading) \in Nat
  <1> DEFINE p == delivery[d].policy
             c == delivery[d].created_at
             a == attempt[d][k].started_at
  <1>1. now \in Nat /\ p \in Policies /\ c \in Nat /\ a \in Nat
    BY RowTypes DEF CoreInv, TypeOK, AttemptRow
  <1>2. p.maximum_elapsed \in Nat /\ p.handler_timeout \in Nat /\ p.lease_duration \in Nat
    BY <1>1, PolicyFacts
  <1> HIDE DEF p, c, a
  <1>3. attempt_deadline(p, c, a, a + p.lease_duration) \in Nat
    BY <1>1, <1>2 DEF attempt_deadline, delivery_deadline, Least
  <1>4. remaining_attempt(p, c, a, a + p.lease_duration, reading) \in Nat
    BY <1>1, <1>3 DEF remaining_attempt
  <1>5. QED
    BY <1>1, <1>4 DEF p, c, a

\* No attempt is newly recorded as succeeded, except attempt j of delivery e.
SucceedsOnly(e, j) ==
  \A d \in Deliveries, k \in AttemptNumber :
    attempt'[d][k].outcome = "succeeded" =>
      attempt[d][k].outcome = "succeeded" \/ (d = e /\ k = j)

NoneSucceeds ==
  \A d \in Deliveries, k \in AttemptNumber :
    attempt'[d][k].outcome = "succeeded" => attempt[d][k].outcome = "succeeded"

\* Closing an attempt changes no other attempt.
LEMMA ClosedOutcomes ==
  ASSUME NEW a \in Attempts, NEW j \in AttemptNumber, NEW oc, NEW t,
         NEW k \in AttemptNumber
  PROVE  /\ k = j => Closed(a, j, oc, t)[k].outcome = oc
         /\ k # j => Closed(a, j, oc, t)[k] = a[k]
  BY DEF Closed, Attempts

\* Only succeed records a success.
LEMMA LedgerSuccess ==
  ASSUME CoreInv
  PROVE  /\ \A s \in Sessions : ClaimStep(s) => NoneSucceeds
         /\ ReconcileExpired => NoneSucceeds
         /\ \A d \in Deliveries : \A j, retryable, h :
              Fail(d, j, retryable, h) => NoneSucceeds
         /\ \A d \in Deliveries : \A j : Succeed(d, j) => SucceedsOnly(d, j)
         /\ UNCHANGED attempt => NoneSucceeds
  <1>1. /\ attempt \in [Deliveries -> Attempts]
        /\ \A d \in Deliveries : delivery[d].state = "leased" =>
             delivery[d].lease_token \in AttemptNumber
    BY DEF CoreInv, TypeOK, Attempts, RowOK
  <1>2. ASSUME NEW s \in Sessions, ClaimCommit(s)
        PROVE  NoneSucceeds
    <2>1. ASSUME NEW d \in Deliveries, NEW k \in AttemptNumber,
                 attempt'[d][k].outcome = "succeeded"
          PROVE  attempt[d][k].outcome = "succeeded"
      <3>1. attempt'[d] = attempt[d] \/
            attempt'[d] = [attempt[d] EXCEPT ![delivery[d].attempts_started + 1] =
              [outcome |-> "started", started_at |-> tx[s].effective_now,
               finished_at |-> 0]]
        BY <1>2 DEF ClaimCommit, ClaimedAttempts
      <3>2. QED
        BY <1>1, <2>1, <3>1 DEF Attempts
    <2>2. QED
      BY <2>1 DEF NoneSucceeds
  <1>3. ASSUME NEW s \in Sessions, ClaimStep(s)
        PROVE  NoneSucceeds
    BY <1>2, <1>3 DEF ClaimStep, ClaimSelect, ClaimLockRow, ClaimStamp,
                      ClaimAbort, NoneSucceeds
  <1>4. ASSUME ReconcileExpired
        PROVE  NoneSucceeds
    <2>1. ASSUME NEW d \in Deliveries, NEW k \in AttemptNumber,
                 attempt'[d][k].outcome = "succeeded"
          PROVE  attempt[d][k].outcome = "succeeded"
      <3>1. \/ attempt'[d] = attempt[d]
            \/ /\ delivery[d].state = "leased"
               /\ attempt'[d] =
                    Closed(attempt[d], delivery[d].lease_token, "abandoned", now)
        BY <1>4 DEF ReconcileExpired, ReconcileRows, LeaseExpired, ReconciledAttempts
      <3>2. QED
        BY <1>1, <2>1, <3>1, ClosedOutcomes
    <2>2. QED
      BY <2>1 DEF NoneSucceeds
  <1>5. ASSUME NEW d \in Deliveries, NEW j, NEW retryable, NEW h,
               Fail(d, j, retryable, h)
        PROVE  NoneSucceeds
    <2>1. j \in AttemptNumber
      BY <1>5, LeaseTokens DEF Fail
    <2>2. attempt' = [attempt EXCEPT ![d] =
            Closed(attempt[d], j, IF retryable THEN "retryable" ELSE "terminal", now)]
      BY <1>5 DEF Fail
    <2>3. ASSUME NEW e \in Deliveries, NEW k \in AttemptNumber
          PROVE  attempt'[e][k] = attempt[e][k] \/ attempt'[e][k].outcome # "succeeded"
      <3>1. CASE e = d
        BY <1>1, <2>1, <2>2, <3>1, ClosedOutcomes
      <3>2. CASE e # d
        BY <1>1, <2>2, <3>2
      <3>3. QED
        BY <3>1, <3>2
    <2>4. QED
      BY <2>3 DEF NoneSucceeds
  <1>6. ASSUME NEW d \in Deliveries, NEW j, Succeed(d, j)
        PROVE  SucceedsOnly(d, j)
    <2>1. j \in AttemptNumber
      BY <1>6, LeaseTokens DEF Succeed
    <2>2. attempt' = [attempt EXCEPT ![d] = Closed(attempt[d], j, "succeeded", now)]
      BY <1>6 DEF Succeed
    <2>3. ASSUME NEW e \in Deliveries, NEW k \in AttemptNumber
          PROVE  attempt'[e][k] = attempt[e][k] \/ (e = d /\ k = j)
      BY <1>1, <2>1, <2>2, ClosedOutcomes
    <2>4. QED
      BY <2>3 DEF SucceedsOnly
  <1>7. QED
    BY <1>3, <1>4, <1>5, <1>6 DEF NoneSucceeds

-----------------------------------------------------------------------------
(* Serialized claims: at most one session runs claim at a time.              *)

Serialized == \A s, u \in Sessions : s = u

SerialRow(row, attempts) ==
  /\ row.attempts_started <= row.policy.max_attempts
  /\ row.state = "retry_wait" => row.attempts_started < row.policy.max_attempts
  /\ row.state = "pending" => row.attempts_started = 0
  /\ \A k \in AttemptNumber :
       /\ attempts[k].outcome = "started" =>
            row.state = "leased" /\ row.lease_token = k
       /\ attempts[k].outcome = "succeeded" <=>
            row.state = "succeeded" /\ k = row.attempts_started

SerialInv ==
  /\ CoreInv
  /\ \A d \in Deliveries : SerialRow(delivery[d], attempt[d])
  /\ HoldsWaiting
  /\ ReplayLineage

\* A row step of a serialized claimer keeps the attempt budget, the single open
\* attempt and the unique success.
LEMMA RowSerial ==
  ASSUME NEW r \in DeliveryRow, NEW a \in Attempts, NEW t \in Nat, RowOK(r, a, t),
         SerialRow(r, a),
         NEW q, NEW b, RowStep(r, a, q, b, t, Waiting)
  PROVE  SerialRow(q, b)
  <1>0. /\ r.attempts_started \in Nat /\ r.policy.max_attempts \in Nat
        /\ r.policy.max_attempts > 0 /\ r.policy \in Policies
    BY RowTypes, PolicyFacts DEF Token
  <1>1. CASE q = r /\ b = a
    BY <1>1
  <1>2. CASE CreateRow(r, a, q, b)
    <2>1. PICK p \in Policies, c \in Nat, o \in Deliveries \cup {None} :
            q = PendingRow(p, c, o)
      BY <1>2 DEF CreateRow
    <2>2. b = a /\ \A k \in AttemptNumber : a[k].outcome = "absent"
      BY <1>2 DEF CreateRow, RowOK, AttemptNumber
    <2>3. /\ q.state = "pending" /\ q.attempts_started = 0 /\ q.policy = p
      BY <2>1 DEF PendingRow
    <2>4. QED
      BY <2>2, <2>3, PolicyFacts DEF SerialRow
  <1>3. CASE ClaimRow(r, a, q, b, Waiting)
    <2>1. PICK c \in Nat : q = ClaimedRow(r, c) /\ b = ClaimedAttempts(r, a, c)
      BY <1>3 DEF ClaimRow
    <2> DEFINE n == r.attempts_started + 1
    <2>2. n \in AttemptNumber /\ r.state \in Waiting
      BY <1>3, RowTypes, BoundAssumption DEF ClaimRow, AttemptNumber
    <2>3. \A k \in AttemptNumber : a[k].outcome \notin {"started", "succeeded"}
      BY <2>2 DEF SerialRow, Waiting
    <2>4. CASE Expired(r, c)
      <3>1. /\ q.state = "dead" /\ q.attempts_started = r.attempts_started
            /\ q.policy = r.policy /\ b = a
        BY <2>1, <2>4 DEF ClaimedRow, ClaimedAttempts, DeliveryRow
      <3>2. QED
        BY <2>3, <3>1 DEF SerialRow
    <2>5. CASE ~Expired(r, c)
      <3>1. /\ q.state = "leased" /\ q.attempts_started = n /\ q.lease_token = n
            /\ q.policy = r.policy
        BY <2>1, <2>5 DEF ClaimedRow, DeliveryRow
      <3>2. /\ b[n].outcome = "started"
            /\ \A k \in AttemptNumber : k # n => b[k] = a[k]
        BY <2>1, <2>2, <2>5 DEF ClaimedAttempts, Attempts
      <3>3. n <= r.policy.max_attempts
        BY <1>0, <2>2 DEF SerialRow, Waiting
      <3>4. QED
        BY <2>3, <3>1, <3>2, <3>3 DEF SerialRow
    <2>6. QED
      BY <2>4, <2>5
  <1>4. CASE CloseRow(r, a, q, b, t)
    <2>1. PICK oc \in {"succeeded", "retryable", "terminal", "abandoned"},
               st \in {"succeeded", "dead", "retry_wait"}, nx \in Nat :
            /\ r.state = "leased"
            /\ oc = "succeeded" <=> st = "succeeded"
            /\ st = "retry_wait" => r.attempts_started < r.policy.max_attempts
            /\ q = Released(r, st, nx, t)
            /\ b = Closed(a, r.lease_token, oc, t)
      BY <1>4 DEF CloseRow
    <2>2. r.lease_token \in AttemptNumber /\ r.lease_token = r.attempts_started
      BY <2>1 DEF RowOK
    <2>3. /\ q.state = st /\ q.attempts_started = r.attempts_started
          /\ q.policy = r.policy
      BY <2>1 DEF Released, DeliveryRow
    <2>4. /\ b[r.lease_token].outcome = oc
          /\ \A k \in AttemptNumber : k # r.lease_token => b[k] = a[k]
      BY <2>1, <2>2 DEF Closed, Attempts
    <2>5. \A k \in AttemptNumber :
            k # r.lease_token => a[k].outcome \notin {"started", "succeeded"}
      BY <2>1 DEF SerialRow
    <2>6. \A k \in AttemptNumber :
            /\ b[k].outcome # "started"
            /\ b[k].outcome = "succeeded" <=> st = "succeeded" /\ k = r.lease_token
      BY <2>1, <2>4, <2>5
    <2>7. QED
      BY <1>0, <2>1, <2>2, <2>3, <2>6 DEF SerialRow
  <1>5. QED
    BY <1>1, <1>2, <1>3, <1>4 DEF RowStep

\* A row step keeps the snapshot of an existing row, and serialized claimers
\* leave a terminal row exactly as it was.
LEMMA RowStepKeeps ==
  ASSUME NEW r \in DeliveryRow, NEW a, NEW t \in Nat, NEW q, NEW b,
         RowStep(r, a, q, b, t, Waiting), r.state # "absent"
  PROVE  /\ q.policy = r.policy /\ q.replay_of = r.replay_of
         /\ r.state \in Terminal => q = r /\ b = a
  <1>1. CASE q = r /\ b = a
    BY <1>1
  <1>2. CASE ClaimRow(r, a, q, b, Waiting)
    <2>1. PICK c \in Nat : q = ClaimedRow(r, c)
      BY <1>2 DEF ClaimRow
    <2>2. q.policy = r.policy /\ q.replay_of = r.replay_of
      BY <2>1 DEF ClaimedRow, DeliveryRow
    <2>3. QED
      BY <1>2, <2>2 DEF ClaimRow, Waiting, Terminal
  <1>3. CASE CloseRow(r, a, q, b, t)
    <2>1. PICK st \in {"succeeded", "dead", "retry_wait"}, nx \in Nat :
            r.state = "leased" /\ q = Released(r, st, nx, t)
      BY <1>3 DEF CloseRow
    <2>2. q.policy = r.policy /\ q.replay_of = r.replay_of
      BY <2>1 DEF Released, DeliveryRow
    <2>3. QED
      BY <2>1, <2>2 DEF Terminal
  <1>4. QED
    BY <1>1, <1>2, <1>3 DEF RowStep, CreateRow

\* No other session holds a row when a claim commits.
CommitsAlone ==
  \A s \in Sessions : ClaimCommit(s) =>
    \A u \in Sessions \ {s} : tx[u].selected \cup tx[u].locked = {}

\* The rows claimers selected or locked stay waiting until they commit if
\* claims do not overlap: no other operation touches a pending or retry_wait row.
LEMMA HoldsWaitingStep ==
  ASSUME CommitsAlone, CoreInv, HoldsWaiting, [Next]_vars
  PROVE  HoldsWaiting'
  <1>0. /\ tx \in [Sessions -> ClaimTx]
        /\ \A s \in Sessions : tx[s].selected \cup tx[s].locked \subseteq Deliveries
    BY DEF CoreInv, TypeOK, ClaimTx
  <1>1. ASSUME NEW s \in Sessions, ClaimStep(s) PROVE HoldsWaiting'
    <2>1. \A u \in Sessions \ {s} : tx'[u] = tx[u]
      BY <1>0, <1>1 DEF ClaimStep, ClaimSelect, ClaimLockRow, ClaimStamp,
                        ClaimCommit, ClaimAbort
    <2>2. CASE ClaimCommit(s)
      <3>1. tx'[s] = NoTx
        BY <1>0, <2>2 DEF ClaimCommit
      <3>2. \A u \in Sessions : tx'[u].selected \cup tx'[u].locked = {}
        BY <2>1, <2>2, <3>1 DEF CommitsAlone, NoTx
      <3>3. QED
        BY <3>2 DEF HoldsWaiting
    <2>3. CASE ClaimSelect(s)
      <3>1. PICK C \in RankedCandidates :
              tx'[s].selected = C /\ tx'[s].locked = {}
        BY <1>0, <2>3 DEF ClaimSelect
      <3>2. \A d \in C : delivery[d].state \in Waiting
        BY DEF RankedCandidates, Claimable
      <3>3. delivery' = delivery
        BY <2>3 DEF ClaimSelect
      <3>4. QED
        BY <2>1, <3>1, <3>2, <3>3 DEF HoldsWaiting
    <2>4. ASSUME NEW e \in Deliveries, NEW skipped \in BOOLEAN,
               ClaimLockRow(s, e, skipped)
        PROVE  HoldsWaiting'
      <3>1. /\ tx'[s].selected \subseteq tx[s].selected
            /\ tx'[s].locked \subseteq tx[s].locked \cup {e}
            /\ e \in tx[s].selected /\ delivery' = delivery
        BY <1>0, <2>4 DEF ClaimLockRow, NextCandidate
      <3>2. QED
        BY <2>1, <3>1 DEF HoldsWaiting
    <2>5. CASE ClaimStamp(s)
      <3>1. tx'[s].selected = {} /\ tx'[s].locked = tx[s].locked /\ delivery' = delivery
        BY <1>0, <2>5 DEF ClaimStamp
      <3>2. QED
        BY <2>1, <3>1 DEF HoldsWaiting
    <2>6. CASE ClaimAbort(s)
      <3>1. tx'[s] = NoTx /\ delivery' = delivery
        BY <1>0, <2>6 DEF ClaimAbort
      <3>2. QED
        BY <2>1, <3>1 DEF HoldsWaiting, NoTx
    <2>7. QED
      BY <1>1, <2>2, <2>3, <2>4, <2>5, <2>6 DEF ClaimStep
  <1>2. ASSUME tx' = tx,
               \A d \in Deliveries :
                 delivery[d].state \in Waiting => delivery'[d] = delivery[d]
        PROVE  HoldsWaiting'
    BY <1>0, <1>2 DEF HoldsWaiting
  <1>3. ASSUME NEW ds \in SUBSET Deliveries, NEW at \in ApplicationClock,
               NEW policyOf \in [ds -> Policies], Publish(ds, policyOf, at)
        PROVE  HoldsWaiting'
    <2>1. /\ tx' = tx
          /\ \A d \in Deliveries :
               delivery[d].state \in Waiting => delivery'[d] = delivery[d]
      BY <1>3 DEF Publish, Waiting
    <2>2. QED
      BY <1>2, <2>1
  <1>4. ASSUME NEW e \in Deliveries, NEW k \in AttemptNumber, Succeed(e, k)
        PROVE  HoldsWaiting'
    <2>1. /\ tx' = tx
          /\ \A d \in Deliveries :
               delivery[d].state \in Waiting => delivery'[d] = delivery[d]
      BY <1>4 DEF Succeed, ActiveLease, Waiting, CoreInv, TypeOK
    <2>2. QED
      BY <1>2, <2>1
  <1>5. ASSUME NEW e \in Deliveries, NEW k \in AttemptNumber,
               NEW retryable \in BOOLEAN, NEW h \in RetryAfters,
               Fail(e, k, retryable, h)
        PROVE  HoldsWaiting'
    <2>1. /\ tx' = tx
          /\ \A d \in Deliveries :
               delivery[d].state \in Waiting => delivery'[d] = delivery[d]
      BY <1>5 DEF Fail, ActiveLease, Waiting, CoreInv, TypeOK
    <2>2. QED
      BY <1>2, <2>1
  <1>6. CASE ReconcileExpired
    <2>1. PICK R \in ReconcileRows :
            delivery' = [d \in Deliveries |->
                           IF d \in R THEN ReconciledRow(delivery[d], now)
                                      ELSE delivery[d]]
      BY <1>6 DEF ReconcileExpired
    <2>2. \A d \in R : delivery[d].state = "leased"
      BY DEF ReconcileRows, LeaseExpired
    <2>3. /\ tx' = tx
          /\ \A d \in Deliveries :
               delivery[d].state \in Waiting => delivery'[d] = delivery[d]
      BY <1>6, <2>1, <2>2 DEF ReconcileExpired, Waiting
    <2>4. QED
      BY <1>2, <2>3
  <1>7. ASSUME NEW source \in Deliveries, NEW e \in Deliveries,
               NEW at \in ApplicationClock, Replay(source, e, at)
        PROVE  HoldsWaiting'
    <2>1. /\ tx' = tx
          /\ \A d \in Deliveries :
               delivery[d].state \in Waiting => delivery'[d] = delivery[d]
      BY <1>7 DEF Replay, Waiting, CoreInv, TypeOK
    <2>2. QED
      BY <1>2, <2>1
  <1>8. CASE Tick \/ UNCHANGED vars
    <2>1. tx' = tx /\ delivery' = delivery
      BY <1>8 DEF Tick, vars
    <2>2. QED
      BY <1>2, <2>1
  <1>9. QED
    BY <1>1, <1>3, <1>4, <1>5, <1>6, <1>7, <1>8 DEF Next

\* While claimers hold only waiting rows, nobody but the holder of a live lease
\* touches its delivery.
LEMMA LiveLeaseKept ==
  ASSUME CoreInv, HoldsWaiting, NEW e \in Deliveries,
         delivery[e].state = "leased", delivery[e].lease_expires_at > now,
         \/ \E ds \in SUBSET Deliveries, at \in ApplicationClock :
              \E policyOf \in [ds -> Policies] : Publish(ds, policyOf, at)
         \/ \E source, d \in Deliveries, at \in ApplicationClock : Replay(source, d, at)
         \/ \E s \in Sessions : ClaimStep(s)
         \/ ReconcileExpired \/ Tick \/ UNCHANGED vars
  PROVE  delivery'[e] = delivery[e]
  <1>0. /\ delivery \in [Deliveries -> DeliveryRow] /\ now \in Nat
        /\ delivery[e].lease_expires_at \in Nat
    BY RowTypes DEF CoreInv, TypeOK
  <1>1. ASSUME NEW ds \in SUBSET Deliveries, NEW at \in ApplicationClock,
               NEW policyOf \in [ds -> Policies], Publish(ds, policyOf, at)
        PROVE  delivery'[e] = delivery[e]
    BY <1>1 DEF Publish
  <1>2. ASSUME NEW source \in Deliveries, NEW d \in Deliveries,
               NEW at \in ApplicationClock, Replay(source, d, at)
        PROVE  delivery'[e] = delivery[e]
    BY <1>0, <1>2 DEF Replay
  <1>3. ASSUME NEW s \in Sessions, ClaimStep(s)
        PROVE  delivery'[e] = delivery[e]
    <2>1. e \notin tx[s].locked
      BY DEF HoldsWaiting, Waiting
    <2>2. QED
      BY <1>3, <2>1 DEF ClaimStep, ClaimSelect, ClaimLockRow, ClaimStamp,
                        ClaimCommit, ClaimAbort
  <1>4. CASE ReconcileExpired
    <2>1. PICK R \in ReconcileRows :
            delivery' = [d \in Deliveries |->
                           IF d \in R THEN ReconciledRow(delivery[d], now)
                                      ELSE delivery[d]]
      BY <1>4 DEF ReconcileExpired
    <2>2. e \notin R
      BY <1>0 DEF ReconcileRows, LeaseExpired
    <2>3. QED
      BY <2>1, <2>2
  <1>5. CASE Tick \/ UNCHANGED vars
    BY <1>5 DEF Tick, vars
  <1>6. QED
    BY <1>1, <1>2, <1>3, <1>4, <1>5

\* Replays keep pointing at an unchanged terminal row with their snapshot.
LEMMA LineageStep ==
  ASSUME SerialInv, [Next]_vars
  PROVE  ReplayLineage'
  <1> SUFFICES ASSUME NEW d \in Deliveries, delivery'[d].replay_of # None
               PROVE  LET source == delivery'[d].replay_of
                      IN  /\ source # d
                          /\ delivery'[source].state \in Terminal
                          /\ TenantOf[source] = TenantOf[d]
                          /\ delivery'[source].policy = delivery'[d].policy
    BY DEF ReplayLineage
  <1>1. /\ now \in Nat /\ delivery \in [Deliveries -> DeliveryRow]
        /\ \A e \in Deliveries : RowStep(delivery[e], attempt[e], delivery'[e],
                                         attempt'[e], now, Waiting)
    BY StepRows DEF SerialInv, CoreInv, TypeOK
  <1>2. ASSUME NEW e \in Deliveries, delivery[e].state \in Terminal
        PROVE  delivery'[e] = delivery[e]
    BY <1>1, <1>2, RowStepKeeps DEF Terminal
  <1>3. CASE delivery[d].state # "absent"
    <2> DEFINE source == delivery[d].replay_of
    <2>1. delivery'[d].policy = delivery[d].policy /\ delivery'[d].replay_of = source
      BY <1>1, <1>3, RowStepKeeps
    <2>2. /\ source # d /\ delivery[source].state \in Terminal
          /\ TenantOf[source] = TenantOf[d]
          /\ delivery[source].policy = delivery[d].policy
      BY <2>1 DEF SerialInv, ReplayLineage
    <2>3. source \in Deliveries
      BY <1>1, <2>1, RowTypes
    <2>4. QED
      BY <1>2, <2>1, <2>2, <2>3
  <1>4. CASE delivery[d].state = "absent" /\ delivery'[d] = delivery[d]
    <2> DEFINE source == delivery[d].replay_of
    <2>1. /\ source # d /\ delivery[source].state \in Terminal
          /\ TenantOf[source] = TenantOf[d]
          /\ delivery[source].policy = delivery[d].policy
      BY <1>4 DEF SerialInv, ReplayLineage
    <2>2. source \in Deliveries
      BY <1>1, <1>4, RowTypes
    <2>3. QED
      BY <1>2, <1>4, <2>1, <2>2
  <1>5. CASE delivery[d].state = "absent" /\ delivery'[d] # delivery[d]
    <2>1. PICK source \in Deliveries, e \in Deliveries, at \in ApplicationClock :
            Replay(source, e, at)
      <3>1. ASSUME NEW ds \in SUBSET Deliveries, NEW at \in ApplicationClock,
                   NEW policyOf \in [ds -> Policies], Publish(ds, policyOf, at)
            PROVE  FALSE
        <4>1. delivery'[d] = PendingRow(policyOf[d], at, None)
          BY <1>5, <3>1 DEF Publish
        <4>2. QED
          BY <4>1 DEF PendingRow
      <3>2. \A k \in AttemptNumber, x \in Deliveries : ~Succeed(x, k)
        BY <1>1, <1>5 DEF Succeed, ActiveLease
      <3>3. \A k \in AttemptNumber, x \in Deliveries, y \in BOOLEAN, h \in RetryAfters :
              ~Fail(x, k, y, h)
        BY <1>1, <1>5 DEF Fail, ActiveLease
      <3>4. ~ReconcileExpired
        BY <1>5 DEF ReconcileExpired, ReconcileRows, LeaseExpired
      <3>5. ASSUME NEW s \in Sessions, ClaimStep(s) PROVE FALSE
        <4>1. d \notin tx[s].locked
          BY <1>5 DEF SerialInv, CoreInv, TxOK
        <4>2. QED
          BY <1>5, <3>5, <4>1
          DEF ClaimStep, ClaimSelect, ClaimLockRow, ClaimStamp, ClaimCommit,
              ClaimAbort
      <3>6. ~(Tick \/ UNCHANGED vars)
        BY <1>5 DEF Tick, vars
      <3>7. QED
        BY <3>1, <3>2, <3>3, <3>4, <3>5, <3>6 DEF Next
    <2>2. e = d /\ delivery'[d] = PendingRow(delivery[source].policy, at, source)
      BY <1>1, <1>5, <2>1 DEF Replay
    <2>3. /\ delivery[source].state \in Terminal /\ TenantOf[source] = TenantOf[d]
          /\ delivery'[source] = delivery[source]
      BY <1>2, <2>1, <2>2 DEF Replay
    <2>4. /\ delivery'[d].replay_of = source
          /\ delivery'[d].policy = delivery[source].policy
      BY <2>2 DEF PendingRow
    <2>5. source # d
      BY <1>5, <2>3 DEF Terminal
    <2>6. QED
      BY <2>3, <2>4, <2>5
  <1>6. QED
    BY <1>3, <1>4, <1>5

\* SerialInv is inductive when claims are serialized.
LEMMA NextSerial ==
  ASSUME Serialized
  PROVE  SerialInv /\ [Next]_vars => SerialInv'
  <1> SUFFICES ASSUME SerialInv, [Next]_vars PROVE SerialInv'
    OBVIOUS
  <1>1. CoreInv'
    BY NextCore DEF SerialInv
  <1>2. ASSUME NEW d \in Deliveries PROVE SerialRow(delivery[d], attempt[d])'
    <2>1. /\ delivery[d] \in DeliveryRow /\ attempt[d] \in Attempts /\ now \in Nat
          /\ RowOK(delivery[d], attempt[d], now)
          /\ SerialRow(delivery[d], attempt[d])
      BY DEF SerialInv, CoreInv, TypeOK, Attempts
    <2>2. RowStep(delivery[d], attempt[d], delivery'[d], attempt'[d], now, Waiting)
      BY StepRows DEF SerialInv
    <2>3. SerialRow(delivery'[d], attempt'[d])
      BY <2>1, <2>2, RowSerial
    <2>4. QED
      BY <2>3 DEF SerialRow
  <1>3. HoldsWaiting'
    <2>1. CommitsAlone
      BY DEF CommitsAlone, Serialized
    <2>2. QED
      BY <2>1, HoldsWaitingStep DEF SerialInv
  <1>4. ReplayLineage'
    BY LineageStep
  <1>5. QED
    BY <1>1, <1>2, <1>3, <1>4 DEF SerialInv

\* The empty ledger satisfies SerialInv.
LEMMA InitSerial == Init => SerialInv
  <1> SUFFICES ASSUME Init PROVE SerialInv
    OBVIOUS
  <1>1. CoreInv
    BY InitCore
  <1>2. ASSUME NEW d \in Deliveries PROVE SerialRow(delivery[d], attempt[d])
    <2>1. delivery[d] = NoDelivery /\ \A k \in AttemptNumber : attempt[d][k] = NoAttempt
      BY DEF Init
    <2>2. NoDelivery.policy \in Policies
      BY SomePolicy DEF NoDelivery
    <2>3. QED
      BY <2>1, <2>2, PolicyFacts DEF SerialRow, NoDelivery, NoAttempt
  <1>3. HoldsWaiting
    BY DEF Init, HoldsWaiting, NoTx
  <1>4. ReplayLineage
    BY DEF Init, ReplayLineage, NoDelivery
  <1>5. QED
    BY <1>1, <1>2, <1>3, <1>4 DEF SerialInv

\* With serialized claims a delivery never has two open attempts, never exceeds
\* its attempt budget, succeeds at most once, and replays point at terminal work.
THEOREM SerializedSafety ==
  ASSUME Serialized
  PROVE  Spec => [](SerialClaims /\ SuccessIsUnique)
  <1>1. Spec => []SerialInv
    BY InitSerial, NextSerial, PTL DEF Spec
  <1>2. SerialInv => SingleOpenAttempt
    BY DEF SerialInv, SerialRow, SingleOpenAttempt
  <1>3. SerialInv => AttemptBudget
    BY DEF SerialInv, SerialRow, AttemptBudget
  <1>4. SerialInv => SuccessIsUnique
    BY DEF SerialInv, SerialRow, SuccessIsUnique
  <1>5. SerialInv => ReplayLineage
    BY DEF SerialInv
  <1>6. SerialInv => SerialClaims
    BY <1>2, <1>3, <1>5 DEF SerialClaims
  <1>7. QED
    BY <1>1, <1>4, <1>6, PTL

\* With serialized claims a terminal row is final.
THEOREM SerializedTerminal ==
  ASSUME Serialized
  PROVE  Spec => TerminalImmutable
  <1> DEFINE Step ==
        \A d \in Deliveries :
          delivery[d].state \in Terminal =>
            delivery'[d] = delivery[d] /\ attempt'[d] = attempt[d]
  <1>1. Spec => []SerialInv
    BY InitSerial, NextSerial, PTL DEF Spec
  <1>2. SerialInv /\ [Next]_vars => [Step]_vars
    <2> SUFFICES ASSUME SerialInv, [Next]_vars, NEW d \in Deliveries,
                        delivery[d].state \in Terminal
                 PROVE  delivery'[d] = delivery[d] /\ attempt'[d] = attempt[d]
      OBVIOUS
    <2>1. RowStep(delivery[d], attempt[d], delivery'[d], attempt'[d], now, Waiting)
      BY StepRows DEF SerialInv
    <2>2. delivery[d] \in DeliveryRow /\ now \in Nat
      BY DEF SerialInv, CoreInv, TypeOK
    <2>3. QED
      BY <2>1, <2>2, RowStepKeeps DEF Terminal
  <1>3. QED
    BY <1>1, <1>2, PTL DEF Spec, TerminalImmutable

\* With serialized claims a live lease ends only by its holder's verdict.
THEOREM SerializedLease ==
  ASSUME Serialized
  PROVE  Spec => LiveLeaseExclusive
  <1> DEFINE Step ==
        \A d \in Deliveries :
          LET k == delivery[d].lease_token
          IN  /\ delivery[d].state = "leased"
              /\ delivery[d].lease_expires_at > now
              /\ delivery'[d].lease_token # k
              => attempt'[d][k].outcome \in {"succeeded", "retryable", "terminal"}
  <1>1. Spec => []SerialInv
    BY InitSerial, NextSerial, PTL DEF Spec
  <1>2. SerialInv /\ [Next]_vars => [Step]_vars
    <2> SUFFICES ASSUME SerialInv, [Next]_vars, NEW d \in Deliveries,
                        delivery[d].state = "leased",
                        delivery[d].lease_expires_at > now,
                        delivery'[d].lease_token # delivery[d].lease_token
                 PROVE  attempt'[d][delivery[d].lease_token].outcome \in
                          {"succeeded", "retryable", "terminal"}
      OBVIOUS
    <2>1. RowStep(delivery[d], attempt[d], delivery'[d], attempt'[d], now, Waiting)
      BY StepRows DEF SerialInv
    <2>2. /\ delivery[d] \in DeliveryRow /\ attempt[d] \in Attempts /\ now \in Nat
          /\ RowOK(delivery[d], attempt[d], now)
      BY DEF SerialInv, CoreInv, TypeOK, Attempts
    <2>3. CloseRow(delivery[d], attempt[d], delivery'[d], attempt'[d], now)
      BY <2>1 DEF RowStep, CreateRow, ClaimRow, Waiting
    <2>4. PICK oc \in {"succeeded", "retryable", "terminal", "abandoned"} :
            /\ oc = "abandoned" => delivery[d].lease_expires_at <= now
            /\ attempt'[d] = Closed(attempt[d], delivery[d].lease_token, oc, now)
      BY <2>3 DEF CloseRow
    <2>5. delivery[d].lease_token \in AttemptNumber
      BY <2>2 DEF RowOK
    <2>6. attempt'[d][delivery[d].lease_token].outcome = oc
      BY <2>2, <2>4, <2>5 DEF Closed, Attempts
    <2>7. oc # "abandoned"
      BY <2>2, <2>4, RowTypes
    <2>8. QED
      BY <2>6, <2>7
  <1>3. QED
    BY <1>1, <1>2, PTL DEF Spec, LiveLeaseExclusive
=============================================================================
