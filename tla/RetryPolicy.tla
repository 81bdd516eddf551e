----------------------------- MODULE RetryPolicy -----------------------------
(***************************************************************************)
(* The immutable retry settings a delivery carries in its route snapshot,  *)
(* and the deadline arithmetic every time-sensitive operation shares       *)
(* (core/retry.py).  Times and durations are integral ticks of one clock.  *)
(***************************************************************************)
EXTENDS Naturals

\* A policy record before validation: every duration is a natural number.
RetrySettings ==
  [max_attempts : Nat, maximum_elapsed : Nat, base_delay : Nat,
   maximum_delay : Nat, handler_timeout : Nat, lease_duration : Nat]

\* What RetryPolicy.__post_init__ accepts; from_dict re-validates each snapshot.
ValidPolicy(p) ==
  /\ p \in RetrySettings
  /\ p.max_attempts > 0
  /\ p.maximum_elapsed > 0
  /\ p.base_delay <= p.maximum_delay
  /\ p.handler_timeout > 0
  /\ p.handler_timeout < p.lease_duration
  /\ p.maximum_delay <= p.maximum_elapsed
  /\ p.handler_timeout <= p.maximum_elapsed

Least(a, b) == IF a <= b THEN a ELSE b
Greatest(a, b) == IF a <= b THEN b ELSE a

\* The latest-finish horizon of one delivery.
delivery_deadline(p, created_at) == created_at + p.maximum_elapsed

\* The earliest hard deadline that applies to an active attempt.
attempt_deadline(p, created_at, started_at, lease_expires_at) ==
  Least(delivery_deadline(p, created_at),
        Least(started_at + p.handler_timeout, lease_expires_at))

\* Time an executor may still spend, by the clock reading it is given.
remaining_attempt(p, created_at, started_at, lease_expires_at, at) ==
  LET deadline == attempt_deadline(p, created_at, started_at, lease_expires_at)
  IN  IF deadline <= at THEN 0 ELSE deadline - at

permits_retry(p, attempt_number, created_at, at) ==
  /\ attempt_number < p.max_attempts
  /\ at < created_at + p.maximum_elapsed

\* Full jitter: every delay the random source may return after attempt n.
retry_delay(p, n) ==
  {x \in 0 .. p.maximum_delay : x <= p.base_delay * 2 ^ (n - 1)}

\* The delay that is scheduled: a server's Retry-After hint may lengthen the
\* jittered delay (0 = no hint) but never beyond maximum_delay.
ScheduledDelays(p, n, retry_after) ==
  {Least(Greatest(x, retry_after), p.maximum_delay) : x \in retry_delay(p, n)}
=============================================================================
