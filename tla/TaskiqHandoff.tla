---------------------------- MODULE TaskiqHandoff ----------------------------
(***************************************************************************)
(* The durable hand-over of an attempt to a Taskiq broker (executors/       *)
(* taskiq/): the relay's sink prepares a handoff row and kicks a broker     *)
(* message, a worker that receives the message claims the execution, runs   *)
(* the handler and finalizes handoff and delivery in one transaction, and   *)
(* periodic recovery settles what got stuck.  Composed with the ledger of   *)
(* LeaseRepository.                                                         *)
(*                                                                          *)
(* The broker is external: it may lose an accepted message, delay it, or    *)
(* deliver it any number of times.  Every operation of TaskiqHandoffStore   *)
(* locks the handoff row before it decides anything, then the delivery, and *)
(* is one step.                                                             *)
(***************************************************************************)
EXTENDS LeaseRepository

CONSTANTS
  ExecutionTimeout,   \* TaskiqWorkerBridge.execution_timeout
  EnqueueTimeout,     \* TaskiqRecovery.enqueue_timeout
  Lag,                \* how long a cancelled sink or handler may run on
  ConnectorErrors,    \* may a connection fail with an error nobody classifies?
  MaxExecutions       \* bound: admissions of one handoff

ASSUME HandoffAssumption ==
  /\ ExecutionTimeout \in Nat \ {0}
  /\ EnqueueTimeout \in Nat \ {0}
  /\ Lag \in Nat
  /\ ConnectorErrors \in BOOLEAN
  /\ MaxExecutions \in Nat \ {0}
  /\ 0 \in RetryAfters

VARIABLES
  handoff,  \* the taskiq_handoffs table: the row of each attempt
  sink,     \* TaskiqDeliverySink.execute for each attempt
  message,  \* attempts whose message the broker accepted
  run,      \* the worker executions of each attempt, by execution token
  effect    \* attempts whose handler completed

handoffVars == <<handoff, sink, message, run, effect>>
systemVars == <<vars, handoffVars>>

Settled == {"succeeded", "retry_wait", "dead"}
HandoffState == {"absent", "prepared", "enqueued", "executing"} \cup Settled
Execution == 1 .. MaxExecutions

\* An execution token is a fresh UUID: the value of execution_count at its
\* admission stands for it, and 0 for NULL.
HandoffRow ==
  [state : HandoffState, execution_token : 0 .. MaxExecutions,
   execution_deadline : Nat, execution_count : 0 .. MaxExecutions,
   enqueued : BOOLEAN, updated_at : Nat]
Sink == [stage : {"idle", "prepared", "kicked", "done"}, cutoff : Nat]
Run ==
  [stage : {"none", "running", "completed", "retryable", "terminal"},
   cutoff : Nat]

NoHandoff ==
  [state |-> "absent", execution_token |-> 0, execution_deadline |-> 0,
   execution_count |-> 0, enqueued |-> FALSE, updated_at |-> 0]
NoRun == [stage |-> "none", cutoff |-> 0]

PerAttempt(value) == [d \in Deliveries |-> [k \in AttemptNumber |-> value]]

HandoffInit ==
  /\ Init
  /\ handoff = PerAttempt(NoHandoff)
  /\ sink = PerAttempt([stage |-> "idle", cutoff |-> 0])
  /\ message = [d \in Deliveries |-> {}]
  /\ run = PerAttempt([n \in Execution |-> NoRun])
  /\ effect = [d \in Deliveries |-> {}]

\* Time left of attempt k, by the given reading of a clock.
AttemptRemaining(d, k, reading) ==
  remaining_attempt(delivery[d].policy, delivery[d].created_at,
                    attempt[d][k].started_at,
                    attempt[d][k].started_at + delivery[d].policy.lease_duration,
                    reading)

-----------------------------------------------------------------------------
(* Shared by the operations of the store.                                    *)

\* _claim_for_row returns: the parent delivery is leased under the token of
\* this attempt, which is still open.  It does not look at the lease's expiry.
OwnsParent(d, k) ==
  /\ delivery[d].state = "leased"
  /\ delivery[d].lease_token = k
  /\ attempt[d][k].outcome = "started"

SetFailed(row, outcome, at) ==
  [row EXCEPT !.state = IF outcome = "retry_wait" THEN "retry_wait" ELSE "dead",
              !.execution_token = 0,
              !.execution_deadline = 0,
              !.updated_at = at]

\* The attempt fails with a retryable error and the handoff takes over the
\* outcome of the delivery, in one transaction.
FailBoth(d, k) ==
  /\ Fail(d, k, TRUE, 0)
  /\ handoff' = [handoff EXCEPT ![d][k] = SetFailed(@, delivery'[d].state, now)]

\* The handoff alone is given up; its attempt is no longer the current one.
GiveUp(d, k) ==
  /\ ~RowLocked(d)
  /\ handoff' = [handoff EXCEPT ![d][k] = SetFailed(@, "dead", now)]
  /\ UNCHANGED vars

-----------------------------------------------------------------------------
(* TaskiqDeliverySink.execute, inside the relay's execute_claim.             *)

SinkActive(d, k) == sink[d][k].stage \in {"prepared", "kicked"}

\* prepare inserts the row.  The sink runs under a timeout computed from its
\* own clock; without time left it defers at once and nothing happens.
Prepare(d, k, reading) ==
  LET remaining == AttemptRemaining(d, k, reading)
  IN  /\ attempt[d][k].outcome # "absent"
      /\ sink[d][k].stage = "idle"
      /\ remaining > 0
      /\ ~RowLocked(d)
      /\ sink' = [sink EXCEPT ![d][k] =
                    [stage |-> "prepared", cutoff |-> now + remaining]]
      /\ handoff' = [handoff EXCEPT ![d][k] =
                       [NoHandoff EXCEPT !.state = "prepared", !.updated_at = now]]
      /\ UNCHANGED <<vars, message, run, effect>>

\* The broker accepts the message; kiq has not returned yet.
Kick(d, k) ==
  /\ sink[d][k].stage = "prepared"
  /\ sink' = [sink EXCEPT ![d][k].stage = "kicked"]
  /\ message' = [message EXCEPT ![d] = @ \cup {k}]
  /\ UNCHANGED <<vars, handoff, run, effect>>

\* Mutant: the row is overwritten whatever happened since.
MarkEnqueuedBlind(d, k) ==
  /\ sink[d][k].stage = "kicked"
  /\ handoff' = [handoff EXCEPT ![d][k] =
       [@ EXCEPT !.state = "enqueued", !.enqueued = TRUE, !.updated_at = now]]
  /\ sink' = [sink EXCEPT ![d][k] = [stage |-> "done", cutoff |-> 0]]
  /\ UNCHANGED <<vars, message, run, effect>>

\* A worker, or recovery, may have been faster than the acknowledgement; then
\* only a missing enqueued_at is filled in.
Acknowledged(row) ==
  IF row.enqueued
    THEN row
    ELSE [row EXCEPT !.state = IF @ = "prepared" THEN "enqueued" ELSE @,
                     !.enqueued = TRUE,
                     !.updated_at = now]

\* kiq returned the task id: mark_enqueued.
MarkEnqueued(d, k) ==
  /\ sink[d][k].stage = "kicked"
  /\ handoff' = [handoff EXCEPT ![d][k] = Acknowledged(@)]
  /\ sink' = [sink EXCEPT ![d][k] = [stage |-> "done", cutoff |-> 0]]
  /\ UNCHANGED <<vars, message, run, effect>>

\* Mutant: the handoff is given up without failing the attempt.
EnqueueFailedAlone(d, k) ==
  /\ SinkActive(d, k)
  /\ handoff[d][k].state = "prepared"
  /\ GiveUp(d, k)
  /\ sink' = [sink EXCEPT ![d][k] = [stage |-> "done", cutoff |-> 0]]
  /\ UNCHANGED <<message, run, effect>>

\* kiq raised, or returned another task id, before or after the broker
\* accepted the message: enqueue_failed fails a handoff that is still prepared.
\* If a worker or recovery was faster, or the lease is lost, nothing but the
\* sink changes (SinkGone).
EnqueueFailed(d, k) ==
  /\ SinkActive(d, k)
  /\ handoff[d][k].state = "prepared"
  /\ FailBoth(d, k)
  /\ sink' = [sink EXCEPT ![d][k] = [stage |-> "done", cutoff |-> 0]]
  /\ UNCHANGED <<message, run, effect>>

\* The timeout (DEFERRED), a crash, a transient database error, or an
\* enqueue_failed that changed nothing.
SinkGone(d, k) ==
  /\ SinkActive(d, k)
  /\ sink' = [sink EXCEPT ![d][k] = [stage |-> "done", cutoff |-> 0]]
  /\ UNCHANGED <<vars, handoff, message, run, effect>>

\* The relay itself fails the attempt: its claim came too late for the sink,
\* the message could not be built, the relay's own timeout won over the sink's,
\* or a raw connector error (not a DBAPIError) left the sink.
RelayFail(d, k) ==
  /\ \/ /\ sink[d][k].stage = "idle"
        /\ \E reading \in ApplicationClock : AttemptRemaining(d, k, reading) = 0
     \/ sink[d][k].stage = "prepared"
     \/ sink[d][k].stage = "kicked" /\ sink[d][k].cutoff <= now
     \/ sink[d][k].stage # "done" /\ ConnectorErrors
  /\ Fail(d, k, TRUE, 0)
  /\ sink' = [sink EXCEPT ![d][k] = [stage |-> "done", cutoff |-> 0]]
  /\ UNCHANGED <<handoff, message, run, effect>>

-----------------------------------------------------------------------------
(* TaskiqWorkerBridge.execute: a message for attempt k arrives.              *)

\* Mutant: an execution that is under way does not keep another one out.
AdmissibleAlways(d, k) ==
  /\ k \in message[d]
  /\ handoff[d][k].state \in {"prepared", "enqueued", "executing"}

\* claim_execution goes on: not settled, and not executing before its deadline.
Admissible(d, k) ==
  /\ k \in message[d]
  /\ \/ handoff[d][k].state \in {"prepared", "enqueued"}
     \/ /\ handoff[d][k].state = "executing"
        /\ handoff[d][k].execution_deadline <= now

Admitted(row, deadline) ==
  [row EXCEPT !.state = "executing",
              !.enqueued = TRUE,
              !.execution_token = row.execution_count + 1,
              !.execution_deadline = deadline,
              !.execution_count = row.execution_count + 1,
              !.updated_at = now]

\* The execution is admitted under a fresh token; the handler's own timeout
\* comes from the worker's clock.
Admit(d, k, reading) ==
  LET remaining == Least(AttemptRemaining(d, k, now), ExecutionTimeout)
      deadline  == now + remaining
      n         == handoff[d][k].execution_count + 1
  IN  /\ Admissible(d, k)
      /\ ~RowLocked(d)
      /\ OwnsParent(d, k)
      /\ remaining > 0
      /\ n \in Execution
      /\ handoff' = [handoff EXCEPT ![d][k] = Admitted(@, deadline)]
      /\ run' = [run EXCEPT ![d][k][n] =
                   [stage |-> "running",
                    cutoff |-> IF deadline <= reading
                                 THEN now ELSE now + (deadline - reading)]]
      /\ UNCHANGED <<vars, sink, message, effect>>

\* The attempt was reclaimed: executor.stale_attempt.
AdmitStale(d, k) ==
  /\ Admissible(d, k)
  /\ ~OwnsParent(d, k)
  /\ GiveUp(d, k)
  /\ UNCHANGED <<sink, message, run, effect>>

\* The attempt deadline has passed but the lease is live: the attempt fails.
\* If the lease has expired too, LeaseLost is raised and nothing changes.
AdmitLate(d, k) ==
  /\ Admissible(d, k)
  /\ AttemptRemaining(d, k, now) = 0
  /\ FailBoth(d, k)
  /\ UNCHANGED <<sink, message, run, effect>>

\* The handler completes, or raises an error that the worker classifies.  A
\* handler that suppresses its cancellation may do so after the cutoff.
HandlerReturns(d, k, n, verdict) ==
  /\ run[d][k][n].stage = "running"
  /\ run' = [run EXCEPT ![d][k][n] = [stage |-> verdict, cutoff |-> 0]]
  /\ effect' = [effect EXCEPT ![d] = IF verdict = "completed" THEN @ \cup {k} ELSE @]
  /\ UNCHANGED <<vars, handoff, sink, message>>

HandlerTimeout(d, k, n) ==
  /\ run[d][k][n].stage = "running"
  /\ run[d][k][n].cutoff <= now
  /\ run' = [run EXCEPT ![d][k][n] = [stage |-> "retryable", cutoff |-> 0]]
  /\ UNCHANGED <<vars, handoff, sink, message, effect>>

\* A crash, a cancellation, a transient database error, or a finalization that
\* raises LeaseLost or times out: the handoff is left as it is.
WorkerLost(d, k, n) ==
  /\ run[d][k][n].stage # "none"
  /\ run' = [run EXCEPT ![d][k][n] = NoRun]
  /\ UNCHANGED <<vars, handoff, sink, message, effect>>

\* Mutant: only the state of the handoff is tested, not the token.
LockedExecutionUnfenced(d, k, n) == handoff[d][k].state = "executing"

\* _locked_execution returns rather than raising LeaseLost.
LockedExecution(d, k, n) ==
  /\ handoff[d][k].state = "executing"
  /\ handoff[d][k].execution_token = n

\* Mutant: the parent is closed without asking whether the lease is held.
FinalizeSuccessUnfenced(d, k, n) ==
  /\ run[d][k][n].stage = "completed"
  /\ LockedExecution(d, k, n)
  /\ delivery' = [delivery EXCEPT ![d] =
       Released(delivery[d], "succeeded", delivery[d].next_attempt_at, now)]
  /\ attempt' = [attempt EXCEPT ![d] = Closed(attempt[d], k, "succeeded", now)]
  /\ handoff' = [handoff EXCEPT ![d][k] =
       [@ EXCEPT !.state = "succeeded", !.execution_token = 0,
                 !.execution_deadline = 0, !.updated_at = now]]
  /\ run' = [run EXCEPT ![d][k][n] = NoRun]
  /\ UNCHANGED <<now, tx, sink, message, effect>>

FinalizeSuccess(d, k, n) ==
  /\ run[d][k][n].stage = "completed"
  /\ LockedExecution(d, k, n)
  /\ Succeed(d, k)
  /\ handoff' = [handoff EXCEPT ![d][k] =
       [@ EXCEPT !.state = "succeeded", !.execution_token = 0,
                 !.execution_deadline = 0, !.updated_at = now]]
  /\ run' = [run EXCEPT ![d][k][n] = NoRun]
  /\ UNCHANGED <<sink, message, effect>>

FinalizeFailure(d, k, n, retry_after) ==
  LET retryable == run[d][k][n].stage = "retryable"
  IN  /\ run[d][k][n].stage \in {"retryable", "terminal"}
      /\ LockedExecution(d, k, n)
      /\ Fail(d, k, retryable, IF retryable THEN retry_after ELSE 0)
      /\ handoff' = [handoff EXCEPT ![d][k] = SetFailed(@, delivery'[d].state, now)]
      /\ run' = [run EXCEPT ![d][k][n] = NoRun]
      /\ UNCHANGED <<sink, message, effect>>

-----------------------------------------------------------------------------
(* TaskiqRecovery.run_once.                                                  *)

\* Mutant: executions that outlived their deadline are left alone.
ExpiredWaiting(d, k) ==
  /\ handoff[d][k].state \in {"prepared", "enqueued"}
  /\ handoff[d][k].updated_at + EnqueueTimeout <= now

HandoffExpired(d, k) ==
  \/ /\ handoff[d][k].state \in {"prepared", "enqueued"}
     /\ handoff[d][k].updated_at + EnqueueTimeout <= now
  \/ /\ handoff[d][k].state = "executing"
     /\ handoff[d][k].execution_deadline <= now

\* One row of the batch; the rows are handled one by one and independently of
\* each other, each with its own reading of the clock.
RecoverExpired(d, k) ==
  /\ HandoffExpired(d, k)
  /\ \/ FailBoth(d, k)
     \/ ~ActiveLease(d, k) /\ GiveUp(d, k)
  /\ UNCHANGED <<sink, message, run, effect>>

-----------------------------------------------------------------------------
\* The rest of the runtime: producers, claims and lease reconciliation.
Ledger ==
  /\ \/ \E ds \in SUBSET Deliveries, at \in ApplicationClock :
          \E policyOf \in [ds -> Policies] : Publish(ds, policyOf, at)
     \/ \E source, d \in Deliveries, at \in ApplicationClock :
          Replay(source, d, at)
     \/ \E s \in Sessions : ClaimStep(s)
     \/ ReconcileExpired
  /\ UNCHANGED handoffVars

HandoffTick ==
  /\ \A d \in Deliveries, k \in AttemptNumber :
       /\ SinkActive(d, k) => now < sink[d][k].cutoff + Lag
       /\ \A n \in Execution :
            run[d][k][n].stage = "running" => now < run[d][k][n].cutoff + Lag
  /\ Tick
  /\ UNCHANGED handoffVars

SinkStep(d, k) ==
  \/ \E reading \in ApplicationClock : Prepare(d, k, reading)
  \/ Kick(d, k)
  \/ MarkEnqueued(d, k)
  \/ EnqueueFailed(d, k)
  \/ SinkGone(d, k)
  \/ RelayFail(d, k)

AdmitStep(d, k) ==
  \/ \E reading \in ApplicationClock : Admit(d, k, reading)
  \/ AdmitStale(d, k)
  \/ AdmitLate(d, k)

WorkerStep(d, k, n) ==
  \/ \E verdict \in {"completed", "retryable", "terminal"} :
       HandlerReturns(d, k, n, verdict)
  \/ HandlerTimeout(d, k, n)
  \/ WorkerLost(d, k, n)
  \/ FinalizeSuccess(d, k, n)
  \/ \E retry_after \in RetryAfters : FinalizeFailure(d, k, n, retry_after)

HandoffNext ==
  \/ Ledger
  \/ HandoffTick
  \/ \E d \in Deliveries, k \in AttemptNumber :
       \/ SinkStep(d, k)
       \/ AdmitStep(d, k)
       \/ \E n \in Execution : WorkerStep(d, k, n)
       \/ RecoverExpired(d, k)

HandoffSpec == HandoffInit /\ [][HandoffNext]_systemVars

\* Recovery is called on a bounded interval (docs/integrations/taskiq.md) and
\* gets the row locks it waits for, claim transactions end, and the timers of
\* sinks and handlers fire.  The broker, the workers and every other step of
\* the sink get no fairness.
HandoffFairness ==
  /\ WF_systemVars(HandoffTick)
  /\ \A s \in Sessions : WF_systemVars(ClaimAbort(s) /\ UNCHANGED handoffVars)
  /\ \A d \in Deliveries, k \in AttemptNumber :
       /\ SF_systemVars(RecoverExpired(d, k))
       /\ WF_systemVars(SinkGone(d, k))
       /\ \A n \in Execution : WF_systemVars(HandlerTimeout(d, k, n))

HandoffFairSpec == HandoffSpec /\ HandoffFairness

-----------------------------------------------------------------------------
\* Every variable has its type.
HandoffTypeOK ==
  /\ TypeOK
  /\ handoff \in [Deliveries -> [AttemptNumber -> HandoffRow]]
  /\ sink \in [Deliveries -> [AttemptNumber -> Sink]]
  /\ message \in [Deliveries -> SUBSET AttemptNumber]
  /\ run \in [Deliveries -> [AttemptNumber -> [Execution -> Run]]]
  /\ effect \in [Deliveries -> SUBSET AttemptNumber]

\* The sink, the workers and recovery change the ledger only the way
\* LeaseRepository specifies: its theorems hold of attempts that are handed to
\* a broker (store.py delegates to succeed_in_transaction, fail_in_transaction).
HandoffImplementsLedger == Spec

\* No operation ever writes a row that the CHECK constraints
\* taskiq_execution_coherent and taskiq_enqueue_coherent reject, although a
\* worker may admit a handoff before mark_enqueued ran and mark_enqueued may
\* find it settled (models.py 47-57; store.py 137-144, 258-265, 519-541).
RowsCoherent ==
  \A d \in Deliveries, k \in AttemptNumber :
    LET row == handoff[d][k]
    IN  /\ row.state = "executing" <=> row.execution_token # 0
        /\ row.state = "executing" => row.execution_token = row.execution_count
        /\ row.state \in {"absent", "prepared"} => ~row.enqueued
        /\ row.state \in {"enqueued", "executing", "succeeded"} => row.enqueued

\* Handoff and delivery agree on how an attempt ended, although sinks, relays,
\* workers, recovery and lease reconciliation all compete to end it: a handoff
\* succeeded exactly if its attempt did, and one that waits for a retry closed
\* its attempt as retryable (store.py 161-176, 241-253, 284-292, 307-323,
\* 369-389).
HandoffAgrees ==
  \A d \in Deliveries, k \in AttemptNumber :
    /\ handoff[d][k].state = "succeeded" <=> attempt[d][k].outcome = "succeeded"
    /\ handoff[d][k].state = "retry_wait" => attempt[d][k].outcome = "retryable"

\* Once a handoff is settled its attempt holds no live lease: nothing that gave
\* a handoff up left its delivery waiting for a lease to run out
\* (store.py 160-176, 208-219, 369-389).
SettledHoldsNoLease ==
  \A d \in Deliveries, k \in AttemptNumber :
    handoff[d][k].state \in Settled =>
      \/ delivery[d].state # "leased"
      \/ delivery[d].lease_token # k
      \/ delivery[d].lease_expires_at <= now

\* Broker acknowledgement is not success: an attempt is succeeded only if its
\* own handler completed (docs/concepts/boundary-contract.md BC-14; store.py
\* 126-146, 274-294).
SuccessIsCompletion ==
  \A d \in Deliveries, k \in AttemptNumber :
    attempt[d][k].outcome = "succeeded" => k \in effect[d]

\* Until its deadline a running handler owns the handoff under its token and
\* the delivery under a live lease, whatever duplicates, late acknowledgements,
\* failed enqueues and recoveries happen meanwhile; hence no two executions of
\* a delivery are both inside their deadlines.  It takes serialized claims,
\* equal clocks, and no unclassified connector error in the sink, after which
\* the relay fails an attempt that a worker may be executing (store.py 158,
\* 200-202, 353-361; worker.py 92-96; relay.py 172-184).
WorkerHoldsLease ==
  \A d \in Deliveries, k \in AttemptNumber, n \in Execution :
    run[d][k][n].stage = "running" /\ now < run[d][k][n].cutoff =>
      /\ handoff[d][k].state = "executing"
      /\ handoff[d][k].execution_token = n
      /\ delivery[d].state = "leased"
      /\ delivery[d].lease_token = k
      /\ delivery[d].lease_expires_at > now

\* A handoff executes once (docs/concepts/boundary-contract.md BC-14), as long
\* as the execution_timeout of the bridge reaches to the attempt's deadline; a
\* shorter one readmits a message while the attempt still has time left
\* (store.py 200-202, 228-235, 263).
ExecutesOnce ==
  \A d \in Deliveries, k \in AttemptNumber :
    delivery[d].policy.handler_timeout <= ExecutionTimeout =>
      handoff[d][k].execution_count <= 1

\* Handoff row and delivery tell one story of an attempt, and a story the
\* CHECK constraints accept, whoever of sink, relay, workers, recovery and
\* lease reconciliation wrote last.
OneStory ==
  RowsCoherent /\ HandoffAgrees /\ SettledHoldsNoLease /\ SuccessIsCompletion

\* A settled handoff never changes its verdict, is never admitted again and
\* never regains a token, whatever messages and acknowledgements still arrive
\* (store.py 137-141, 194-199, 442-447).
SettledIsFinal ==
  [][\A d \in Deliveries, k \in AttemptNumber :
       handoff[d][k].state \in Settled =>
         /\ handoff'[d][k].state = handoff[d][k].state
         /\ handoff'[d][k].execution_count = handoff[d][k].execution_count]_systemVars

\* Every prepared handoff is settled although its message may be lost, its
\* sink may vanish and its worker may die (store.py 327-391).
HandoffSettles ==
  \A d \in Deliveries, k \in AttemptNumber :
    handoff[d][k].state # "absent" ~> handoff[d][k].state \in Settled
=============================================================================
