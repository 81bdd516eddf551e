----------------------------- MODULE PollingRelay -----------------------------
(***************************************************************************)
(* Relay processes (postgres/relay.py) at work on the ledger of             *)
(* LeaseRepository.  A relay repeats one cycle: reconcile expired leases,   *)
(* claim a batch, run every claim through the sink in one task group, and   *)
(* finalize each claim.  Relays crash, are stopped and restarted, lose      *)
(* answers of the database, and read clocks that are off by up to Skew.     *)
(* Relay s claims through database session s.                               *)
(*                                                                          *)
(* The sink is external: a task that runs may bring about its effect at the *)
(* destination and may then report any outcome.                             *)
(***************************************************************************)
EXTENDS LeaseRepository

CONSTANTS
  Lag,               \* how late a timer of the event loop may fire
  OverlappingClaims  \* may claim transactions of two relays overlap?

ASSUME RelayAssumption ==
  /\ Lag \in Nat
  /\ OverlappingClaims \in BOOLEAN

VARIABLES
  phase,   \* where each relay is in run() and run_once()
  stop,    \* each relay's _stop event
  task,    \* the execute_claim task of each relay for each delivery
  effect,  \* attempts whose effect reached the destination
  handed   \* attempts whose sink deferred to an external executor

relayVars == <<phase, stop, task, effect, handed>>
allVars == <<vars, relayVars>>

Phase == {"down", "poll", "reconcile", "claim", "execute"}
Cycle == {"reconcile", "claim", "execute"}
Stage == {"none", "ready", "running", "acted", "finalizing"}
Verdict == {"none", "success", "retryable", "terminal"}

Task ==
  [stage : Stage, number : Token, cutoff : Nat, verdict : Verdict]
NoTask ==
  [stage |-> "none", number |-> 0, cutoff |-> 0, verdict |-> "none"]
NoTasks == [d \in Deliveries |-> NoTask]

\* The sink of this task is running; its effect may or may not have happened.
Active(s, d) == task[s][d].stage \in {"running", "acted"}
Busy(s) == {d \in Deliveries : task[s][d].stage # "none"}

RelayInit ==
  /\ Init
  /\ phase = [s \in Sessions |-> "down"]
  /\ stop = [s \in Sessions |-> FALSE]
  /\ task = [s \in Sessions |-> NoTasks]
  /\ effect = [d \in Deliveries |-> {}]
  /\ handed = [d \in Deliveries |-> {}]

-----------------------------------------------------------------------------
(* run: the loop around the cycles.                                          *)

\* A supervisor starts a new process; nothing of an earlier one survives.
Start(s) ==
  /\ phase[s] = "down"
  /\ phase' = [phase EXCEPT ![s] = "reconcile"]
  /\ stop' = [stop EXCEPT ![s] = FALSE]
  /\ task' = [task EXCEPT ![s] = NoTasks]
  /\ UNCHANGED <<vars, effect, handed>>

RequestStop(s) ==
  /\ phase[s] # "down"
  /\ ~stop[s]
  /\ stop' = [stop EXCEPT ![s] = TRUE]
  /\ UNCHANGED <<vars, phase, task, effect, handed>>

\* The poll interval ends, by its timeout or by a stop request.
NextCycle(s) ==
  /\ phase[s] = "poll"
  /\ phase' = [phase EXCEPT ![s] = IF stop[s] THEN "down" ELSE "reconcile"]
  /\ UNCHANGED <<vars, stop, task, effect, handed>>

\* Where a relay goes when its cycle ends: run returns if a stop is requested.
AfterCycle(s) == IF stop[s] THEN "down" ELSE "poll"

\* Mutant: the next cycle does not wait for the task group.
EndCycleEarly(s) ==
  /\ phase[s] = "execute"
  /\ phase' = [phase EXCEPT ![s] = AfterCycle(s)]
  /\ UNCHANGED <<vars, stop, task, effect, handed>>

EndCycle(s) ==
  /\ phase[s] = "execute"
  /\ Busy(s) = {}
  /\ phase' = [phase EXCEPT ![s] = AfterCycle(s)]
  /\ UNCHANGED <<vars, stop, task, effect, handed>>

\* Mutant: run awaits the cancelled cycle.
GraceExpiredAwaits(s) ==
  /\ stop[s]
  /\ phase[s] \in Cycle
  /\ Busy(s) = {}
  /\ phase' = [phase EXCEPT ![s] = "down"]
  /\ IF tx[s].phase = "idle" THEN UNCHANGED vars ELSE ClaimAbort(s)
  /\ UNCHANGED <<stop, task, effect, handed>>

\* The drain outlasts shutdown_grace_seconds: the cycle is cancelled and run
\* returns without waiting for it.  Tasks whose sink suppresses cancellation
\* live on until the process is gone.
GraceExpired(s) ==
  /\ stop[s]
  /\ phase[s] \in Cycle
  /\ phase' = [phase EXCEPT ![s] = "down"]
  /\ IF tx[s].phase = "idle" THEN UNCHANGED vars ELSE ClaimAbort(s)
  /\ UNCHANGED <<stop, task, effect, handed>>

TaskCancelled(s, d) ==
  /\ phase[s] = "down"
  /\ d \in Busy(s)
  /\ task' = [task EXCEPT ![s][d] = NoTask]
  /\ UNCHANGED <<vars, phase, stop, effect, handed>>

\* An error that is neither classified nor transient leaves a task: the task
\* group cancels the siblings and the error ends run.  A sibling whose sink
\* suppresses cancellation may still act and finalize.
Fatal(s, d) ==
  /\ phase[s] = "execute"
  /\ d \in Busy(s)
  /\ phase' = [phase EXCEPT ![s] = "down"]
  /\ task' = [task EXCEPT ![s][d] = NoTask]
  /\ UNCHANGED <<vars, stop, effect, handed>>

\* The process dies at any point; an open transaction is rolled back.
Crash(s) ==
  /\ phase[s] # "down" \/ Busy(s) # {}
  /\ phase' = [phase EXCEPT ![s] = "down"]
  /\ stop' = [stop EXCEPT ![s] = FALSE]
  /\ task' = [task EXCEPT ![s] = NoTasks]
  /\ IF tx[s].phase = "idle" THEN UNCHANGED vars ELSE ClaimAbort(s)
  /\ UNCHANGED <<effect, handed>>

-----------------------------------------------------------------------------
(* run_once: reconcile and claim.                                            *)

\* The stop event is looked at once more before the claim.
AfterReconcile(s) == IF stop[s] THEN "down" ELSE "claim"

RelayReconcile(s) ==
  /\ phase[s] = "reconcile"
  /\ ReconcileExpired
  /\ phase' = [phase EXCEPT ![s] = AfterReconcile(s)]
  /\ UNCHANGED <<stop, task, effect, handed>>

\* No lease has expired, or every expired one is locked at the moment.
RelayReconcileNone(s) ==
  /\ phase[s] = "reconcile"
  /\ phase' = [phase EXCEPT ![s] = AfterReconcile(s)]
  /\ UNCHANGED <<vars, stop, task, effect, handed>>

RelaySelect(s) ==
  /\ phase[s] = "claim"
  /\ OverlappingClaims \/ \A u \in Sessions : tx[u].phase = "idle"
  /\ ClaimSelect(s)
  /\ UNCHANGED relayVars

RelayLock(s) ==
  /\ \E d \in Deliveries, skipped \in BOOLEAN : ClaimLockRow(s, d, skipped)
  /\ UNCHANGED relayVars

RelayStamp(s) ==
  /\ ClaimStamp(s)
  /\ UNCHANGED relayVars

\* Nothing is due.
ClaimNothing(s) ==
  /\ phase[s] = "claim"
  /\ tx[s].phase = "idle"
  /\ \A d \in Deliveries : ~Claimable(d)
  /\ phase' = [phase EXCEPT ![s] = AfterCycle(s)]
  /\ UNCHANGED <<vars, stop, task, effect, handed>>

\* The batch is committed: a task for every row that was leased.
RelayClaim(s) ==
  /\ ClaimCommit(s)
  /\ phase' = [phase EXCEPT ![s] = "execute"]
  /\ task' = [task EXCEPT ![s] =
       [d \in Deliveries |->
          IF /\ d \in tx[s].locked
             /\ ~Expired(delivery[d], tx[s].effective_now)
            THEN [NoTask EXCEPT !.stage = "ready",
                                !.number = delivery[d].attempts_started + 1]
            ELSE NoTask]]
  /\ UNCHANGED <<stop, effect, handed>>

\* The batch is committed but the answer does not arrive in time: the leases
\* have no task.
ClaimAnswerLost(s) ==
  /\ ClaimCommit(s)
  /\ phase' = [phase EXCEPT ![s] = AfterCycle(s)]
  /\ UNCHANGED <<stop, task, effect, handed>>

\* control_plane_timeout_seconds or a transient error: _finish_cycle records
\* it and the relay polls on.  A reconciliation may have been committed.
ControlFailed(s) ==
  /\ phase[s] \in {"reconcile", "claim"}
  /\ phase' = [phase EXCEPT ![s] = AfterCycle(s)]
  /\ \/ phase[s] = "reconcile" /\ ReconcileExpired
     \/ tx[s].phase = "idle" /\ UNCHANGED vars
     \/ ClaimAbort(s)
  /\ UNCHANGED <<stop, task, effect, handed>>

\* A constraint violation is not transient: it ends run.
ClaimFatal(s) ==
  /\ ClaimRejected(s)
  /\ phase' = [phase EXCEPT ![s] = "down"]
  /\ UNCHANGED <<stop, task, effect, handed>>

-----------------------------------------------------------------------------
(* execute_claim                                                             *)

\* Mutant: only the lease bounds the execution.
RemainingLease(d, k, reading) ==
  LET lease_expires_at ==
        attempt[d][k].started_at + delivery[d].policy.lease_duration
  IN  IF lease_expires_at <= reading THEN 0 ELSE lease_expires_at - reading

\* _remaining_claim_seconds, from the claimed snapshot and the relay's clock.
Remaining(d, k, reading) ==
  remaining_attempt(delivery[d].policy, delivery[d].created_at,
                    attempt[d][k].started_at,
                    attempt[d][k].started_at + delivery[d].policy.lease_duration,
                    reading)

\* Too late is a retryable failure; otherwise the sink runs under a timeout.
TaskStart(s, d, reading) ==
  LET k == task[s][d].number
      remaining == Remaining(d, k, reading)
  IN  /\ phase[s] = "execute"
      /\ task[s][d].stage = "ready"
      /\ task' = [task EXCEPT ![s][d] =
           [stage |-> IF remaining = 0 THEN "finalizing" ELSE "running",
            number |-> k,
            cutoff |-> IF remaining = 0 THEN 0 ELSE now + remaining,
            verdict |-> IF remaining = 0 THEN "retryable" ELSE "none"]]
      /\ UNCHANGED <<vars, phase, stop, effect, handed>>

SinkEffect(s, d) ==
  /\ task[s][d].stage = "running"
  /\ task' = [task EXCEPT ![s][d] = [@ EXCEPT !.stage = "acted"]]
  /\ effect' = [effect EXCEPT ![d] = @ \cup {task[s][d].number}]
  /\ UNCHANGED <<vars, phase, stop, handed>>

Finalizing(t, verdict) ==
  [t EXCEPT !.stage = "finalizing", !.cutoff = 0, !.verdict = verdict]

\* The sink completes, or raises an error that the relay classifies as
\* retryable or permanent; an effect may precede the error.
SinkReturn(s, d, verdict) ==
  /\ Active(s, d)
  /\ verdict = "success" => task[s][d].stage = "acted"
  /\ task' = [task EXCEPT ![s][d] = Finalizing(@, verdict)]
  /\ UNCHANGED <<vars, phase, stop, effect, handed>>

\* asyncio.timeout cancels the sink.
TaskTimeout(s, d) ==
  /\ Active(s, d)
  /\ task[s][d].cutoff <= now
  /\ task' = [task EXCEPT ![s][d] = Finalizing(@, "retryable")]
  /\ UNCHANGED <<vars, phase, stop, effect, handed>>

\* SinkDisposition.DEFERRED: an external executor finalizes the attempt.
SinkDefer(s, d) ==
  /\ Active(s, d)
  /\ task' = [task EXCEPT ![s][d] = NoTask]
  /\ handed' = [handed EXCEPT ![d] = @ \cup {task[s][d].number}]
  /\ UNCHANGED <<vars, phase, stop, effect>>

\* Mutant: the transient error is swallowed and the attempt completes.
SinkTransientSwallowed(s, d) ==
  /\ Active(s, d)
  /\ task' = [task EXCEPT ![s][d] = Finalizing(@, "success")]
  /\ UNCHANGED <<vars, phase, stop, effect, handed>>

\* A transient database error inside the sink leaves the lease to expire.
SinkTransient(s, d) ==
  /\ Active(s, d)
  /\ task' = [task EXCEPT ![s][d] = NoTask]
  /\ UNCHANGED <<vars, phase, stop, effect, handed>>

\* Mutant: success is written without asking whether the lease is still held.
FinalizeUnfenced(s, d) ==
  /\ task[s][d].stage = "finalizing"
  /\ task[s][d].verdict = "success"
  /\ delivery' = [delivery EXCEPT ![d] =
       Released(delivery[d], "succeeded", delivery[d].next_attempt_at, now)]
  /\ attempt' = [attempt EXCEPT ![d] =
       Closed(attempt[d], task[s][d].number, "succeeded", now)]
  /\ task' = [task EXCEPT ![s][d] = NoTask]
  /\ UNCHANGED <<now, tx, phase, stop, effect, handed>>

Finalize(s, d) ==
  LET k == task[s][d].number
  IN  /\ task[s][d].stage = "finalizing"
      /\ \/ task[s][d].verdict = "success" /\ Succeed(d, k)
         \/ /\ task[s][d].verdict # "success"
            /\ \E retry_after \in RetryAfters :
                 Fail(d, k, task[s][d].verdict = "retryable", retry_after)
      /\ task' = [task EXCEPT ![s][d] = NoTask]
      /\ UNCHANGED <<phase, stop, effect, handed>>

\* LeaseLost, finalization_timeout_seconds or a transient error: recorded, and
\* never retried.
FinalizeLost(s, d) ==
  /\ task[s][d].stage = "finalizing"
  /\ task' = [task EXCEPT ![s][d] = NoTask]
  /\ UNCHANGED <<vars, phase, stop, effect, handed>>

\* The executor that a sink deferred to finalizes under the same token.
ExternalFinalize(d, k) ==
  /\ k \in handed[d]
  /\ \/ Succeed(d, k)
     \/ \E retryable \in BOOLEAN, retry_after \in RetryAfters :
          Fail(d, k, retryable, retry_after)
  /\ UNCHANGED relayVars

-----------------------------------------------------------------------------
\* Time passes, but no timer fires more than Lag late.
RelayTick ==
  /\ \A s \in Sessions, d \in Deliveries :
       Active(s, d) => now < task[s][d].cutoff + Lag
  /\ Tick
  /\ UNCHANGED relayVars

Application ==
  /\ \/ \E ds \in SUBSET Deliveries, at \in ApplicationClock :
          \E policyOf \in [ds -> Policies] : Publish(ds, policyOf, at)
     \/ \E source, d \in Deliveries, at \in ApplicationClock :
          Replay(source, d, at)
  /\ UNCHANGED relayVars

Lifecycle(s) ==
  \/ Start(s)
  \/ RequestStop(s)
  \/ NextCycle(s)
  \/ EndCycle(s)
  \/ GraceExpired(s)
  \/ Crash(s)

Control(s) ==
  \/ RelayReconcile(s)
  \/ RelayReconcileNone(s)
  \/ RelaySelect(s)
  \/ RelayLock(s)
  \/ RelayStamp(s)
  \/ ClaimNothing(s)
  \/ RelayClaim(s)
  \/ ClaimAnswerLost(s)
  \/ ControlFailed(s)
  \/ ClaimFatal(s)

Execute(s, d) ==
  \/ Fatal(s, d)
  \/ TaskCancelled(s, d)
  \/ \E reading \in ApplicationClock : TaskStart(s, d, reading)
  \/ SinkEffect(s, d)
  \/ \E verdict \in Verdict \ {"none"} : SinkReturn(s, d, verdict)
  \/ TaskTimeout(s, d)
  \/ SinkDefer(s, d)
  \/ SinkTransient(s, d)
  \/ Finalize(s, d)
  \/ FinalizeLost(s, d)

RelayNext ==
  \/ \E s \in Sessions : Lifecycle(s)
  \/ \E s \in Sessions : Control(s)
  \/ \E s \in Sessions, d \in Deliveries : Execute(s, d)
  \/ \E d \in Deliveries, k \in AttemptNumber : ExternalFinalize(d, k)
  \/ Application
  \/ RelayTick

RelaySpec == RelayInit /\ [][RelayNext]_allVars

\* A supervisor restarts a relay; the poll timer and the grace timer fire.  A cycle
\* may be cut short by a fault, a stop request or a lock, but not every cycle is.  A
\* task gets no help from its sink: only the timers around it are fair.  Once a stop is
\* requested nothing but the poll and grace timers is: the database, the sink and its
\* cancellation may all hang.
RelayFairness ==
  /\ WF_allVars(RelayTick)
  /\ \A s \in Sessions :
       /\ WF_allVars(Start(s))
       /\ WF_allVars(NextCycle(s))
       /\ WF_allVars(GraceExpired(s))
       /\ WF_allVars(EndCycle(s) /\ ~stop[s])
       /\ SF_allVars(RelayReconcile(s) /\ ~stop[s])
       /\ SF_allVars(RelayReconcileNone(s) /\ ~stop[s])
       /\ SF_allVars(RelaySelect(s) /\ ~stop[s])
       /\ SF_allVars(RelayLock(s) /\ ~stop[s])
       /\ SF_allVars(RelayStamp(s) /\ ~stop[s])
       /\ SF_allVars(RelayClaim(s) /\ ~stop[s])
       /\ WF_allVars(ClaimNothing(s) /\ ~stop[s])
       /\ WF_allVars(ClaimFatal(s) /\ ~stop[s])
       /\ \A d \in Deliveries :
            /\ WF_allVars(~stop[s] /\ \E reading \in ApplicationClock : TaskStart(s, d, reading))
            /\ WF_allVars(TaskTimeout(s, d) /\ ~stop[s])
            /\ WF_allVars(FinalizeLost(s, d) /\ ~stop[s])

RelayFairSpec == RelaySpec /\ RelayFairness

-----------------------------------------------------------------------------
\* Every variable has its type.
RelayTypeOK ==
  /\ TypeOK
  /\ phase \in [Sessions -> Phase]
  /\ stop \in [Sessions -> BOOLEAN]
  /\ task \in [Sessions -> [Deliveries -> Task]]
  /\ effect \in [Deliveries -> SUBSET AttemptNumber]
  /\ handed \in [Deliveries -> SUBSET AttemptNumber]

\* The relays only change the ledger the way LeaseRepository specifies: every
\* property of LeaseRepository holds of them, whatever they do with claims.
ImplementsLedger == Spec

\* The task group is the only place where claims live: a relay that polls,
\* reconciles or claims has no task left over, it never runs more than a batch
\* at once, and no claim transaction outlives the claim (relay.py 133-137,
\* 269-282).
CycleOwnsTasks ==
  \A s \in Sessions :
    /\ phase[s] \in {"poll", "reconcile", "claim"} => Busy(s) = {}
    /\ Cardinality(Busy(s)) <= BatchSize
    /\ tx[s].phase # "idle" => phase[s] = "claim"

\* A delivery is recorded as succeeded only when the effect of that very
\* attempt reached the destination or its executor took it over, although
\* timeouts, lost answers and lingering tasks separate the two
\* (relay.py 185-197).
SuccessHasEffect ==
  \A d \in Deliveries, k \in AttemptNumber :
    attempt[d][k].outcome = "succeeded" => k \in effect[d] \cup handed[d]

\* An attempt is executed by one task at most: tokens are never shared between
\* relays, whatever claims overlap (relay.py 134-136, leasing.py 139-158).
OneTaskPerAttempt ==
  \A s, u \in Sessions, d \in Deliveries :
    /\ d \in Busy(s) \cap Busy(u)
    /\ task[s][d].number = task[u][d].number
    => s = u

\* Tasks follow claims: where they live, and one per attempt.
TasksFollowClaims == CycleOwnsTasks /\ OneTaskPerAttempt

\* While a sink runs, its relay holds an unexpired lease, so no two relays
\* execute one delivery at the same time.  It takes a margin: the handler
\* timeout, the clock skew and the timer lag together must stay below the
\* lease duration, and claims must not overlap (relay.py 143-147; RetryPolicy
\* only asks for handler_timeout < lease_duration).
ExecutionHoldsLease ==
  \A s \in Sessions, d \in Deliveries :
    Active(s, d) =>
      /\ delivery[d].state = "leased"
      /\ delivery[d].lease_token = task[s][d].number
      /\ delivery[d].lease_expires_at > now

\* A stop request ends run even if the sink ignores cancellation and the
\* database never answers (relay.py 113-115, 269-282).
StopReturns ==
  \A s \in Sessions : stop[s] ~> phase[s] = "down"
===============================================================================
