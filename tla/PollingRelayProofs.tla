-------------------------- MODULE PollingRelayProofs --------------------------
(***************************************************************************)
(* Theorems about PollingRelay for every fleet of relays, every skew and    *)
(* every lag: the relays implement the ledger of LeaseRepository, so that   *)
(* its theorems carry over to them, and a recorded success is never without *)
(* an effect.  With claims that do not overlap and a margin between handler *)
(* timeout and lease, the relay of a running sink holds the lease.          *)
(***************************************************************************)
EXTENDS PollingRelay, LeaseRepositoryProofs, FiniteSetTheorems

\* A relay's transaction bookkeeping leaves the ledger alone or is a step of
\* the claim of its session.
LEMMA ControlSteps ==
  ASSUME NEW s \in Sessions, Control(s)
  PROVE  [Next]_vars
  <1>1. CASE RelayReconcile(s)
    BY <1>1 DEF RelayReconcile, Next
  <1>2. CASE RelayReconcileNone(s)
    BY <1>2 DEF RelayReconcileNone
  <1>3. CASE RelaySelect(s)
    BY <1>3 DEF RelaySelect, ClaimStep, Next
  <1>4. CASE RelayLock(s)
    BY <1>4 DEF RelayLock, ClaimStep, Next
  <1>5. CASE RelayStamp(s)
    BY <1>5 DEF RelayStamp, ClaimStep, Next
  <1>6. CASE ClaimNothing(s)
    BY <1>6 DEF ClaimNothing
  <1>7. CASE RelayClaim(s)
    BY <1>7 DEF RelayClaim, ClaimStep, Next
  <1>8. CASE ClaimAnswerLost(s)
    BY <1>8 DEF ClaimAnswerLost, ClaimStep, Next
  <1>9. CASE ControlFailed(s)
    BY <1>9 DEF ControlFailed, ClaimStep, Next
  <1>10. CASE ClaimFatal(s)
    BY <1>10 DEF ClaimFatal, ClaimRejected, ClaimStep, Next
  <1>11. QED
    BY <1>1, <1>2, <1>3, <1>4, <1>5, <1>6, <1>7, <1>8, <1>9, <1>10 DEF Control

\* Starting, stopping and crashing aborts at most an open claim transaction.
LEMMA LifecycleSteps ==
  ASSUME NEW s \in Sessions, Lifecycle(s)
  PROVE  [Next]_vars
  <1>1. CASE Start(s) \/ RequestStop(s) \/ NextCycle(s) \/ EndCycle(s)
    BY <1>1 DEF Start, RequestStop, NextCycle, EndCycle
  <1>2. CASE GraceExpired(s)
    BY <1>2 DEF GraceExpired, ClaimStep, Next
  <1>3. CASE Crash(s)
    BY <1>3 DEF Crash, ClaimStep, Next
  <1>4. QED
    BY <1>1, <1>2, <1>3 DEF Lifecycle

\* A task changes the ledger only by its finalization.
LEMMA ExecuteSteps ==
  ASSUME CoreInv, NEW s \in Sessions, NEW d \in Deliveries, Execute(s, d)
  PROVE  [Next]_vars
  <1>1. CASE Finalize(s, d)
    <2> DEFINE k == task[s][d].number
    <2>1. CASE Succeed(d, k)
      <3>1. k \in AttemptNumber
        BY <2>1, LeaseTokens DEF Succeed
      <3>2. QED
        BY <2>1, <3>1 DEF Next
    <2>2. ASSUME NEW h \in RetryAfters, Fail(d, k, task[s][d].verdict = "retryable", h)
          PROVE  [Next]_vars
      <3>1. k \in AttemptNumber
        BY <2>2, LeaseTokens DEF Fail
      <3>2. (task[s][d].verdict = "retryable") \in BOOLEAN
        OBVIOUS
      <3>3. QED
        BY <2>2, <3>1, <3>2 DEF Next
    <2>3. QED
      BY <1>1, <2>1, <2>2 DEF Finalize
  <1>2. CASE \/ Fatal(s, d) \/ TaskCancelled(s, d) \/ SinkEffect(s, d)
             \/ TaskTimeout(s, d) \/ SinkDefer(s, d) \/ SinkTransient(s, d)
             \/ FinalizeLost(s, d)
    BY <1>2 DEF Fatal, TaskCancelled, SinkEffect, TaskTimeout, SinkDefer,
                SinkTransient, FinalizeLost
  <1>3. CASE \E reading \in ApplicationClock : TaskStart(s, d, reading)
    BY <1>3 DEF TaskStart
  <1>4. CASE \E verdict \in Verdict \ {"none"} : SinkReturn(s, d, verdict)
    BY <1>4 DEF SinkReturn
  <1>5. QED
    BY <1>1, <1>2, <1>3, <1>4 DEF Execute

\* Every step of the fleet is a step of the ledger or leaves it unchanged.
LEMMA RelaySteps == CoreInv /\ [RelayNext]_allVars => [Next]_vars
  <1> SUFFICES ASSUME CoreInv, [RelayNext]_allVars PROVE [Next]_vars
    OBVIOUS
  <1>1. CASE \E s \in Sessions : Lifecycle(s)
    BY <1>1, LifecycleSteps
  <1>2. CASE \E s \in Sessions : Control(s)
    BY <1>2, ControlSteps
  <1>3. CASE \E s \in Sessions, d \in Deliveries : Execute(s, d)
    BY <1>3, ExecuteSteps
  <1>4. CASE \E d \in Deliveries, k \in AttemptNumber : ExternalFinalize(d, k)
    BY <1>4 DEF ExternalFinalize, Next
  <1>5. CASE Application
    BY <1>5 DEF Application, Next
  <1>6. CASE RelayTick
    BY <1>6 DEF RelayTick, Next
  <1>7. CASE UNCHANGED allVars
    BY <1>7 DEF allVars
  <1>8. QED
    BY <1>1, <1>2, <1>3, <1>4, <1>5, <1>6, <1>7 DEF RelayNext

\* The ledger's invariant holds of the fleet.
LEMMA RelayCore == RelaySpec => []CoreInv
  <1>1. RelayInit => CoreInv
    BY InitCore DEF RelayInit
  <1>2. CoreInv /\ [RelayNext]_allVars => CoreInv'
    BY RelaySteps, NextCore
  <1>3. QED
    BY <1>1, <1>2, PTL DEF RelaySpec

\* The fleet implements LeaseRepository's specification: whatever its relays,
\* their crashes, lost answers, lingering tasks and skewed clocks do, the
\* ledger only changes as the repository's operations allow.
THEOREM FleetImplementsLedger == RelaySpec => ImplementsLedger
  <1>1. RelayInit => Init
    BY DEF RelayInit
  <1>2. QED
    BY <1>1, RelaySteps, RelayCore, PTL DEF RelaySpec, ImplementsLedger, Spec

-----------------------------------------------------------------------------
(* A recorded success has its effect.                                        *)

\* A task that acted, or that is about to record a success, has its attempt
\* among the effects e of its delivery.
TaskOK(t, e) ==
  /\ t \in Task
  /\ t.stage # "none" => t.number \in AttemptNumber
  /\ t.stage = "acted" \/ t.verdict = "success" => t.number \in e

TasksOK ==
  /\ phase \in [Sessions -> Phase]
  /\ stop \in [Sessions -> BOOLEAN]
  /\ task \in [Sessions -> [Deliveries -> Task]]
  /\ effect \in [Deliveries -> SUBSET AttemptNumber]
  /\ handed \in [Deliveries -> SUBSET AttemptNumber]
  /\ \A s \in Sessions, d \in Deliveries : TaskOK(task[s][d], effect[d])

\* The empty task is in order, whatever happened.
LEMMA NoTaskOK ==
  ASSUME NEW e
  PROVE  TaskOK(NoTask, e) /\ NoTask \in Task
  BY BoundAssumption DEF TaskOK, NoTask, Task, Stage, Token, Verdict

\* A step that replaces one task by a task in order, and may only add effects.
LEMMA OneTaskStep ==
  ASSUME TasksOK, NEW s \in Sessions, NEW d \in Deliveries, NEW t,
         task' = [task EXCEPT ![s][d] = t],
         effect' \in [Deliveries -> SUBSET AttemptNumber],
         \A e \in Deliveries : effect[e] \subseteq effect'[e],
         TaskOK(t, effect'[d]),
         phase' \in [Sessions -> Phase], UNCHANGED stop,
         handed' \in [Deliveries -> SUBSET AttemptNumber]
  PROVE  TasksOK'
  <1>1. t \in Task
    BY DEF TaskOK
  <1>2. task' \in [Sessions -> [Deliveries -> Task]]
    BY <1>1 DEF TasksOK
  <1>3. ASSUME NEW u \in Sessions, NEW e \in Deliveries
        PROVE  TaskOK(task'[u][e], effect'[e])
    <2>1. CASE u = s /\ e = d
      BY <2>1 DEF TasksOK
    <2>2. CASE ~(u = s /\ e = d)
      <3>1. task'[u][e] = task[u][e]
        BY <2>2 DEF TasksOK
      <3>2. QED
        BY <3>1 DEF TasksOK, TaskOK
    <2>3. QED
      BY <2>1, <2>2
  <1>4. QED
    BY <1>2, <1>3 DEF TasksOK

\* A step that leaves effects alone and replaces the tasks of one relay.
LEMMA AllTasksStep ==
  ASSUME TasksOK, NEW s \in Sessions, NEW f \in [Deliveries -> Task],
         task' = [task EXCEPT ![s] = f], UNCHANGED <<effect, handed>>,
         \A d \in Deliveries : TaskOK(f[d], effect[d]),
         phase' \in [Sessions -> Phase], stop' \in [Sessions -> BOOLEAN]
  PROVE  TasksOK'
  BY DEF TasksOK

\* A step that leaves tasks and effects alone.
LEMMA PhaseStep ==
  ASSUME TasksOK, UNCHANGED <<task, effect, handed>>,
         phase' \in [Sessions -> Phase], stop' \in [Sessions -> BOOLEAN]
  PROVE  TasksOK'
  BY DEF TasksOK

\* Starting, stopping and crashing only drops tasks.
LEMMA LifecycleTasks ==
  ASSUME TasksOK, NEW s \in Sessions, Lifecycle(s)
  PROVE  TasksOK'
  <1> USE DEF Phase
  <1>1. NoTasks \in [Deliveries -> Task] /\ \A d \in Deliveries : TaskOK(NoTasks[d], effect[d])
    BY NoTaskOK DEF NoTasks
  <1>2. phase \in [Sessions -> Phase] /\ stop \in [Sessions -> BOOLEAN]
    BY DEF TasksOK
  <1>3. AfterCycle(s) \in Phase
    BY DEF AfterCycle
  <1>4. CASE Start(s) \/ Crash(s)
    <2>1. /\ task' = [task EXCEPT ![s] = NoTasks]
          /\ UNCHANGED <<effect, handed>>
          /\ phase' \in [Sessions -> Phase]
          /\ stop' \in [Sessions -> BOOLEAN]
      BY <1>2, <1>4 DEF Start, Crash
    <2>2. QED
      BY <1>1, <2>1, AllTasksStep
  <1>5. CASE RequestStop(s) \/ NextCycle(s) \/ EndCycle(s) \/ GraceExpired(s)
    <2>1. /\ UNCHANGED <<task, effect, handed>>
          /\ phase' \in [Sessions -> Phase]
          /\ stop' \in [Sessions -> BOOLEAN]
      BY <1>2, <1>3, <1>5 DEF RequestStop, NextCycle, EndCycle, GraceExpired
    <2>2. QED
      BY <2>1, PhaseStep
  <1>6. QED
    BY <1>4, <1>5 DEF Lifecycle

\* Claiming gives every leased row a task that carries its attempt number.
LEMMA ControlTasks ==
  ASSUME CoreInv, TasksOK, NEW s \in Sessions, Control(s)
  PROVE  TasksOK'
  <1>2. phase \in [Sessions -> Phase] /\ stop \in [Sessions -> BOOLEAN]
    BY DEF TasksOK
  <1>3. AfterCycle(s) \in Phase /\ AfterReconcile(s) \in Phase
    BY DEF AfterCycle, AfterReconcile, Phase
  <1>4. CASE RelayReconcile(s) \/ RelayReconcileNone(s) \/ ClaimNothing(s)
             \/ ClaimAnswerLost(s) \/ ControlFailed(s) \/ ClaimFatal(s)
    BY <1>2, <1>3, <1>4, PhaseStep
       DEF RelayReconcile, RelayReconcileNone, ClaimNothing, ClaimAnswerLost,
           ControlFailed, ClaimFatal, Phase
  <1>5. CASE RelaySelect(s) \/ RelayLock(s) \/ RelayStamp(s)
    BY <1>2, <1>5, PhaseStep DEF RelaySelect, RelayLock, RelayStamp, relayVars
  <1>6. CASE RelayClaim(s)
    <2> DEFINE f == [d \in Deliveries |->
                 IF d \in tx[s].locked /\ ~Expired(delivery[d], tx[s].effective_now)
                   THEN [NoTask EXCEPT !.stage = "ready",
                                       !.number = delivery[d].attempts_started + 1]
                   ELSE NoTask]
    <2>1. ASSUME NEW d \in Deliveries
          PROVE  f[d] \in Task /\ TaskOK(f[d], effect[d])
      <3>1. CASE f[d] = NoTask
        BY <3>1, NoTaskOK
      <3>2. CASE /\ d \in tx[s].locked
                 /\ f[d] = [NoTask EXCEPT !.stage = "ready",
                              !.number = delivery[d].attempts_started + 1]
        <4>1. delivery[d].attempts_started < MaxAttemptRows
          BY <1>6, <3>2 DEF RelayClaim, ClaimCommit
        <4>2. delivery[d].attempts_started + 1 \in AttemptNumber
          BY <4>1, RowTypes, BoundAssumption DEF CoreInv, TypeOK, AttemptNumber
        <4>3. f[d] = [stage |-> "ready", number |-> delivery[d].attempts_started + 1,
                      cutoff |-> 0, verdict |-> "none"]
          BY <3>2 DEF NoTask
        <4> HIDE DEF f
        <4>4. QED
          BY <4>2, <4>3 DEF TaskOK, Task, Stage, Token, Verdict, AttemptNumber
      <3>3. QED
        BY <3>1, <3>2
    <2>2. f \in [Deliveries -> Task]
      BY <2>1
    <2>3. task' = [task EXCEPT ![s] = f] /\ UNCHANGED <<stop, effect, handed>>
          /\ phase' \in [Sessions -> Phase]
      BY <1>2, <1>6 DEF RelayClaim, Phase
    <2> HIDE DEF f
    <2>4. QED
      BY <1>2, <2>1, <2>2, <2>3, AllTasksStep
  <1>7. QED
    BY <1>4, <1>5, <1>6 DEF Control

\* The time a task may run is a natural number.
LEMMA RemainingNat ==
  ASSUME CoreInv, NEW d \in Deliveries, NEW k \in AttemptNumber,
         NEW reading \in ApplicationClock
  PROVE  Remaining(d, k, reading) \in Nat /\ now \in Nat
  BY TimeLeftNat DEF Remaining, ApplicationClock

\* A verdict keeps a task in order when a success has its effect.
LEMMA FinalizingOK ==
  ASSUME NEW t, NEW e, TaskOK(t, e), t.stage # "none", NEW v \in Verdict,
         v = "success" => t.number \in e
  PROVE  TaskOK(Finalizing(t, v), e)
  <1>0. t \in Task
    BY DEF TaskOK
  <1> DEFINE f == Finalizing(t, v)
  <1>1. f \in Task
    BY <1>0 DEF Finalizing, Task, Stage
  <1>2. f.stage = "finalizing" /\ f.number = t.number /\ f.verdict = v
    BY <1>0 DEF Finalizing, Task
  <1>3. QED
    BY <1>1, <1>2 DEF TaskOK

\* Each step of a task keeps it in order.
LEMMA ExecuteTasks ==
  ASSUME CoreInv, TasksOK, NEW s \in Sessions, NEW d \in Deliveries, Execute(s, d)
  PROVE  TasksOK'
  <1> DEFINE t == task[s][d]
  <1>1. /\ TaskOK(t, effect[d]) /\ t \in Task
        /\ phase \in [Sessions -> Phase]
        /\ effect \in [Deliveries -> SUBSET AttemptNumber]
        /\ handed \in [Deliveries -> SUBSET AttemptNumber]
    BY DEF TasksOK
  <1>2. TaskOK(NoTask, effect[d])
    BY NoTaskOK
  <1>3. Active(s, d) => t.stage # "none" /\ t.number \in AttemptNumber
    BY <1>1 DEF Active, TaskOK
  <1>4. CASE Fatal(s, d) \/ TaskCancelled(s, d) \/ SinkTransient(s, d)
             \/ Finalize(s, d) \/ FinalizeLost(s, d)
    <2>1. /\ task' = [task EXCEPT ![s][d] = NoTask]
          /\ UNCHANGED <<stop, effect, handed>>
          /\ phase' \in [Sessions -> Phase]
      BY <1>1, <1>4
         DEF Fatal, TaskCancelled, SinkTransient, Finalize, FinalizeLost, Phase
    <2>2. QED
      BY <1>1, <1>2, <2>1, OneTaskStep
  <1>5. CASE SinkDefer(s, d)
    <2>1. /\ task' = [task EXCEPT ![s][d] = NoTask]
          /\ UNCHANGED <<stop, effect, phase>>
          /\ handed' \in [Deliveries -> SUBSET AttemptNumber]
      BY <1>1, <1>3, <1>5 DEF SinkDefer
    <2>2. QED
      BY <1>1, <1>2, <2>1, OneTaskStep
  <1>6. CASE TaskTimeout(s, d)
    <2>1. TaskOK(Finalizing(t, "retryable"), effect[d])
      BY <1>1, <1>3, <1>6, FinalizingOK DEF TaskTimeout, Verdict
    <2>2. /\ task' = [task EXCEPT ![s][d] = Finalizing(t, "retryable")]
          /\ UNCHANGED <<stop, effect, handed, phase>>
      BY <1>6 DEF TaskTimeout
    <2>3. QED
      BY <1>1, <2>1, <2>2, OneTaskStep
  <1>7. ASSUME NEW v \in Verdict \ {"none"}, SinkReturn(s, d, v)
        PROVE  TasksOK'
    <2>1. v = "success" => t.number \in effect[d]
      BY <1>1, <1>7 DEF SinkReturn, TaskOK
    <2>2. TaskOK(Finalizing(t, v), effect[d])
      BY <1>1, <1>3, <1>7, <2>1, FinalizingOK DEF SinkReturn
    <2>3. /\ task' = [task EXCEPT ![s][d] = Finalizing(t, v)]
          /\ UNCHANGED <<stop, effect, handed, phase>>
      BY <1>7 DEF SinkReturn
    <2>4. QED
      BY <1>1, <2>2, <2>3, OneTaskStep
  <1>8. CASE SinkEffect(s, d)
    <2> DEFINE a == [t EXCEPT !.stage = "acted"]
    <2>1. t.number \in AttemptNumber
      BY <1>1, <1>8 DEF SinkEffect, TaskOK
    <2>2. /\ effect' = [effect EXCEPT ![d] = effect[d] \cup {t.number}]
          /\ task' = [task EXCEPT ![s][d] = a]
          /\ UNCHANGED <<stop, handed, phase>>
      BY <1>8 DEF SinkEffect
    <2>3. /\ effect' \in [Deliveries -> SUBSET AttemptNumber]
          /\ \A e \in Deliveries : effect[e] \subseteq effect'[e]
          /\ t.number \in effect'[d]
      BY <1>1, <2>1, <2>2
    <2>4. a = [stage |-> "acted", number |-> t.number, cutoff |-> t.cutoff,
               verdict |-> t.verdict]
      BY <1>1 DEF Task
    <2>5. TaskOK(a, effect'[d])
      BY <1>1, <2>1, <2>3, <2>4 DEF TaskOK, Task, Stage
    <2> HIDE DEF a
    <2>6. QED
      BY <1>1, <2>2, <2>3, <2>5, OneTaskStep
  <1>9. ASSUME NEW reading \in ApplicationClock, TaskStart(s, d, reading)
        PROVE  TasksOK'
    <2> DEFINE r == Remaining(d, t.number, reading)
               b == [stage |-> IF r = 0 THEN "finalizing" ELSE "running",
                     number |-> t.number,
                     cutoff |-> IF r = 0 THEN 0 ELSE now + r,
                     verdict |-> IF r = 0 THEN "retryable" ELSE "none"]
    <2>1. t.number \in AttemptNumber
      BY <1>1, <1>9 DEF TaskStart, TaskOK
    <2>2. r \in Nat /\ now \in Nat
      BY <2>1, RemainingNat
    <2>3. /\ task' = [task EXCEPT ![s][d] = b]
          /\ UNCHANGED <<stop, effect, handed, phase>>
      BY <1>9 DEF TaskStart
    <2> HIDE DEF r
    <2>4. TaskOK(b, effect[d])
      BY <2>1, <2>2 DEF TaskOK, Task, Stage, Token, Verdict, AttemptNumber
    <2> HIDE DEF b
    <2>5. QED
      BY <1>1, <2>3, <2>4, OneTaskStep
  <1>10. QED
    BY <1>4, <1>5, <1>6, <1>7, <1>8, <1>9 DEF Execute

\* Every step of the fleet keeps its tasks in order.
LEMMA NextTasks ==
  ASSUME CoreInv, TasksOK, [RelayNext]_allVars
  PROVE  TasksOK'
  <1>1. CASE Application \/ RelayTick
             \/ (\E d \in Deliveries, k \in AttemptNumber : ExternalFinalize(d, k))
    <2>1. UNCHANGED relayVars
      BY <1>1 DEF Application, RelayTick, ExternalFinalize
    <2>2. QED
      BY <2>1 DEF relayVars, TasksOK
  <1>2. CASE UNCHANGED allVars
    BY <1>2 DEF allVars, relayVars, TasksOK
  <1>3. QED
    BY <1>1, <1>2, LifecycleTasks, ControlTasks, ExecuteTasks DEF RelayNext

\* Effects and hand-overs are never forgotten.
LEMMA EvidenceKept ==
  ASSUME TasksOK, [RelayNext]_allVars, NEW d \in Deliveries
  PROVE  effect[d] \cup handed[d] \subseteq effect'[d] \cup handed'[d]
  <1>0. /\ effect \in [Deliveries -> SUBSET AttemptNumber]
        /\ handed \in [Deliveries -> SUBSET AttemptNumber]
    BY DEF TasksOK
  <1>1. ASSUME NEW s \in Sessions, NEW e \in Deliveries, SinkEffect(s, e)
        PROVE  effect[d] \cup handed[d] \subseteq effect'[d] \cup handed'[d]
    BY <1>0, <1>1 DEF SinkEffect
  <1>2. ASSUME NEW s \in Sessions, NEW e \in Deliveries, SinkDefer(s, e)
        PROVE  effect[d] \cup handed[d] \subseteq effect'[d] \cup handed'[d]
    BY <1>0, <1>2 DEF SinkDefer
  <1>3. ASSUME NEW s \in Sessions, NEW e \in Deliveries, Execute(s, e),
               ~SinkEffect(s, e), ~SinkDefer(s, e)
        PROVE  UNCHANGED <<effect, handed>>
    BY <1>3 DEF Execute, Fatal, TaskCancelled, TaskStart, SinkReturn, TaskTimeout,
                SinkTransient, Finalize, FinalizeLost
  <1>4. ASSUME NEW s \in Sessions, Lifecycle(s)
        PROVE  UNCHANGED <<effect, handed>>
    BY <1>4 DEF Lifecycle, Start, RequestStop, NextCycle, EndCycle, GraceExpired, Crash
  <1>5. ASSUME NEW s \in Sessions, Control(s)
        PROVE  UNCHANGED <<effect, handed>>
    BY <1>5 DEF Control, RelayReconcile, RelayReconcileNone, RelaySelect, RelayLock,
                RelayStamp, ClaimNothing, RelayClaim, ClaimAnswerLost, ControlFailed,
                ClaimFatal, relayVars
  <1>6. CASE \/ Application \/ RelayTick \/ UNCHANGED allVars
             \/ \E e \in Deliveries, k \in AttemptNumber : ExternalFinalize(e, k)
    BY <1>6 DEF Application, RelayTick, ExternalFinalize, relayVars, allVars
  <1>7. QED
    BY <1>1, <1>2, <1>3, <1>4, <1>5, <1>6 DEF RelayNext

\* A step of the fleet records no success but one that has its evidence.
LEMMA FleetSuccess ==
  ASSUME CoreInv, TasksOK, [RelayNext]_allVars
  PROVE  \/ NoneSucceeds
         \/ \E d \in Deliveries : \E j \in effect[d] \cup handed[d] : SucceedsOnly(d, j)
  <1>0. UNCHANGED vars => NoneSucceeds
    BY LedgerSuccess DEF vars
  <1>1. ASSUME NEW s \in Sessions, Lifecycle(s)
        PROVE  NoneSucceeds
    <2>1. UNCHANGED vars \/ ClaimStep(s)
      BY <1>1 DEF Lifecycle, Start, RequestStop, NextCycle, EndCycle, GraceExpired,
                  Crash, ClaimStep
    <2>2. QED
      BY <1>0, <2>1, LedgerSuccess
  <1>2. ASSUME NEW s \in Sessions, Control(s)
        PROVE  NoneSucceeds
    <2>1. UNCHANGED vars \/ ClaimStep(s) \/ ReconcileExpired
      BY <1>2 DEF Control, RelayReconcile, RelayReconcileNone, RelaySelect, RelayLock,
                  RelayStamp, ClaimNothing, RelayClaim, ClaimAnswerLost,
                  ControlFailed, ClaimFatal, ClaimRejected,
                  ClaimStep
    <2>2. QED
      BY <1>0, <2>1, LedgerSuccess
  <1>3. ASSUME NEW s \in Sessions, NEW d \in Deliveries, Finalize(s, d)
        PROVE  \/ NoneSucceeds
               \/ \E j \in effect[d] \cup handed[d] : SucceedsOnly(d, j)
    <2> DEFINE t == task[s][d]
    <2>1. CASE t.verdict = "success" /\ Succeed(d, t.number)
      <3>1. t.number \in effect[d]
        BY <2>1 DEF TasksOK, TaskOK
      <3>2. SucceedsOnly(d, t.number)
        BY <2>1, LedgerSuccess
      <3>3. QED
        BY <3>1, <3>2
    <2>2. CASE \E h \in RetryAfters : Fail(d, t.number, t.verdict = "retryable", h)
      BY <2>2, LedgerSuccess
    <2>3. QED
      BY <1>3, <2>1, <2>2 DEF Finalize
  <1>4. ASSUME NEW s \in Sessions, NEW d \in Deliveries, Execute(s, d), ~Finalize(s, d)
        PROVE  NoneSucceeds
    <2>1. UNCHANGED vars
      BY <1>4 DEF Execute, Fatal, TaskCancelled, TaskStart, SinkEffect, SinkReturn,
                  TaskTimeout, SinkDefer, SinkTransient, FinalizeLost
    <2>2. QED
      BY <1>0, <2>1
  <1>5. ASSUME NEW d \in Deliveries, NEW k \in AttemptNumber, ExternalFinalize(d, k)
        PROVE  \/ NoneSucceeds
               \/ \E j \in effect[d] \cup handed[d] : SucceedsOnly(d, j)
    <2>1. CASE Succeed(d, k)
      <3>1. k \in handed[d]
        BY <1>5 DEF ExternalFinalize
      <3>2. SucceedsOnly(d, k)
        BY <2>1, LedgerSuccess
      <3>3. QED
        BY <3>1, <3>2
    <2>2. CASE \E retryable \in BOOLEAN, h \in RetryAfters : Fail(d, k, retryable, h)
      BY <2>2, LedgerSuccess
    <2>3. QED
      BY <1>5, <2>1, <2>2 DEF ExternalFinalize
  <1>6. CASE Application \/ RelayTick
    <2>1. UNCHANGED attempt
      BY <1>6 DEF Application, RelayTick, Publish, Replay, Tick
    <2>2. QED
      BY <2>1, LedgerSuccess
  <1>7. CASE UNCHANGED allVars
    BY <1>0, <1>7 DEF allVars
  <1>8. QED
    BY <1>1, <1>2, <1>3, <1>4, <1>5, <1>6, <1>7 DEF RelayNext

FleetInv == TasksOK /\ SuccessHasEffect

\* FleetInv is inductive relative to the ledger's invariant.
LEMMA FleetStep == CoreInv /\ FleetInv /\ [RelayNext]_allVars => FleetInv'
  <1> SUFFICES ASSUME CoreInv, TasksOK, SuccessHasEffect, [RelayNext]_allVars
               PROVE  TasksOK' /\ SuccessHasEffect'
    BY DEF FleetInv
  <1>1. TasksOK'
    BY NextTasks
  <1>2. ASSUME NEW d \in Deliveries, NEW k \in AttemptNumber,
               attempt'[d][k].outcome = "succeeded"
        PROVE  k \in effect[d] \cup handed[d]
    BY <1>2, FleetSuccess DEF NoneSucceeds, SucceedsOnly, SuccessHasEffect
  <1>3. SuccessHasEffect'
    BY <1>2, EvidenceKept DEF SuccessHasEffect
  <1>4. QED
    BY <1>1, <1>3

\* The relays start in order.
LEMMA FleetInit == RelayInit => FleetInv
  <1> SUFFICES ASSUME RelayInit PROVE FleetInv
    OBVIOUS
  <1>1. \A s \in Sessions, d \in Deliveries :
          task[s][d] = NoTask /\ TaskOK(task[s][d], effect[d])
    BY NoTaskOK DEF RelayInit, NoTasks
  <1>2. TasksOK
    BY <1>1, NoTaskOK DEF RelayInit, NoTasks, TasksOK, Phase
  <1>3. SuccessHasEffect
    BY DEF RelayInit, Init, NoAttempt, SuccessHasEffect
  <1>4. QED
    BY <1>2, <1>3 DEF FleetInv

\* For every fleet, skew, lag and policy, a delivery recorded as succeeded had
\* the effect of that very attempt, or its executor took the attempt over; and
\* every variable of the relays keeps its type.
THEOREM FleetSafety == RelaySpec => [](RelayTypeOK /\ SuccessHasEffect)
  <1>1. CoreInv /\ FleetInv => RelayTypeOK /\ SuccessHasEffect
    BY DEF CoreInv, FleetInv, TasksOK, RelayTypeOK
  <1>2. QED
    BY <1>1, FleetInit, FleetStep, RelayCore, PTL DEF RelaySpec

-----------------------------------------------------------------------------
(* Tasks follow claims.                                                      *)

\* A task is dropped, or goes on under its attempt number.
TaskKept(old, new) ==
  new.stage # "none" => old.stage # "none" /\ new.number = old.number

TasksKept == \A s \in Sessions, d \in Deliveries : TaskKept(task[s][d], task'[s][d])

\* A step that replaces one task.
LEMMA OneTaskKept ==
  ASSUME TasksOK, NEW s \in Sessions, NEW d \in Deliveries, NEW t,
         task' = [task EXCEPT ![s][d] = t], TaskKept(task[s][d], t)
  PROVE  TasksKept
  BY DEF TasksOK, TasksKept, TaskKept

\* Starting, stopping and crashing adds no task.
LEMMA LifecycleKeeps ==
  ASSUME TasksOK, NEW s \in Sessions, Lifecycle(s)
  PROVE  TasksKept
  <1>1. CASE Start(s) \/ Crash(s)
    BY <1>1 DEF Start, Crash, NoTasks, NoTask, TasksOK, TasksKept, TaskKept
  <1>2. CASE RequestStop(s) \/ NextCycle(s) \/ EndCycle(s) \/ GraceExpired(s)
    BY <1>2 DEF RequestStop, NextCycle, EndCycle, GraceExpired, TasksKept, TaskKept
  <1>3. QED
    BY <1>1, <1>2 DEF Lifecycle

\* Only a claim adds tasks.
LEMMA ControlKeeps ==
  ASSUME TasksOK, NEW s \in Sessions, Control(s), ~RelayClaim(s)
  PROVE  TasksKept
  BY DEF Control, RelayReconcile, RelayReconcileNone, RelaySelect, RelayLock,
         RelayStamp, ClaimNothing, ClaimAnswerLost, ControlFailed, ClaimFatal,
         relayVars, TasksKept, TaskKept

\* No step of a task changes its attempt number.
LEMMA ExecuteKeeps ==
  ASSUME TasksOK, NEW s \in Sessions, NEW d \in Deliveries, Execute(s, d)
  PROVE  TasksKept
  <1> DEFINE t == task[s][d]
  <1>0. t \in Task
    BY DEF TasksOK
  <1>1. CASE \/ Fatal(s, d) \/ TaskCancelled(s, d) \/ SinkDefer(s, d)
             \/ SinkTransient(s, d) \/ Finalize(s, d) \/ FinalizeLost(s, d)
    <2>1. task' = [task EXCEPT ![s][d] = NoTask]
      BY <1>1 DEF Fatal, TaskCancelled, SinkDefer, SinkTransient, Finalize, FinalizeLost
    <2>2. TaskKept(t, NoTask)
      BY DEF TaskKept, NoTask
    <2>3. QED
      BY <2>1, <2>2, OneTaskKept
  <1>2. ASSUME NEW reading \in ApplicationClock, TaskStart(s, d, reading)
        PROVE  TasksKept
    <2> DEFINE late == Remaining(d, t.number, reading) = 0
               new == [stage |-> IF late THEN "finalizing" ELSE "running",
                       number |-> t.number,
                       cutoff |-> IF late THEN 0
                                  ELSE now + Remaining(d, t.number, reading),
                       verdict |-> IF late THEN "retryable" ELSE "none"]
    <2>1. task' = [task EXCEPT ![s][d] = new] /\ new.number = t.number
      BY <1>2 DEF TaskStart
    <2>2. t.stage # "none"
      BY <1>2 DEF TaskStart
    <2>3. TaskKept(t, new)
      BY <2>1, <2>2 DEF TaskKept
    <2>4. QED
      BY <2>1, <2>3, OneTaskKept
  <1>3. CASE SinkEffect(s, d)
    <2>1. /\ task' = [task EXCEPT ![s][d] = [t EXCEPT !.stage = "acted"]]
          /\ t.stage = "running"
      BY <1>0, <1>3 DEF SinkEffect, TasksOK
    <2>2. TaskKept(t, [t EXCEPT !.stage = "acted"])
      BY <1>0, <2>1 DEF TaskKept, Task
    <2>3. QED
      BY <2>1, <2>2, OneTaskKept
  <1>4. CASE \/ TaskTimeout(s, d)
             \/ \E verdict \in Verdict \ {"none"} : SinkReturn(s, d, verdict)
    <2>1. PICK v \in Verdict :
            /\ task' = [task EXCEPT ![s][d] = Finalizing(t, v)]
            /\ Active(s, d)
      BY <1>4 DEF TaskTimeout, SinkReturn, Verdict, TasksOK
    <2>2. TaskKept(t, Finalizing(t, v))
      BY <1>0, <2>1 DEF TaskKept, Task, Finalizing, Active
    <2>3. QED
      BY <2>1, <2>2, OneTaskKept
  <1>5. QED
    BY <1>1, <1>2, <1>3, <1>4 DEF Execute

\* A step that is no claim adds no task.
LEMMA NextKeeps ==
  ASSUME TasksOK, [RelayNext]_allVars, \A s \in Sessions : ~RelayClaim(s)
  PROVE  TasksKept
  <1>1. CASE \/ Application \/ RelayTick \/ UNCHANGED allVars
             \/ \E e \in Deliveries, k \in AttemptNumber : ExternalFinalize(e, k)
    BY <1>1 DEF Application, RelayTick, ExternalFinalize, relayVars, allVars,
                TasksKept, TaskKept
  <1>2. QED
    BY <1>1, LifecycleKeeps, ControlKeeps, ExecuteKeeps DEF RelayNext

-----------------------------------------------------------------------------
(* Attempts are counted up.                                                  *)

\* attempts_started never falls.
LEMMA CountNeverFalls ==
  ASSUME CoreInv, [Next]_vars, NEW d \in Deliveries
  PROVE  delivery[d].attempts_started <= delivery'[d].attempts_started
  <1> DEFINE r == delivery[d]
             q == delivery'[d]
  <1>1. /\ r \in DeliveryRow /\ r.attempts_started \in Nat
        /\ r.state = "absent" => r.attempts_started = 0
    BY RowTypes DEF CoreInv, TypeOK, RowOK
  <1>2. RowStep(r, attempt[d], q, attempt'[d], now, Racing)
    BY StepRows
  <1>3. CASE CreateRow(r, attempt[d], q, attempt'[d])
    BY <1>1, <1>3 DEF CreateRow, PendingRow
  <1>4. CASE ClaimRow(r, attempt[d], q, attempt'[d], Racing)
    <2>1. PICK c \in Nat : q = ClaimedRow(r, c)
      BY <1>4 DEF ClaimRow
    <2>2. q.attempts_started \in {r.attempts_started, r.attempts_started + 1}
      BY <1>1, <2>1 DEF ClaimedRow, DeliveryRow
    <2>3. QED
      BY <1>1, <2>2
  <1>5. CASE CloseRow(r, attempt[d], q, attempt'[d], now)
    BY <1>1, <1>5 DEF CloseRow, Released, DeliveryRow
  <1>6. QED
    BY <1>1, <1>2, <1>3, <1>4, <1>5 DEF RowStep

\* The rows a claim transaction has locked are never more than a batch.
LocksOK ==
  \A s \in Sessions :
    IsFiniteSet(tx[s].locked) /\ Cardinality(tx[s].locked) <= BatchSize

LEMMA LocksStep ==
  ASSUME CoreInv, LocksOK, [Next]_vars
  PROVE  LocksOK'
  <1>0. tx \in [Sessions -> ClaimTx] /\ BatchSize \in Nat \ {0}
    BY BoundAssumption DEF CoreInv, TypeOK
  <1>1. ASSUME NEW s \in Sessions, NEW L, tx'[s].locked = L,
               \A u \in Sessions \ {s} : tx'[u] = tx[u],
               IsFiniteSet(L), Cardinality(L) <= BatchSize
        PROVE  LocksOK'
    BY <1>1 DEF LocksOK
  <1>2. ASSUME NEW s \in Sessions, ClaimStep(s)
        PROVE  LocksOK'
    <2>0. \A u \in Sessions \ {s} : tx'[u] = tx[u]
      BY <1>0, <1>2 DEF ClaimStep, ClaimSelect, ClaimLockRow, ClaimStamp,
                        ClaimCommit, ClaimAbort
    <2>1. CASE ClaimSelect(s) \/ ClaimCommit(s) \/ ClaimAbort(s)
      <3>1. tx'[s].locked = {}
        BY <1>0, <2>1 DEF ClaimSelect, ClaimCommit, ClaimAbort, NoTx
      <3>2. IsFiniteSet({}) /\ Cardinality({}) <= BatchSize
        BY <1>0, FS_EmptySet
      <3>3. QED
        BY <1>1, <2>0, <3>1, <3>2
    <2>2. ASSUME NEW d \in Deliveries, NEW skipped \in BOOLEAN,
                 ClaimLockRow(s, d, skipped)
          PROVE  LocksOK'
      <3>1. tx'[s].locked = IF skipped THEN tx[s].locked ELSE tx[s].locked \cup {d}
        BY <1>0, <2>2 DEF ClaimLockRow
      <3>2. IsFiniteSet(tx[s].locked) /\ Cardinality(tx[s].locked) < BatchSize
        BY <2>2 DEF ClaimLockRow, LocksOK
      <3>3. Cardinality(tx[s].locked) \in Nat
        BY <3>2, FS_CardinalityType
      <3>4. /\ IsFiniteSet(tx[s].locked \cup {d})
            /\ Cardinality(tx[s].locked \cup {d}) <= BatchSize
        <4>1. /\ IsFiniteSet(tx[s].locked \cup {d})
              /\ \/ Cardinality(tx[s].locked \cup {d}) = Cardinality(tx[s].locked)
                 \/ Cardinality(tx[s].locked \cup {d}) = Cardinality(tx[s].locked) + 1
          BY <3>2, FS_AddElement, Zenon
        <4>2. QED
          BY <1>0, <3>2, <3>3, <4>1
      <3>5. IsFiniteSet(tx'[s].locked) /\ Cardinality(tx'[s].locked) <= BatchSize
        <4>1. CASE skipped
          BY <1>0, <3>1, <3>2, <3>3, <4>1
        <4>2. CASE ~skipped
          BY <3>1, <3>4, <4>2
        <4>3. QED
          BY <4>1, <4>2
      <3>6. QED
        BY <1>1, <2>0, <3>5
    <2>3. CASE ClaimStamp(s)
      <3>1. tx'[s].locked = tx[s].locked
        BY <1>0, <2>3 DEF ClaimStamp
      <3>2. QED
        BY <1>1, <2>0, <3>1 DEF LocksOK
    <2>4. QED
      BY <1>2, <2>1, <2>2, <2>3 DEF ClaimStep
  <1>3. ASSUME tx' = tx PROVE LocksOK'
    BY <1>3 DEF LocksOK
  <1>4. QED
    BY <1>2, <1>3 DEF Next, Publish, Succeed, Fail, ReconcileExpired, Replay, Tick, vars

-----------------------------------------------------------------------------
(* The invariant of a fleet's tasks and its proof.                           *)

\* Besides TasksFollowClaims: a task's number was counted, and what a claim is
\* about to turn into tasks fits a batch.
ClaimsInv ==
  /\ LocksOK
  /\ \A s \in Sessions : phase[s] \in {"poll", "reconcile", "claim"} => Busy(s) = {}
  /\ \A s \in Sessions : IsFiniteSet(Busy(s)) /\ Cardinality(Busy(s)) <= BatchSize
  /\ \A s \in Sessions : tx[s].phase # "idle" => phase[s] = "claim"
  /\ \A s \in Sessions, d \in Deliveries :
       d \in Busy(s) => task[s][d].number <= delivery[d].attempts_started
  /\ OneTaskPerAttempt

\* What a step may do to the phase and the transaction of a relay: a relay that
\* is not executing keeps its task group empty, and its transaction ends with
\* the claim phase.
LEMMA PhasesStep ==
  ASSUME CoreInv, TasksOK, ClaimsInv, [RelayNext]_allVars, NEW u \in Sessions
  PROVE  /\ tx'[u].phase # "idle" => phase'[u] = "claim"
         /\ phase'[u] \in {"poll", "reconcile", "claim"} =>
              \/ phase[u] \in {"poll", "reconcile", "claim"}
              \/ Busy(u) = {}
              \/ task'[u] = NoTasks
  <1> DEFINE Goal ==
        /\ tx'[u].phase # "idle" => phase'[u] = "claim"
        /\ phase'[u] \in {"poll", "reconcile", "claim"} =>
             \/ phase[u] \in {"poll", "reconcile", "claim"}
             \/ Busy(u) = {}
             \/ task'[u] = NoTasks
  <1>0. /\ tx \in [Sessions -> ClaimTx] /\ phase \in [Sessions -> Phase]
        /\ task \in [Sessions -> [Deliveries -> Task]]
        /\ \A s \in Sessions : tx[s].phase # "idle" => phase[s] = "claim"
        /\ NoTx.phase = "idle"
    BY DEF CoreInv, TypeOK, TasksOK, ClaimsInv, NoTx
  <1>1. ASSUME NEW s \in Sessions, Lifecycle(s)
        PROVE  Goal
    <2>1. CASE Start(s)
      BY <1>0, <2>1 DEF Start, vars
    <2>2. CASE RequestStop(s) \/ NextCycle(s)
      BY <1>0, <2>2 DEF RequestStop, NextCycle, vars
    <2>3. CASE EndCycle(s)
      BY <1>0, <2>3 DEF EndCycle, vars
    <2>4. CASE GraceExpired(s) \/ Crash(s)
      <3>1. /\ phase' = [phase EXCEPT ![s] = "down"]
            /\ \A v \in Sessions \ {s} : tx'[v] = tx[v]
            /\ tx'[s].phase = "idle"
        BY <1>0, <2>4 DEF GraceExpired, Crash, ClaimAbort, vars
      <3>2. QED
        BY <1>0, <3>1
    <2>5. QED
      BY <1>1, <2>1, <2>2, <2>3, <2>4 DEF Lifecycle
  <1>2. ASSUME NEW s \in Sessions, Control(s)
        PROVE  Goal
    <2>1. CASE RelayReconcile(s) \/ RelayReconcileNone(s) \/ ClaimNothing(s)
      BY <1>0, <2>1
         DEF RelayReconcile, ReconcileExpired, RelayReconcileNone, ClaimNothing, vars
    <2>2. CASE RelaySelect(s) \/ RelayLock(s) \/ RelayStamp(s)
      <3>1. UNCHANGED phase /\ phase[s] = "claim"
        BY <1>0, <2>2 DEF RelaySelect, RelayLock, RelayStamp, ClaimLockRow, ClaimStamp,
                          relayVars
      <3>2. \A v \in Sessions \ {s} : tx'[v] = tx[v]
        BY <1>0, <2>2 DEF RelaySelect, RelayLock, RelayStamp, ClaimSelect, ClaimLockRow,
                          ClaimStamp
      <3>3. QED
        BY <1>0, <3>1, <3>2
    <2>3. CASE RelayClaim(s)
      BY <1>0, <2>3 DEF RelayClaim, ClaimCommit
    <2>4. CASE ClaimAnswerLost(s)
      BY <1>0, <2>4 DEF ClaimAnswerLost, ClaimCommit
    <2>5. CASE ControlFailed(s)
      <3>1. /\ phase[s] \in {"reconcile", "claim"}
            /\ phase' = [phase EXCEPT ![s] = AfterCycle(s)]
            /\ \A v \in Sessions \ {s} : tx'[v] = tx[v]
            /\ tx'[s].phase = "idle"
        BY <1>0, <2>5 DEF ControlFailed, ClaimAbort, ReconcileExpired, vars
      <3>2. QED
        BY <1>0, <3>1
    <2>6. CASE ClaimFatal(s)
      BY <1>0, <2>6 DEF ClaimFatal, ClaimRejected, ClaimAbort
    <2>7. QED
      BY <1>2, <2>1, <2>2, <2>3, <2>4, <2>5, <2>6 DEF Control
  <1>3. ASSUME NEW s \in Sessions, NEW d \in Deliveries, Execute(s, d)
        PROVE  Goal
    <2>1. UNCHANGED tx
      BY <1>3 DEF Execute, Fatal, TaskCancelled, TaskStart, SinkEffect, SinkReturn,
                  TaskTimeout, SinkDefer, SinkTransient, Finalize, Succeed, Fail,
                  FinalizeLost, vars
    <2>2. UNCHANGED phase \/ (phase[s] = "execute" /\ phase' = [phase EXCEPT ![s] = "down"])
      BY <1>3 DEF Execute, Fatal, TaskCancelled, TaskStart, SinkEffect, SinkReturn,
                  TaskTimeout, SinkDefer, SinkTransient, Finalize, FinalizeLost
    <2>3. QED
      BY <1>0, <2>1, <2>2
  <1>4. CASE \/ Application \/ RelayTick \/ UNCHANGED allVars
             \/ \E e \in Deliveries, k \in AttemptNumber : ExternalFinalize(e, k)
    <2>1. UNCHANGED <<tx, phase>>
      BY <1>4 DEF Application, Publish, Replay, RelayTick, Tick, ExternalFinalize,
                  Succeed, Fail, relayVars, allVars, vars
    <2>2. QED
      BY <1>0, <2>1
  <1>5. QED
    BY <1>1, <1>2, <1>3, <1>4 DEF RelayNext

\* A step that adds no task keeps the invariant.
LEMMA ClaimsKept ==
  ASSUME CoreInv, TasksOK, ClaimsInv, [RelayNext]_allVars, TasksKept
  PROVE  ClaimsInv'
  <1>1. [Next]_vars
    BY RelaySteps
  <1>2. \A s \in Sessions : Busy(s)' \subseteq Busy(s)
    BY DEF Busy, TasksKept, TaskKept
  <1>3. LocksOK'
    BY <1>1, LocksStep DEF ClaimsInv
  <1>4. ASSUME NEW s \in Sessions
        PROVE  IsFiniteSet(Busy(s)') /\ Cardinality(Busy(s)') <= BatchSize
    <2>1. IsFiniteSet(Busy(s)) /\ Cardinality(Busy(s)) <= BatchSize
      BY DEF ClaimsInv
    <2>2. IsFiniteSet(Busy(s)') /\ Cardinality(Busy(s)') <= Cardinality(Busy(s))
      BY <1>2, <2>1, FS_Subset
    <2>3. Cardinality(Busy(s)) \in Nat /\ Cardinality(Busy(s)') \in Nat
      BY <2>1, <2>2, FS_CardinalityType
    <2>4. QED
      BY <2>1, <2>2, <2>3, BoundAssumption
  <1>5. ASSUME NEW s \in Sessions, phase'[s] \in {"poll", "reconcile", "claim"}
        PROVE  Busy(s)' = {}
    <2>1. CASE task'[s] = NoTasks
      BY <2>1 DEF Busy, NoTasks, NoTask
    <2>2. CASE task'[s] # NoTasks
      BY <1>2, <1>5, <2>2, PhasesStep DEF ClaimsInv
    <2>3. QED
      BY <2>1, <2>2
  <1>6. ASSUME NEW s \in Sessions, NEW d \in Deliveries, d \in Busy(s)'
        PROVE  task'[s][d].number <= delivery'[d].attempts_started
    <2>1. d \in Busy(s) /\ task'[s][d].number = task[s][d].number
      BY <1>6 DEF Busy, TasksKept, TaskKept
    <2>2. task[s][d].number <= delivery[d].attempts_started
      BY <2>1 DEF ClaimsInv
    <2>3. delivery[d].attempts_started <= delivery'[d].attempts_started
      BY <1>1, CountNeverFalls
    <2>4. /\ task[s][d].number \in Nat /\ delivery[d].attempts_started \in Nat
      BY RowTypes, BoundAssumption DEF TasksOK, Task, Token, CoreInv, TypeOK
    <2>5. CoreInv'
      BY <1>1, NextCore
    <2>6. delivery'[d].attempts_started \in Nat
      BY <2>5, RowTypes, BoundAssumption DEF CoreInv, TypeOK
    <2>7. QED
      BY <2>1, <2>2, <2>3, <2>4, <2>6
  <1>7. OneTaskPerAttempt'
    BY DEF ClaimsInv, OneTaskPerAttempt, Busy, TasksKept, TaskKept
  <1>8. QED
    BY <1>3, <1>4, <1>5, <1>6, <1>7, PhasesStep DEF ClaimsInv

\* A claim gives its relay, which has no other task, one per leased row, with
\* numbers that no task of any relay has yet.
LEMMA ClaimsTaken ==
  ASSUME CoreInv, TasksOK, ClaimsInv, NEW s \in Sessions, RelayClaim(s)
  PROVE  ClaimsInv'
  <1>0. /\ [RelayNext]_allVars /\ [Next]_vars
        /\ task \in [Sessions -> [Deliveries -> Task]]
        /\ delivery \in [Deliveries -> DeliveryRow]
        /\ tx \in [Sessions -> ClaimTx] /\ phase \in [Sessions -> Phase]
    <2>1. [RelayNext]_allVars
      BY DEF RelayNext, Control
    <2>2. QED
      BY <2>1, RelaySteps DEF TasksOK, CoreInv, TypeOK
  <1>1. \A u \in Sessions \ {s} : task'[u] = task[u] /\ phase'[u] = phase[u]
    BY <1>0 DEF RelayClaim
  <1>2. ASSUME NEW d \in Deliveries, d \in Busy(s)'
        PROVE  /\ d \in tx[s].locked
               /\ task'[s][d].number = delivery[d].attempts_started + 1
               /\ delivery'[d].attempts_started = delivery[d].attempts_started + 1
    <2>1. task'[s][d].stage # "none"
      BY <1>2 DEF Busy
    <2>2. /\ d \in tx[s].locked /\ ~Expired(delivery[d], tx[s].effective_now)
          /\ task'[s][d].number = delivery[d].attempts_started + 1
      BY <1>0, <2>1 DEF RelayClaim, NoTask
    <2>3. delivery'[d] = ClaimedRow(delivery[d], tx[s].effective_now)
      BY <1>0, <2>2 DEF RelayClaim, ClaimCommit
    <2>4. QED
      BY <1>0, <2>2, <2>3 DEF ClaimedRow, DeliveryRow
  <1>3. \A u \in Sessions \ {s} : Busy(u)' = Busy(u)
    BY <1>1 DEF Busy
  <1>4. IsFiniteSet(Busy(s)') /\ Cardinality(Busy(s)') <= BatchSize
    <2>1. Busy(s)' \subseteq tx[s].locked
      BY <1>2 DEF Busy
    <2>2. IsFiniteSet(tx[s].locked) /\ Cardinality(tx[s].locked) <= BatchSize
      BY DEF ClaimsInv, LocksOK
    <2>3. IsFiniteSet(Busy(s)') /\ Cardinality(Busy(s)') <= Cardinality(tx[s].locked)
      BY <2>1, <2>2, FS_Subset
    <2>4. Cardinality(tx[s].locked) \in Nat /\ Cardinality(Busy(s)') \in Nat
      BY <2>2, <2>3, FS_CardinalityType
    <2>5. QED
      BY <2>2, <2>3, <2>4, BoundAssumption
  <1>5. LocksOK'
    BY <1>0, LocksStep DEF ClaimsInv
  <1>6. \A u \in Sessions : phase'[u] \in {"poll", "reconcile", "claim"} => Busy(u)' = {}
    <2>1. phase'[s] = "execute"
      BY <1>0 DEF RelayClaim
    <2>2. QED
      BY <1>1, <1>3, <2>1 DEF ClaimsInv
  <1>7. \A d \in Deliveries :
          delivery[d].attempts_started \in Nat /\ delivery'[d].attempts_started \in Nat
    <2>1. CoreInv'
      BY <1>0, NextCore
    <2>2. QED
      BY <2>1, RowTypes, BoundAssumption DEF CoreInv, TypeOK
  <1>8. \A u \in Sessions \ {s}, d \in Deliveries : d \in Busy(u) =>
          /\ task'[u][d].number \in Nat
          /\ task'[u][d].number <= delivery[d].attempts_started
    BY <1>0, <1>1, BoundAssumption DEF ClaimsInv, Task, Token
  <1>9. ASSUME NEW u \in Sessions, NEW d \in Deliveries, d \in Busy(u)'
        PROVE  task'[u][d].number <= delivery'[d].attempts_started
    <2>1. CASE u = s
      BY <1>2, <1>7, <1>9, <2>1
    <2>2. CASE u # s
      <3>1. delivery[d].attempts_started <= delivery'[d].attempts_started
        BY <1>0, CountNeverFalls
      <3>2. QED
        BY <1>3, <1>7, <1>8, <1>9, <2>2, <3>1
    <2>3. QED
      BY <2>1, <2>2
  <1>10. ASSUME NEW u \in Sessions, NEW v \in Sessions, NEW d \in Deliveries,
                d \in Busy(u)' \cap Busy(v)',
                task'[u][d].number = task'[v][d].number
         PROVE  u = v
    <2>1. CASE u # s /\ v # s
      BY <1>1, <1>3, <1>10, <2>1 DEF ClaimsInv, OneTaskPerAttempt
    <2>2. CASE u = s /\ v # s
      BY <1>2, <1>3, <1>7, <1>8, <1>10, <2>2
    <2>3. CASE u # s /\ v = s
      BY <1>2, <1>3, <1>7, <1>8, <1>10, <2>3
    <2>4. QED
      BY <2>1, <2>2, <2>3
  <1>11. OneTaskPerAttempt'
    BY <1>10 DEF OneTaskPerAttempt
  <1>12. QED
    BY <1>0, <1>3, <1>4, <1>5, <1>6, <1>9, <1>11, PhasesStep DEF ClaimsInv

\* Claims and tasks agree in every reachable state.
LEMMA FleetClaims == RelaySpec => []ClaimsInv
  <1>1. RelayInit => ClaimsInv
    <2> SUFFICES ASSUME RelayInit PROVE ClaimsInv
      OBVIOUS
    <2>1. \A s \in Sessions : Busy(s) = {} /\ tx[s].locked = {} /\ tx[s].phase = "idle"
      BY DEF RelayInit, Init, NoTx, Busy, NoTasks, NoTask
    <2>2. IsFiniteSet({}) /\ Cardinality({}) <= BatchSize
      BY FS_EmptySet, BoundAssumption
    <2>3. QED
      BY <2>1, <2>2 DEF ClaimsInv, LocksOK, OneTaskPerAttempt
  <1>2. CoreInv /\ FleetInv /\ ClaimsInv /\ [RelayNext]_allVars => ClaimsInv'
    BY ClaimsKept, ClaimsTaken, NextKeeps DEF FleetInv
  <1>3. QED
    BY <1>1, <1>2, FleetInit, FleetStep, RelayCore, PTL DEF RelaySpec

\* For every fleet: tasks live in the task group of an executing relay, never
\* more than a batch, no claim transaction outlives its claim, and no attempt
\* is executed by two tasks, however the claims overlap.
THEOREM FleetTasks == RelaySpec => []TasksFollowClaims
  <1>1. ClaimsInv => TasksFollowClaims
    BY DEF ClaimsInv, TasksFollowClaims, CycleOwnsTasks
  <1>2. QED
    BY <1>1, FleetClaims, PTL

-----------------------------------------------------------------------------
(* While a sink runs its relay holds the lease.                              *)

\* Claims of relays do not overlap and hold only waiting rows.
ApartInv ==
  /\ \A s, u \in Sessions : tx[s].phase # "idle" /\ tx[u].phase # "idle" => s = u
  /\ \A s \in Sessions : tx[s].phase = "idle" => tx[s].selected \cup tx[s].locked = {}
  /\ HoldsWaiting

\* What a step does to the claim transactions: at most one of them moves, one
\* that begins finds all others idle, and one that ends lets go of every row.
LEMMA TxMoves ==
  ASSUME CoreInv, ~OverlappingClaims, [RelayNext]_allVars
  PROVE  \/ tx' = tx
         \/ \E s \in Sessions :
              /\ \A u \in Sessions \ {s} : tx'[u] = tx[u]
              /\ \/ tx'[s] = NoTx
                 \/ tx[s].phase # "idle" /\ tx'[s].phase # "idle"
                 \/ tx'[s].phase # "idle" /\ \A u \in Sessions : tx[u].phase = "idle"
  <1> DEFINE Goal ==
        \/ tx' = tx
        \/ \E s \in Sessions :
             /\ \A u \in Sessions \ {s} : tx'[u] = tx[u]
             /\ \/ tx'[s] = NoTx
                \/ tx[s].phase # "idle" /\ tx'[s].phase # "idle"
                \/ tx'[s].phase # "idle" /\ \A u \in Sessions : tx[u].phase = "idle"
  <1>0. tx \in [Sessions -> ClaimTx]
    BY DEF CoreInv, TypeOK
  <1>1. ASSUME NEW s \in Sessions, ClaimAbort(s) \/ ClaimCommit(s)
        PROVE  Goal
    BY <1>0, <1>1 DEF ClaimAbort, ClaimCommit
  <1>2. ASSUME NEW s \in Sessions, Lifecycle(s)
        PROVE  Goal
    BY <1>1, <1>2 DEF Lifecycle, Start, RequestStop, NextCycle, EndCycle,
                      GraceExpired, Crash, vars
  <1>3. ASSUME NEW s \in Sessions, Control(s)
        PROVE  Goal
    <2>1. CASE RelaySelect(s)
      <3>1. /\ \A u \in Sessions : tx[u].phase = "idle"
            /\ \A u \in Sessions \ {s} : tx'[u] = tx[u]
            /\ tx'[s].phase = "locking"
        BY <1>0, <2>1 DEF RelaySelect, ClaimSelect
      <3>2. QED
        BY <3>1
    <2>2. CASE RelayLock(s) \/ RelayStamp(s)
      <3>1. /\ tx[s].phase = "locking" /\ tx'[s].phase \in {"locking", "claiming"}
            /\ \A u \in Sessions \ {s} : tx'[u] = tx[u]
        BY <1>0, <2>2 DEF RelayLock, RelayStamp, ClaimLockRow, ClaimStamp
      <3>2. QED
        BY <3>1
    <2>3. QED
      BY <1>1, <1>3, <2>1, <2>2
         DEF Control, RelayReconcile, ReconcileExpired, RelayReconcileNone,
             ClaimNothing, RelayClaim, ClaimAnswerLost, ControlFailed, ClaimFatal,
             ClaimRejected, vars
  <1>4. ASSUME NEW s \in Sessions, NEW d \in Deliveries, Execute(s, d)
        PROVE  tx' = tx
    BY <1>4 DEF Execute, Fatal, TaskCancelled, TaskStart, SinkEffect, SinkReturn,
                TaskTimeout, SinkDefer, SinkTransient, Finalize, Succeed, Fail,
                FinalizeLost, vars
  <1>5. CASE \/ Application \/ RelayTick \/ UNCHANGED allVars
             \/ \E e \in Deliveries, k \in AttemptNumber : ExternalFinalize(e, k)
    BY <1>5 DEF Application, Publish, Replay, RelayTick, Tick, ExternalFinalize,
                Succeed, Fail, allVars, vars
  <1>6. QED
    BY <1>2, <1>3, <1>4, <1>5 DEF RelayNext

LEMMA ApartStep ==
  ASSUME CoreInv, ApartInv, ~OverlappingClaims, [RelayNext]_allVars
  PROVE  ApartInv'
  <1>1. [Next]_vars
    BY RelaySteps
  <1>2. CommitsAlone
    <2>1. \A s \in Sessions : ClaimCommit(s) => tx[s].phase # "idle"
      BY DEF ClaimCommit
    <2>2. QED
      BY <2>1 DEF CommitsAlone, ApartInv
  <1>3. HoldsWaiting'
    BY <1>1, <1>2, HoldsWaitingStep DEF ApartInv
  <1>4. NoTx.phase = "idle" /\ NoTx.selected \cup NoTx.locked = {}
    BY DEF NoTx
  <1>5. /\ \A s, u \in Sessions : tx'[s].phase # "idle" /\ tx'[u].phase # "idle" => s = u
        /\ \A s \in Sessions : tx'[s].phase = "idle" => tx'[s].selected \cup tx'[s].locked = {}
    BY <1>4, TxMoves DEF ApartInv
  <1>6. QED
    BY <1>3, <1>5 DEF ApartInv

\* The ledger changes through a finalization or through a step that respects
\* live leases.
LEMMA RelayLedger ==
  ASSUME [RelayNext]_allVars
  PROVE  \/ \E ds \in SUBSET Deliveries, at \in ApplicationClock :
              \E policyOf \in [ds -> Policies] : Publish(ds, policyOf, at)
         \/ \E source, d \in Deliveries, at \in ApplicationClock : Replay(source, d, at)
         \/ \E s \in Sessions : ClaimStep(s)
         \/ ReconcileExpired \/ Tick \/ UNCHANGED vars
         \/ \E s \in Sessions, d \in Deliveries : Finalize(s, d)
         \/ \E d \in Deliveries, k \in AttemptNumber : ExternalFinalize(d, k)
  <1>1. ASSUME NEW s \in Sessions, Lifecycle(s)
        PROVE  UNCHANGED vars \/ ClaimStep(s)
    BY <1>1 DEF Lifecycle, Start, RequestStop, NextCycle, EndCycle, GraceExpired,
                Crash, ClaimStep
  <1>2. ASSUME NEW s \in Sessions, Control(s)
        PROVE  UNCHANGED vars \/ ReconcileExpired \/ ClaimStep(s)
    BY <1>2 DEF Control, RelayReconcile, RelayReconcileNone, RelaySelect, RelayLock,
                RelayStamp, ClaimNothing, RelayClaim, ClaimAnswerLost, ControlFailed,
                ClaimFatal, ClaimRejected, ClaimStep
  <1>3. ASSUME NEW s \in Sessions, NEW d \in Deliveries, Execute(s, d)
        PROVE  UNCHANGED vars \/ Finalize(s, d)
    BY <1>3 DEF Execute, Fatal, TaskCancelled, TaskStart, SinkEffect, SinkReturn,
                TaskTimeout, SinkDefer, SinkTransient, FinalizeLost
  <1>4. CASE Application
    BY <1>4 DEF Application
  <1>5. CASE RelayTick \/ UNCHANGED allVars
    BY <1>5 DEF RelayTick, allVars
  <1>6. QED
    BY <1>1, <1>2, <1>3, <1>4, <1>5 DEF RelayNext

\* The task has yet to finish its sink.
Underway(t) == t.stage \in {"ready", "running", "acted"}

\* The end of the lease under which attempt k runs.
LeaseEnd(row, attempts, k) == attempts[k].started_at + row.policy.lease_duration

\* A task under way has not been handed over, holds the lease until its end, and
\* its sink is gone before that.
HoldOK(t, row, attempts, at, h) ==
  Underway(t) =>
    /\ t.number \notin h
    /\ at < LeaseEnd(row, attempts, t.number) =>
         row.state = "leased" /\ row.lease_token = t.number
    /\ t.stage # "ready" =>
         /\ t.cutoff + Lag < LeaseEnd(row, attempts, t.number)
         /\ at <= t.cutoff + Lag

Hold(s, d) == HoldOK(task[s][d], delivery[d], attempt[d], now, handed[d])
HoldNext(s, d) == HoldOK(task'[s][d], delivery'[d], attempt'[d], now', handed'[d])

HoldInv ==
  /\ ApartInv
  /\ \A d \in Deliveries : \A k \in handed[d] : k <= delivery[d].attempts_started
  /\ \A s \in Sessions, d \in Deliveries : Hold(s, d)

\* The margin an operator has to leave: RetryPolicy alone does not ask for it.
Margin == \A p \in Policies : p.handler_timeout + Skew + Lag < p.lease_duration

\* The attempt of a task under way exists and keeps the end of its lease.
LEMMA UnderwayFacts ==
  ASSUME CoreInv, TasksOK, ClaimsInv, [Next]_vars,
         NEW s \in Sessions, NEW d \in Deliveries, Underway(task[s][d])
  PROVE  LET k == task[s][d].number
         IN  /\ k \in AttemptNumber /\ d \in Busy(s) /\ k <= delivery[d].attempts_started
             /\ LeaseEnd(delivery[d], attempt[d], k) \in Nat
             /\ task[s][d].cutoff \in Nat
             /\ attempt[d][k].outcome # "absent"
             /\ LeaseEnd(delivery'[d], attempt'[d], k) = LeaseEnd(delivery[d], attempt[d], k)
             /\ delivery[d].state = "leased" /\ delivery[d].lease_token = k =>
                  delivery[d].lease_expires_at = LeaseEnd(delivery[d], attempt[d], k)
  <1> DEFINE k == task[s][d].number
  <1>1. k \in AttemptNumber /\ d \in Busy(s) /\ task[s][d].cutoff \in Nat
    BY DEF TasksOK, TaskOK, Underway, Busy, Task
  <1>2. k <= delivery[d].attempts_started
    BY <1>1 DEF ClaimsInv
  <1>3. attempt[d][k].outcome # "absent"
    BY <1>1, <1>2 DEF CoreInv, RowOK
  <1>4. LeaseEnd(delivery[d], attempt[d], k) \in Nat
    BY <1>1, CutFacts DEF LeaseEnd
  <1>5. LeaseEnd(delivery'[d], attempt'[d], k) = LeaseEnd(delivery[d], attempt[d], k)
    BY <1>1, <1>3, CutKept DEF LeaseEnd, RowKept
  <1>6. delivery[d].state = "leased" /\ delivery[d].lease_token = k =>
          delivery[d].lease_expires_at = LeaseEnd(delivery[d], attempt[d], k)
    BY DEF CoreInv, RowOK, LeaseEnd
  <1>7. QED
    BY <1>1, <1>2, <1>3, <1>4, <1>5, <1>6

\* Nothing takes the delivery from a task under way before its lease ends.
LEMMA LeaseHeld ==
  ASSUME CoreInv, TasksOK, ClaimsInv, HoldInv, [RelayNext]_allVars,
         NEW s \in Sessions, NEW d \in Deliveries, Underway(task[s][d]),
         now < LeaseEnd(delivery[d], attempt[d], task[s][d].number)
  PROVE  delivery'[d] = delivery[d]
  <1> DEFINE k == task[s][d].number
  <1>0. [Next]_vars
    BY RelaySteps
  <1>1. /\ delivery[d].state = "leased" /\ delivery[d].lease_token = k
        /\ k \notin handed[d]
    BY DEF HoldInv, Hold, HoldOK
  <1>2. delivery[d].lease_expires_at > now /\ d \in Busy(s)
    <2>1. /\ delivery[d].lease_expires_at = LeaseEnd(delivery[d], attempt[d], k)
          /\ LeaseEnd(delivery[d], attempt[d], k) \in Nat /\ d \in Busy(s)
      BY <1>0, <1>1, UnderwayFacts
    <2>2. now \in Nat
      BY DEF CoreInv, TypeOK
    <2>3. QED
      BY <2>1, <2>2
  <1>3. delivery \in [Deliveries -> DeliveryRow]
    BY DEF CoreInv, TypeOK
  <1>4. ASSUME NEW u \in Sessions, NEW e \in Deliveries, Finalize(u, e)
        PROVE  delivery'[d] = delivery[d]
    <2>1. CASE e = d
      <3>1. delivery[d].lease_token = task[u][d].number /\ task[u][d].stage = "finalizing"
        BY <1>4, <2>1 DEF Finalize, Succeed, Fail, ActiveLease
      <3>2. d \in Busy(u)
        BY <3>1 DEF Busy
      <3>3. u = s
        BY <1>1, <1>2, <3>1, <3>2 DEF ClaimsInv, OneTaskPerAttempt
      <3>4. QED
        BY <3>1, <3>3 DEF Underway
    <2>2. CASE e # d
      BY <1>3, <1>4, <2>2 DEF Finalize, Succeed, Fail
    <2>3. QED
      BY <2>1, <2>2
  <1>5. ASSUME NEW e \in Deliveries, NEW j \in AttemptNumber, ExternalFinalize(e, j)
        PROVE  delivery'[d] = delivery[d]
    <2>1. e # d
      BY <1>1, <1>5 DEF ExternalFinalize, Succeed, Fail, ActiveLease
    <2>2. QED
      BY <1>3, <1>5, <2>1 DEF ExternalFinalize, Succeed, Fail
  <1>6. QED
    BY <1>1, <1>2, <1>4, <1>5, RelayLedger, LiveLeaseKept DEF HoldInv, ApartInv

\* A task under way goes on as it was, or starts to act.
Follows(old, new) ==
  Underway(new) =>
    /\ Underway(old) /\ new.number = old.number /\ new.cutoff = old.cutoff
    /\ new.stage = "ready" <=> old.stage = "ready"

\* A task that goes on holds its lease as before.
LEMMA HoldFrame ==
  ASSUME CoreInv, TasksOK, ClaimsInv, HoldInv, [RelayNext]_allVars,
         NEW s \in Sessions, NEW d \in Deliveries,
         Follows(task[s][d], task'[s][d]),
         Underway(task'[s][d]) => task[s][d].number \notin handed'[d],
         Active(s, d) => now' <= task[s][d].cutoff + Lag
  PROVE  HoldNext(s, d)
  <1> SUFFICES ASSUME Underway(task'[s][d]) PROVE HoldNext(s, d)
    BY DEF HoldNext, HoldOK
  <1> DEFINE t == task[s][d]
             E == LeaseEnd(delivery[d], attempt[d], t.number)
  <1>0. [Next]_vars
    BY RelaySteps
  <1>1. /\ Underway(t) /\ task'[s][d].number = t.number /\ task'[s][d].cutoff = t.cutoff
        /\ task'[s][d].stage = "ready" <=> t.stage = "ready"
    BY DEF Follows
  <1>2. /\ E \in Nat /\ t.cutoff \in Nat
        /\ LeaseEnd(delivery'[d], attempt'[d], t.number) = E
    BY <1>0, <1>1, UnderwayFacts
  <1>3. /\ now < E => delivery[d].state = "leased" /\ delivery[d].lease_token = t.number
        /\ t.stage # "ready" => t.cutoff + Lag < E
    BY <1>1 DEF HoldInv, Hold, HoldOK
  <1>4. now' < E => delivery'[d].state = "leased" /\ delivery'[d].lease_token = t.number
    <2>1. now' < E => now < E
      BY <1>0, <1>2, ClockStep
    <2>2. now < E => delivery'[d] = delivery[d]
      BY <1>1, LeaseHeld
    <2>3. QED
      BY <1>3, <2>1, <2>2
  <1>5. t.stage # "ready" => now' <= t.cutoff + Lag
    BY <1>1 DEF Active, Underway
  <1>6. QED
    BY <1>1, <1>2, <1>3, <1>4, <1>5 DEF HoldNext, HoldOK

\* A sink that starts stops before the lease ends: its timeout is counted from
\* a clock that is off by at most Skew.
LEMMA HoldStart ==
  ASSUME CoreInv, TasksOK, ClaimsInv, HoldInv, Margin,
         NEW s \in Sessions, NEW d \in Deliveries, NEW reading \in ApplicationClock,
         TaskStart(s, d, reading)
  PROVE  HoldNext(s, d)
  <1> DEFINE t == task[s][d]
             k == t.number
             E == LeaseEnd(delivery[d], attempt[d], k)
             C == CutOf(delivery[d], attempt[d], k)
             R == Remaining(d, k, reading)
             p == delivery[d].policy
             a == attempt[d][k].started_at
  <1>0. [Next]_vars /\ UNCHANGED <<vars, handed>>
    BY DEF TaskStart, vars
  <1>1. Underway(t) /\ t.stage = "ready"
    BY DEF TaskStart, Underway
  <1>2. E \in Nat /\ k \in AttemptNumber
    BY <1>0, <1>1, UnderwayFacts
  <1>3. /\ C \in Nat /\ C <= a + p.handler_timeout /\ E = a + p.lease_duration
        /\ a \in Nat /\ p.handler_timeout \in Nat /\ p.lease_duration \in Nat
    BY <1>2, CutFacts DEF LeaseEnd
  <1>4. p.handler_timeout + Skew + Lag < p.lease_duration
    BY RowTypes DEF CoreInv, TypeOK, Margin
  <1>5. now \in Nat /\ reading \in Nat /\ now <= reading + Skew /\ Skew \in Nat /\ Lag \in Nat
    BY BoundAssumption, RelayAssumption DEF ApplicationClock, CoreInv, TypeOK
  <1>6. R = IF C <= reading THEN 0 ELSE C - reading
    BY DEF Remaining, remaining_attempt, CutOf
  <1>7. task'[s][d] =
          [stage |-> IF R = 0 THEN "finalizing" ELSE "running",
           number |-> k,
           cutoff |-> IF R = 0 THEN 0 ELSE now + R,
           verdict |-> IF R = 0 THEN "retryable" ELSE "none"]
    BY DEF TaskStart, TasksOK
  <1> HIDE DEF E, C, R
  <1>8. CASE R = 0
    BY <1>7, <1>8 DEF HoldNext, HoldOK, Underway
  <1>9. CASE R # 0
    <2>1. R = C - reading /\ C > reading
      BY <1>3, <1>5, <1>6, <1>9
    <2>2. now + R + Lag < E /\ now <= now + R + Lag
      <3>1. now + R <= C + Skew
        BY <1>3, <1>5, <2>1
      <3>2. C + Skew + Lag < E
        BY <1>3, <1>4, <1>5
      <3>3. QED
        BY <1>2, <1>3, <1>5, <2>1, <3>1, <3>2
    <2>3. /\ task'[s][d].stage = "running" /\ task'[s][d].number = k
          /\ task'[s][d].cutoff = now + R
      BY <1>7, <1>9
    <2>4. /\ k \notin handed[d]
          /\ now < E => delivery[d].state = "leased" /\ delivery[d].lease_token = k
      BY <1>1 DEF HoldInv, Hold, HoldOK, E
    <2>5. /\ now' = now /\ delivery' = delivery /\ attempt' = attempt /\ handed' = handed
      BY <1>0 DEF vars
    <2>6. QED
      BY <2>2, <2>3, <2>4, <2>5 DEF HoldNext, HoldOK, E
  <1>10. QED
    BY <1>8, <1>9

\* A claim that committed gives its relay the leases of its tasks.
LEMMA HoldClaim ==
  ASSUME CoreInv, TasksOK, ClaimsInv, HoldInv,
         NEW s \in Sessions, NEW d \in Deliveries, RelayClaim(s)
  PROVE  HoldNext(s, d)
  <1> SUFFICES ASSUME Underway(task'[s][d]) PROVE HoldNext(s, d)
    BY DEF HoldNext, HoldOK
  <1> DEFINE n == delivery[d].attempts_started
             f == [e \in Deliveries |->
                     IF /\ e \in tx[s].locked
                        /\ ~Expired(delivery[e], tx[s].effective_now)
                       THEN [NoTask EXCEPT !.stage = "ready",
                                           !.number = delivery[e].attempts_started + 1]
                       ELSE NoTask]
  <1>1. task'[s] = f
    BY DEF RelayClaim, TasksOK
  <1>2. /\ d \in tx[s].locked /\ ~Expired(delivery[d], tx[s].effective_now)
        /\ task'[s][d].stage = "ready" /\ task'[s][d].number = n + 1
    <2>1. task'[s][d] = f[d] /\ task'[s][d] # NoTask
      <3>1. ~Underway(NoTask)
        BY DEF Underway, NoTask
      <3>2. QED
        BY <1>1, <3>1
    <2>2. d \in tx[s].locked /\ ~Expired(delivery[d], tx[s].effective_now)
      BY <2>1
    <2>3. f[d] = [NoTask EXCEPT !.stage = "ready", !.number = n + 1]
      BY <2>2
    <2>4. QED
      BY <2>1, <2>2, <2>3 DEF NoTask
  <1>3. delivery'[d] = ClaimedRow(delivery[d], tx[s].effective_now) /\ handed' = handed
    BY <1>2 DEF RelayClaim, ClaimCommit
  <1>4. delivery[d] \in DeliveryRow /\ n \in Nat
    BY RowTypes DEF CoreInv, TypeOK
  <1>5. delivery'[d].state = "leased" /\ delivery'[d].lease_token = n + 1
    BY <1>2, <1>3, <1>4 DEF ClaimedRow, DeliveryRow
  <1>6. n + 1 \notin handed[d]
    BY <1>4 DEF HoldInv
  <1>7. QED
    BY <1>2, <1>3, <1>5, <1>6 DEF HoldNext, HoldOK

\* Every other step leaves tasks under way as they are.
LEMMA TasksFollow ==
  ASSUME TasksOK, [RelayNext]_allVars, NEW s \in Sessions, NEW d \in Deliveries,
         ~RelayClaim(s), \A reading \in ApplicationClock : ~TaskStart(s, d, reading)
  PROVE  Follows(task[s][d], task'[s][d])
  <1>0. task \in [Sessions -> [Deliveries -> Task]] /\ NoTask.stage = "none"
    BY DEF TasksOK, NoTask
  <1>1. ASSUME task'[s][d] = task[s][d] \/ task'[s][d] = NoTask
        PROVE  Follows(task[s][d], task'[s][d])
    BY <1>0, <1>1 DEF Follows, Underway
  <1>2. ASSUME NEW u \in Sessions, Lifecycle(u)
        PROVE  task'[s][d] = task[s][d] \/ task'[s][d] = NoTask
    BY <1>0, <1>2 DEF Lifecycle, Start, RequestStop, NextCycle, EndCycle,
                      GraceExpired, Crash, NoTasks
  <1>3. ASSUME NEW u \in Sessions, Control(u)
        PROVE  task'[s][d] = task[s][d]
    BY <1>0, <1>3 DEF Control, RelayReconcile, RelayReconcileNone, RelaySelect,
                      RelayLock, RelayStamp, ClaimNothing, RelayClaim, ClaimAnswerLost,
                      ControlFailed, ClaimFatal, relayVars
  <1>4. ASSUME NEW u \in Sessions, NEW e \in Deliveries, Execute(u, e)
        PROVE  Follows(task[s][d], task'[s][d])
    <2>1. CASE \/ Fatal(u, e) \/ TaskCancelled(u, e) \/ SinkDefer(u, e)
               \/ SinkTransient(u, e) \/ Finalize(u, e) \/ FinalizeLost(u, e)
      BY <1>0, <1>1, <2>1 DEF Fatal, TaskCancelled, SinkDefer, SinkTransient,
                              Finalize, FinalizeLost
    <2>2. ASSUME NEW reading \in ApplicationClock, TaskStart(u, e, reading)
          PROVE  task'[s][d] = task[s][d]
      <3>1. u # s \/ e # d
        BY <2>2
      <3>2. QED
        BY <1>0, <2>2, <3>1 DEF TaskStart
    <2>3. CASE SinkEffect(u, e)
      <3>1. task' = [task EXCEPT ![u][e] = [task[u][e] EXCEPT !.stage = "acted"]]
        BY <2>3 DEF SinkEffect
      <3>2. CASE u = s /\ e = d
        <4>1. task'[s][d] = [task[s][d] EXCEPT !.stage = "acted"]
          BY <1>0, <3>1, <3>2
        <4>2. task[s][d].stage = "running" /\ task[s][d] \in Task
          BY <1>0, <2>3, <3>2 DEF SinkEffect
        <4>3. QED
          BY <4>1, <4>2 DEF Follows, Underway, Task
      <3>3. CASE ~(u = s /\ e = d)
        BY <1>0, <1>1, <3>1, <3>3
      <3>4. QED
        BY <3>2, <3>3
    <2>4. CASE \/ \E verdict \in Verdict \ {"none"} : SinkReturn(u, e, verdict)
               \/ TaskTimeout(u, e)
      <3>1. PICK v \in Verdict : task' = [task EXCEPT ![u][e] = Finalizing(task[u][e], v)]
        BY <2>4 DEF SinkReturn, TaskTimeout, Verdict
      <3>2. Finalizing(task[u][e], v).stage = "finalizing"
        BY <1>0 DEF Finalizing, Task
      <3>3. QED
        BY <1>0, <1>1, <3>1, <3>2 DEF Follows, Underway
    <2>5. QED
      BY <1>1, <1>4, <2>1, <2>2, <2>3, <2>4 DEF Execute
  <1>5. CASE \/ Application \/ RelayTick \/ UNCHANGED allVars
             \/ \E e \in Deliveries, k \in AttemptNumber : ExternalFinalize(e, k)
    BY <1>1, <1>5 DEF Application, RelayTick, ExternalFinalize, relayVars, allVars
  <1>6. QED
    BY <1>1, <1>2, <1>3, <1>4, <1>5 DEF RelayNext

\* Attempts are handed over by a sink that defers, and by nothing else.
LEMMA HandedStep ==
  ASSUME [RelayNext]_allVars
  PROVE  \/ handed' = handed
         \/ \E s \in Sessions, d \in Deliveries : SinkDefer(s, d)
  <1>1. ASSUME NEW s \in Sessions, Lifecycle(s) \/ Control(s)
        PROVE  handed' = handed
    BY <1>1 DEF Lifecycle, Start, RequestStop, NextCycle, EndCycle, GraceExpired,
                Crash, Control, RelayReconcile, RelayReconcileNone, RelaySelect,
                RelayLock, RelayStamp, ClaimNothing, RelayClaim, ClaimAnswerLost,
                ControlFailed, ClaimFatal, relayVars
  <1>2. ASSUME NEW s \in Sessions, NEW d \in Deliveries, Execute(s, d)
        PROVE  handed' = handed \/ SinkDefer(s, d)
    BY <1>2 DEF Execute, Fatal, TaskCancelled, TaskStart, SinkEffect, SinkReturn,
                TaskTimeout, SinkTransient, Finalize, FinalizeLost
  <1>3. QED
    BY <1>1, <1>2 DEF RelayNext, Application, RelayTick, ExternalFinalize, relayVars,
                      allVars

\* Time passes in a step of its own.
LEMMA TimeStep ==
  ASSUME [RelayNext]_allVars
  PROVE  now' = now \/ RelayTick
  <1>1. ASSUME NEW s \in Sessions, ClaimStep(s) PROVE now' = now
    BY <1>1 DEF ClaimStep, ClaimSelect, ClaimLockRow, ClaimStamp, ClaimCommit, ClaimAbort
  <1>2. ASSUME NEW s \in Sessions, NEW d \in Deliveries, Finalize(s, d)
        PROVE  now' = now
    BY <1>2 DEF Finalize, Succeed, Fail
  <1>3. ASSUME NEW d \in Deliveries, NEW k \in AttemptNumber, ExternalFinalize(d, k)
        PROVE  now' = now
    BY <1>3 DEF ExternalFinalize, Succeed, Fail
  <1>4. ASSUME NEW s \in Sessions, Lifecycle(s) \/ Control(s)
        PROVE  now' = now
    BY <1>4 DEF Lifecycle, Start, RequestStop, NextCycle, EndCycle, GraceExpired,
                Crash, Control, RelayReconcile, RelayReconcileNone, RelaySelect,
                RelayLock, RelayStamp, ClaimNothing, RelayClaim, ClaimAnswerLost,
                ControlFailed, ClaimFatal, ReconcileExpired, ClaimSelect, ClaimLockRow,
                ClaimStamp, ClaimCommit, ClaimAbort, ClaimRejected, vars
  <1>5. ASSUME NEW s \in Sessions, NEW d \in Deliveries, Execute(s, d)
        PROVE  now' = now
    BY <1>2, <1>5 DEF Execute, Fatal, TaskCancelled, TaskStart, SinkEffect, SinkReturn,
                TaskTimeout, SinkDefer, SinkTransient, FinalizeLost, vars
  <1>6. CASE Application \/ UNCHANGED allVars
    BY <1>6 DEF Application, Publish, Replay, allVars, vars
  <1>7. QED
    BY <1>3, <1>4, <1>5, <1>6 DEF RelayNext

LEMMA HoldStep ==
  ASSUME CoreInv, TasksOK, ClaimsInv, HoldInv, ~OverlappingClaims, Margin,
         [RelayNext]_allVars
  PROVE  HoldInv'
  <1>0. /\ [Next]_vars
        /\ handed \in [Deliveries -> SUBSET AttemptNumber]
        /\ task \in [Sessions -> [Deliveries -> Task]]
    BY RelaySteps DEF TasksOK
  <1>1. ApartInv'
    BY ApartStep DEF HoldInv
  <1>2. ASSUME NEW d \in Deliveries, NEW k \in handed'[d]
        PROVE  k <= delivery'[d].attempts_started
    <2>1. k \in AttemptNumber /\ k <= delivery[d].attempts_started
      <3>1. CASE handed' = handed
        BY <1>0, <3>1 DEF HoldInv
      <3>2. ASSUME NEW s \in Sessions, NEW e \in Deliveries, SinkDefer(s, e)
            PROVE  k \in AttemptNumber /\ k <= delivery[d].attempts_started
        <4>1. handed' = [handed EXCEPT ![e] = handed[e] \cup {task[s][e].number}]
          BY <3>2 DEF SinkDefer
        <4>2. Underway(task[s][e])
          BY <3>2 DEF SinkDefer, Active, Underway
        <4>3. /\ task[s][e].number \in AttemptNumber
              /\ task[s][e].number <= delivery[e].attempts_started
          BY <1>0, <4>2, UnderwayFacts
        <4>4. QED
          BY <1>0, <4>1, <4>3 DEF HoldInv
      <3>3. QED
        BY <3>1, <3>2, HandedStep
    <2>2. delivery[d].attempts_started <= delivery'[d].attempts_started
      BY <1>0, CountNeverFalls
    <2>3. delivery[d].attempts_started \in Nat /\ delivery'[d].attempts_started \in Nat
      <3>1. CoreInv'
        BY <1>0, NextCore
      <3>2. QED
        BY <3>1, RowTypes, BoundAssumption DEF CoreInv, TypeOK
    <2>4. QED
      BY <2>1, <2>2, <2>3 DEF AttemptNumber
  <1>3. ASSUME NEW s \in Sessions, NEW d \in Deliveries
        PROVE  HoldNext(s, d)
    <2>1. CASE RelayClaim(s)
      BY <2>1, HoldClaim
    <2>2. CASE \E reading \in ApplicationClock : TaskStart(s, d, reading)
      BY <2>2, HoldStart
    <2>3. CASE ~RelayClaim(s) /\ ~\E reading \in ApplicationClock : TaskStart(s, d, reading)
      <3>1. Follows(task[s][d], task'[s][d])
        BY <2>3, TasksFollow
      <3>2. ASSUME Underway(task'[s][d])
            PROVE  task[s][d].number \notin handed'[d]
        <4>1. Underway(task[s][d]) /\ task[s][d].number \notin handed[d]
          BY <3>1, <3>2 DEF Follows, HoldInv, Hold, HoldOK
        <4>2. ASSUME NEW u \in Sessions, NEW e \in Deliveries, SinkDefer(u, e)
              PROVE  task[s][d].number \notin handed'[d]
          <5>1. /\ handed' = [handed EXCEPT ![e] = handed[e] \cup {task[u][e].number}]
                /\ task' = [task EXCEPT ![u][e] = NoTask]
                /\ task[u][e].stage # "none"
            BY <4>2 DEF SinkDefer, Active
          <5>2. CASE e = d
            <6>1. u # s
              BY <1>0, <3>2, <5>1, <5>2 DEF Underway, NoTask
            <6>2. d \in Busy(s) \cap Busy(u)
              BY <4>1, <5>1, <5>2 DEF Busy, Underway
            <6>3. task[s][d].number # task[u][d].number
              BY <6>1, <6>2 DEF ClaimsInv, OneTaskPerAttempt
            <6>4. QED
              BY <1>0, <4>1, <5>1, <5>2, <6>3
          <5>3. CASE e # d
            BY <1>0, <4>1, <5>1, <5>3
          <5>4. QED
            BY <5>2, <5>3
        <4>3. QED
          BY <4>1, <4>2, HandedStep
      <3>3. ASSUME Active(s, d)
            PROVE  now' <= task[s][d].cutoff + Lag
        <4>1. /\ now \in Nat /\ Lag \in Nat /\ task[s][d].cutoff \in Nat
              /\ now <= task[s][d].cutoff + Lag
          BY <1>0, <3>3, RelayAssumption
             DEF Active, Underway, HoldInv, Hold, HoldOK, Task, CoreInv, TypeOK
        <4>2. CASE RelayTick
          BY <3>3, <4>1, <4>2 DEF RelayTick, Tick
        <4>3. QED
          BY <4>1, <4>2, TimeStep
      <3>4. QED
        BY <3>1, <3>2, <3>3, HoldFrame
    <2>4. QED
      BY <2>1, <2>2, <2>3
  <1>4. QED
    BY <1>1, <1>2, <1>3 DEF HoldInv, Hold, HoldNext

\* For every fleet whose claims do not overlap and whose policies leave the
\* margin: while a sink runs, its relay holds an unexpired lease under the
\* sink's own token, through timeouts, skewed clocks, late timers, crashes and
\* lingering tasks (relay.py 143-147, leasing.py 139-158).
THEOREM FleetHoldsLease ==
  ASSUME ~OverlappingClaims, Margin
  PROVE  RelaySpec => []ExecutionHoldsLease
  <1>1. RelayInit => HoldInv
    <2> SUFFICES ASSUME RelayInit PROVE HoldInv
      OBVIOUS
    <2>1. /\ \A s \in Sessions, d \in Deliveries : task[s][d] = NoTask
          /\ \A s \in Sessions : tx[s] = NoTx
          /\ \A d \in Deliveries : handed[d] = {}
      BY DEF RelayInit, Init, NoTasks
    <2>2. ApartInv
      BY <2>1 DEF ApartInv, NoTx, HoldsWaiting
    <2>3. QED
      BY <2>1, <2>2 DEF HoldInv, Hold, HoldOK, Underway, NoTask
  <1>2. CoreInv /\ FleetInv /\ ClaimsInv /\ HoldInv /\ [RelayNext]_allVars => HoldInv'
    BY HoldStep DEF FleetInv
  <1>3. ASSUME CoreInv, FleetInv, ClaimsInv, HoldInv
        PROVE  ExecutionHoldsLease
    <2> SUFFICES ASSUME NEW s \in Sessions, NEW d \in Deliveries, Active(s, d)
                 PROVE  /\ delivery[d].state = "leased"
                        /\ delivery[d].lease_token = task[s][d].number
                        /\ delivery[d].lease_expires_at > now
      BY DEF ExecutionHoldsLease
    <2> DEFINE k == task[s][d].number
               E == LeaseEnd(delivery[d], attempt[d], k)
    <2>1. Underway(task[s][d]) /\ task[s][d].stage # "ready"
      BY DEF Active, Underway
    <2>2. /\ now < E => delivery[d].state = "leased" /\ delivery[d].lease_token = k
          /\ task[s][d].cutoff + Lag < E /\ now <= task[s][d].cutoff + Lag
      BY <1>3, <2>1 DEF HoldInv, Hold, HoldOK
    <2>3. k \in AttemptNumber /\ task[s][d].cutoff \in Nat
      BY <1>3, <2>1 DEF FleetInv, TasksOK, TaskOK, Task, Underway
    <2>4. E \in Nat /\ now \in Nat
      BY <1>3, <2>3, CutFacts DEF LeaseEnd, CoreInv, TypeOK
    <2>5. now < E
      BY <2>2, <2>3, <2>4, RelayAssumption
    <2>6. delivery[d].state = "leased" /\ delivery[d].lease_token = k
      BY <2>2, <2>5
    <2>7. delivery[d].lease_expires_at = E
      BY <1>3, <2>6 DEF CoreInv, RowOK, LeaseEnd
    <2>8. QED
      BY <2>4, <2>5, <2>6, <2>7
  <1>4. QED
    BY <1>1, <1>2, <1>3, FleetInit, FleetStep, RelayCore, FleetClaims, PTL DEF RelaySpec
===============================================================================
