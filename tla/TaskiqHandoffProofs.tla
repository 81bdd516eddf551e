------------------------- MODULE TaskiqHandoffProofs -------------------------
(***************************************************************************)
(* Theorems about TaskiqHandoff for every number of deliveries, attempts    *)
(* and claim sessions, every timeout, skew and lag, and with unclassified   *)
(* connector errors: hand-overs implement the ledger, handoff and attempt   *)
(* agree, success needs a completed handler, settled handoffs stay so, and  *)
(* a handoff executes once.  That a running handler holds its lease needs   *)
(* serialized claims, equal clocks and classified connector errors.         *)
(***************************************************************************)
EXTENDS TaskiqHandoff, LeaseRepositoryProofs

-----------------------------------------------------------------------------
(* The ledger underneath.                                                    *)

\* The sink's steps leave the ledger alone or fail the attempt.
LEMMA SinkLedger ==
  ASSUME NEW d \in Deliveries, NEW k \in AttemptNumber, SinkStep(d, k)
  PROVE  UNCHANGED vars \/ Fail(d, k, TRUE, 0)
  <1>1. CASE \E reading \in ApplicationClock : Prepare(d, k, reading)
    BY <1>1 DEF Prepare
  <1>2. CASE Kick(d, k) \/ MarkEnqueued(d, k) \/ SinkGone(d, k)
    BY <1>2 DEF Kick, MarkEnqueued, SinkGone
  <1>3. CASE EnqueueFailed(d, k) \/ RelayFail(d, k)
    BY <1>3 DEF EnqueueFailed, FailBoth, RelayFail
  <1>4. QED
    BY <1>1, <1>2, <1>3 DEF SinkStep

\* Admission leaves the ledger alone or fails the attempt.
LEMMA AdmitLedger ==
  ASSUME NEW d \in Deliveries, NEW k \in AttemptNumber, AdmitStep(d, k)
  PROVE  UNCHANGED vars \/ Fail(d, k, TRUE, 0)
  <1>1. CASE \E reading \in ApplicationClock : Admit(d, k, reading)
    BY <1>1 DEF Admit
  <1>2. CASE AdmitStale(d, k) \/ AdmitLate(d, k)
    BY <1>2 DEF AdmitStale, AdmitLate, GiveUp, FailBoth
  <1>3. QED
    BY <1>1, <1>2 DEF AdmitStep

\* Recovery leaves the ledger alone or fails the attempt.
LEMMA RecoverLedger ==
  ASSUME NEW d \in Deliveries, NEW k \in AttemptNumber, RecoverExpired(d, k)
  PROVE  UNCHANGED vars \/ Fail(d, k, TRUE, 0)
  BY DEF RecoverExpired, GiveUp, FailBoth

\* A worker changes the ledger only by its finalization.
LEMMA WorkerLedger ==
  ASSUME NEW d \in Deliveries, NEW k \in AttemptNumber, NEW n \in Execution,
         WorkerStep(d, k, n)
  PROVE  \/ UNCHANGED vars
         \/ Succeed(d, k) /\ FinalizeSuccess(d, k, n)
         \/ \E retryable \in BOOLEAN, h \in RetryAfters : Fail(d, k, retryable, h)
  <1>1. CASE \E verdict \in {"completed", "retryable", "terminal"} :
               HandlerReturns(d, k, n, verdict)
    BY <1>1 DEF HandlerReturns
  <1>2. CASE HandlerTimeout(d, k, n) \/ WorkerLost(d, k, n)
    BY <1>2 DEF HandlerTimeout, WorkerLost
  <1>3. CASE FinalizeSuccess(d, k, n)
    BY <1>3 DEF FinalizeSuccess
  <1>4. ASSUME NEW h \in RetryAfters, FinalizeFailure(d, k, n, h)
        PROVE  \E retryable \in BOOLEAN, g \in RetryAfters : Fail(d, k, retryable, g)
    <2> DEFINE retryable == run[d][k][n].stage = "retryable"
    <2>1. Fail(d, k, retryable, IF retryable THEN h ELSE 0)
      BY <1>4 DEF FinalizeFailure
    <2>2. (IF retryable THEN h ELSE 0) \in RetryAfters
      BY HandoffAssumption
    <2>3. retryable \in BOOLEAN
      OBVIOUS
    <2> HIDE DEF retryable
    <2>4. QED
      BY <2>1, <2>2, <2>3
  <1>5. QED
    BY <1>1, <1>2, <1>3, <1>4 DEF WorkerStep

\* Every step is a step of the ledger or leaves it unchanged.
LEMMA HandoffSteps == [HandoffNext]_systemVars => [Next]_vars
  <1> SUFFICES ASSUME [HandoffNext]_systemVars PROVE [Next]_vars
    OBVIOUS
  <1>1. ASSUME NEW d \in Deliveries, NEW k \in AttemptNumber,
               UNCHANGED vars \/ Fail(d, k, TRUE, 0)
        PROVE  [Next]_vars
    BY <1>1, HandoffAssumption DEF Next
  <1>2. CASE Ledger
    BY <1>2 DEF Ledger, Next
  <1>3. CASE HandoffTick
    BY <1>3 DEF HandoffTick, Next
  <1>4. ASSUME NEW d \in Deliveries, NEW k \in AttemptNumber,
               SinkStep(d, k) \/ AdmitStep(d, k) \/ RecoverExpired(d, k)
        PROVE  [Next]_vars
    BY <1>1, <1>4, SinkLedger, AdmitLedger, RecoverLedger
  <1>5. ASSUME NEW d \in Deliveries, NEW k \in AttemptNumber, NEW n \in Execution,
               WorkerStep(d, k, n)
        PROVE  [Next]_vars
    BY <1>5, WorkerLedger DEF Next
  <1>6. CASE UNCHANGED systemVars
    BY <1>6 DEF systemVars
  <1>7. QED
    BY <1>2, <1>3, <1>4, <1>5, <1>6 DEF HandoffNext

\* The ledger's invariant holds of deliveries that are handed over.
LEMMA HandoffCore == HandoffSpec => []CoreInv
  <1>1. HandoffInit => CoreInv
    BY InitCore DEF HandoffInit
  <1>2. CoreInv /\ [HandoffNext]_systemVars => CoreInv'
    BY HandoffSteps, NextCore
  <1>3. QED
    BY <1>1, <1>2, PTL DEF HandoffSpec

\* Sinks, workers, duplicated messages and recovery change deliveries and
\* attempts only as the repository's operations allow, so the ledger's theorems
\* hold of deliveries that are executed through a broker.
THEOREM HandoverImplementsLedger == HandoffSpec => HandoffImplementsLedger
  <1>1. HandoffInit => Init
    BY DEF HandoffInit
  <1>2. QED
    BY <1>1, HandoffSteps, PTL DEF HandoffSpec, HandoffImplementsLedger, Spec

-----------------------------------------------------------------------------
(* Handoff and attempt.                                                      *)

\* What holds of attempt k of a delivery: h is its handoff row, oc its outcome,
\* s its sink, r its executions and e the attempts whose handler completed.
PairOK(h, oc, s, r, e, k) ==
  /\ h.state = "executing" <=> h.execution_token # 0
  /\ h.state = "executing" => h.execution_token = h.execution_count
  /\ h.state \in {"absent", "prepared"} => ~h.enqueued
  /\ h.state \in {"enqueued", "executing", "succeeded"} => h.enqueued
  /\ h.state = "succeeded" <=> oc = "succeeded"
  /\ h.state = "retry_wait" => oc = "retryable"
  /\ h.state # "absent" => oc # "absent"
  /\ s.stage = "idle" => h.state = "absent"
  /\ s.stage \in {"prepared", "kicked"} => h.state # "absent"
  /\ \A n \in Execution : r[n].stage = "completed" => k \in e
  /\ oc = "succeeded" => k \in e

HandoffTypes ==
  /\ handoff \in [Deliveries -> [AttemptNumber -> HandoffRow]]
  /\ sink \in [Deliveries -> [AttemptNumber -> Sink]]
  /\ message \in [Deliveries -> SUBSET AttemptNumber]
  /\ run \in [Deliveries -> [AttemptNumber -> [Execution -> Run]]]
  /\ effect \in [Deliveries -> SUBSET AttemptNumber]

HandoffInv ==
  /\ HandoffTypes
  /\ \A d \in Deliveries, k \in AttemptNumber :
       PairOK(handoff[d][k], attempt[d][k].outcome, sink[d][k], run[d][k],
              effect[d], k)

\* A step touches handoff, sink and executions of attempt k of d only, forgets
\* no completed handler and records no other success.
OnlyPair(d, k) ==
  /\ \A e \in Deliveries, j \in AttemptNumber :
       ~(e = d /\ j = k) =>
         /\ handoff'[e][j] = handoff[e][j]
         /\ sink'[e][j] = sink[e][j]
         /\ run'[e][j] = run[e][j]
         /\ attempt'[e][j].outcome = "succeeded" =>
              attempt[e][j].outcome = "succeeded"
  /\ \A e \in Deliveries : effect[e] \subseteq effect'[e]

\* A finished attempt keeps its outcome and no attempt disappears.
LEMMA OutcomesKept ==
  ASSUME CoreInv, [Next]_vars, NEW d \in Deliveries, NEW k \in AttemptNumber
  PROVE  /\ attempt[d][k].outcome \notin {"absent", "started"} =>
              attempt'[d][k] = attempt[d][k]
         /\ attempt[d][k].outcome # "absent" => attempt'[d][k].outcome # "absent"
  <1>1. RowStep(delivery[d], attempt[d], delivery'[d], attempt'[d], now, Racing)
    BY StepRows
  <1>2. /\ delivery[d] \in DeliveryRow /\ attempt[d] \in Attempts /\ now \in Nat
        /\ RowOK(delivery[d], attempt[d], now)
    BY DEF CoreInv, TypeOK, Attempts
  <1>3. /\ attempt[d][k].outcome \notin {"absent", "started"} =>
             attempt'[d][k] = attempt[d][k]
        /\ attempt[d][k].outcome = "started" => attempt'[d][k].outcome # "absent"
    BY <1>1, <1>2, RowAppendOnly
  <1>4. QED
    BY <1>3

\* The pairs a step does not touch stay in order.
LEMMA PairFrame ==
  ASSUME CoreInv, HandoffInv, [Next]_vars,
         NEW d \in Deliveries, NEW k \in AttemptNumber,
         handoff'[d][k] = handoff[d][k], sink'[d][k] = sink[d][k],
         run'[d][k] = run[d][k], effect[d] \subseteq effect'[d],
         attempt'[d][k].outcome = "succeeded" => attempt[d][k].outcome = "succeeded"
  PROVE  PairOK(handoff'[d][k], attempt'[d][k].outcome, sink'[d][k], run'[d][k],
                effect'[d], k)
  BY OutcomesKept DEF HandoffInv, PairOK

\* A step that leaves one pair in order keeps the invariant.
LEMMA PairStep ==
  ASSUME CoreInv, HandoffInv, [Next]_vars, HandoffTypes',
         NEW d \in Deliveries, NEW k \in AttemptNumber, OnlyPair(d, k),
         PairOK(handoff'[d][k], attempt'[d][k].outcome, sink'[d][k], run'[d][k],
                effect'[d], k)
  PROVE  HandoffInv'
  <1>1. ASSUME NEW e \in Deliveries, NEW j \in AttemptNumber, ~(e = d /\ j = k)
        PROVE  PairOK(handoff'[e][j], attempt'[e][j].outcome, sink'[e][j],
                      run'[e][j], effect'[e], j)
    BY <1>1, PairFrame DEF OnlyPair
  <1>2. QED
    BY <1>1 DEF HandoffInv

\* A failed attempt is closed as retryable or terminal, its delivery waits for a
\* retry only after a retryable failure, and nothing else succeeds.
LEMMA FailFacts ==
  ASSUME CoreInv, NEW d \in Deliveries, NEW k \in AttemptNumber,
         NEW retryable \in BOOLEAN, NEW h, Fail(d, k, retryable, h)
  PROVE  /\ attempt[d][k].outcome = "started"
         /\ attempt'[d][k].outcome = IF retryable THEN "retryable" ELSE "terminal"
         /\ delivery'[d].state = "retry_wait" => retryable
         /\ NoneSucceeds
  <1>1. attempt \in [Deliveries -> Attempts] /\ delivery \in [Deliveries -> DeliveryRow]
    BY DEF CoreInv, TypeOK, Attempts
  <1>2. attempt'[d] = Closed(attempt[d], k, IF retryable THEN "retryable" ELSE "terminal", now)
    BY <1>1 DEF Fail
  <1>3. attempt'[d][k].outcome = IF retryable THEN "retryable" ELSE "terminal"
    BY <1>1, <1>2, ClosedOutcomes
  <1>4. delivery'[d].state = "retry_wait" => retryable
    <2>1. PICK delay : delivery'[d] = FailedRow(delivery[d], k, retryable, delay, now)
      BY <1>1 DEF Fail
    <2>2. ~retryable => delivery'[d] = Released(delivery[d], "dead", delivery[d].next_attempt_at, now)
      BY <2>1 DEF FailedRow
    <2>3. delivery[d] \in DeliveryRow
      BY <1>1
    <2>4. Released(delivery[d], "dead", delivery[d].next_attempt_at, now).state = "dead"
      BY <2>3 DEF Released, DeliveryRow
    <2>5. QED
      BY <2>2, <2>4
  <1>5. attempt[d][k].outcome = "started"
    BY DEF Fail, ActiveLease
  <1>6. NoneSucceeds
    BY LedgerSuccess
  <1>7. QED
    BY <1>3, <1>4, <1>5, <1>6

\* Replacing one entry of a table by itself changes nothing.
LEMMA SameEntry ==
  ASSUME NEW V, NEW f \in [Deliveries -> [AttemptNumber -> V]],
         NEW d \in Deliveries, NEW k \in AttemptNumber
  PROVE  f = [f EXCEPT ![d][k] = f[d][k]]
  OBVIOUS

\* A step that replaces the entries of one attempt and leaves them in order
\* keeps the invariant.
LEMMA PairReplaced ==
  ASSUME CoreInv, HandoffInv, [Next]_vars,
         NEW d \in Deliveries, NEW k \in AttemptNumber,
         NEW h \in HandoffRow, handoff' = [handoff EXCEPT ![d][k] = h],
         NEW s \in Sink, sink' = [sink EXCEPT ![d][k] = s],
         NEW r \in [Execution -> Run], run' = [run EXCEPT ![d][k] = r],
         message' \in [Deliveries -> SUBSET AttemptNumber],
         effect' \in [Deliveries -> SUBSET AttemptNumber],
         \A e \in Deliveries : effect[e] \subseteq effect'[e],
         SucceedsOnly(d, k),
         PairOK(h, attempt'[d][k].outcome, s, r, effect'[d], k)
  PROVE  HandoffInv'
  <1>1. HandoffTypes
    BY DEF HandoffInv
  <1>2. HandoffTypes'
    BY <1>1 DEF HandoffTypes
  <1>3. handoff'[d][k] = h /\ sink'[d][k] = s /\ run'[d][k] = r
    BY <1>1 DEF HandoffTypes
  <1>4. OnlyPair(d, k)
    BY <1>1 DEF HandoffTypes, OnlyPair, SucceedsOnly
  <1>5. QED
    BY <1>2, <1>3, <1>4, PairStep

\* What the invariant says of one attempt.
LEMMA PairFacts ==
  ASSUME HandoffInv, NEW d \in Deliveries, NEW k \in AttemptNumber
  PROVE  /\ handoff[d][k] \in HandoffRow /\ sink[d][k] \in Sink
         /\ run[d][k] \in [Execution -> Run]
         /\ message \in [Deliveries -> SUBSET AttemptNumber]
         /\ effect \in [Deliveries -> SUBSET AttemptNumber]
         /\ handoff = [handoff EXCEPT ![d][k] = handoff[d][k]]
         /\ sink = [sink EXCEPT ![d][k] = sink[d][k]]
         /\ run = [run EXCEPT ![d][k] = run[d][k]]
         /\ PairOK(handoff[d][k], attempt[d][k].outcome, sink[d][k], run[d][k],
                   effect[d], k)
  <1>1. HandoffTypes
    BY DEF HandoffInv
  <1>2. /\ handoff = [handoff EXCEPT ![d][k] = handoff[d][k]]
        /\ sink = [sink EXCEPT ![d][k] = sink[d][k]]
        /\ run = [run EXCEPT ![d][k] = run[d][k]]
    BY <1>1, SameEntry DEF HandoffTypes
  <1>3. QED
    BY <1>1, <1>2 DEF HandoffInv, HandoffTypes

\* The row _set_failed leaves behind is coherent, whatever it was before.
LEMMA SetFailedFacts ==
  ASSUME NEW h \in HandoffRow, NEW st, NEW t \in Nat
  PROVE  /\ SetFailed(h, st, t) \in HandoffRow
         /\ SetFailed(h, st, t).state = IF st = "retry_wait" THEN "retry_wait" ELSE "dead"
         /\ SetFailed(h, st, t).execution_token = 0
         /\ SetFailed(h, st, t).execution_count = h.execution_count
  <1> DEFINE w == IF st = "retry_wait" THEN "retry_wait" ELSE "dead"
             g == [h EXCEPT !.state = w, !.execution_token = 0,
                            !.execution_deadline = 0, !.updated_at = t]
  <1>1. w \in HandoffState
    BY DEF HandoffState, Settled
  <1>2. SetFailed(h, st, t) = g
    BY DEF SetFailed
  <1>3. 0 \in 0 .. MaxExecutions
    BY HandoffAssumption
  <1> HIDE DEF w
  <1>4. g \in HandoffRow
    BY <1>1, <1>3 DEF HandoffRow
  <1>5. g.state = w /\ g.execution_token = 0 /\ g.execution_count = h.execution_count
    BY DEF HandoffRow
  <1> HIDE DEF g
  <1>6. QED
    BY <1>2, <1>4, <1>5 DEF w

\* The sink of an attempt is done.
DoneSink == [stage |-> "done", cutoff |-> 0]

LEMMA DoneSinkType == DoneSink \in Sink /\ DoneSink.stage = "done"
  BY DEF DoneSink, Sink

\* Failing the attempt and the handoff together keeps them in agreement.
LEMMA FailBothOK ==
  ASSUME CoreInv, HandoffInv, [Next]_vars,
         NEW d \in Deliveries, NEW k \in AttemptNumber, FailBoth(d, k),
         handoff[d][k].state # "absent", UNCHANGED <<message, run, effect>>,
         NEW s \in {sink[d][k], DoneSink}, sink' = [sink EXCEPT ![d][k] = s]
  PROVE  HandoffInv'
  <1> DEFINE h == SetFailed(handoff[d][k], delivery'[d].state, now)
  <1>0. now \in Nat
    BY DEF CoreInv, TypeOK
  <1>1. /\ attempt[d][k].outcome = "started" /\ attempt'[d][k].outcome = "retryable"
        /\ NoneSucceeds
    BY FailFacts DEF FailBoth
  <1>2. h \in HandoffRow /\ h.state \in {"retry_wait", "dead"} /\ h.execution_token = 0
    BY <1>0, PairFacts, SetFailedFacts
  <1>3. handoff' = [handoff EXCEPT ![d][k] = h]
    BY DEF FailBoth
  <1>4. s \in Sink /\ (s.stage = "idle" => sink[d][k].stage = "idle")
    BY PairFacts, DoneSinkType
  <1> HIDE DEF h
  <1>5. PairOK(h, attempt'[d][k].outcome, s, run[d][k], effect'[d], k)
    BY <1>1, <1>2, <1>4, PairFacts DEF PairOK
  <1>6. SucceedsOnly(d, k)
    BY <1>1 DEF NoneSucceeds, SucceedsOnly
  <1>7. QED
    BY <1>2, <1>3, <1>4, <1>5, <1>6, PairFacts, PairReplaced

\* Giving up a handoff that has not succeeded.
LEMMA GiveUpOK ==
  ASSUME CoreInv, HandoffInv, [Next]_vars,
         NEW d \in Deliveries, NEW k \in AttemptNumber, GiveUp(d, k),
         handoff[d][k].state \notin {"absent", "succeeded"},
         UNCHANGED <<sink, message, run, effect>>
  PROVE  HandoffInv'
  <1> DEFINE h == SetFailed(handoff[d][k], "dead", now)
  <1>0. now \in Nat
    BY DEF CoreInv, TypeOK
  <1>1. h \in HandoffRow /\ h.state = "dead" /\ h.execution_token = 0
    BY <1>0, PairFacts, SetFailedFacts
  <1>2. handoff' = [handoff EXCEPT ![d][k] = h] /\ UNCHANGED vars
    BY DEF GiveUp
  <1> HIDE DEF h
  <1>3. PairOK(h, attempt'[d][k].outcome, sink[d][k], run[d][k], effect'[d], k)
    BY <1>1, <1>2, PairFacts DEF PairOK, vars
  <1>4. SucceedsOnly(d, k)
    BY <1>2 DEF SucceedsOnly, vars
  <1>5. QED
    BY <1>1, <1>2, <1>3, <1>4, PairFacts, PairReplaced
-----------------------------------------------------------------------------
(* One lemma per actor: its steps keep the invariant.                        *)

\* A step that changes no attempt records no success.
LEMMA QuietSuccess ==
  ASSUME attempt' = attempt, NEW d, NEW k
  PROVE  SucceedsOnly(d, k) /\ attempt'[d][k].outcome = attempt[d][k].outcome
  BY DEF SucceedsOnly

LEMMA PrepareOK ==
  ASSUME CoreInv, HandoffInv, [Next]_vars,
         NEW d \in Deliveries, NEW k \in AttemptNumber,
         NEW reading \in ApplicationClock, Prepare(d, k, reading)
  PROVE  HandoffInv'
  <1> DEFINE h == [NoHandoff EXCEPT !.state = "prepared", !.updated_at = now]
             remaining == AttemptRemaining(d, k, reading)
             s == [stage |-> "prepared", cutoff |-> now + remaining]
  <1>0. now \in Nat
    BY DEF CoreInv, TypeOK
  <1>1. h \in HandoffRow
    <2>1. 0 \in 0 .. MaxExecutions /\ "prepared" \in HandoffState
      BY HandoffAssumption DEF HandoffState
    <2>2. QED
      BY <1>0, <2>1 DEF NoHandoff, HandoffRow
  <1>2. /\ h.state = "prepared" /\ h.execution_token = 0 /\ h.enqueued = FALSE
    BY DEF NoHandoff
  <1>3. remaining \in Nat
    BY TimeLeftNat DEF AttemptRemaining, ApplicationClock
  <1>4. s \in Sink /\ s.stage = "prepared"
    BY <1>0, <1>3 DEF Sink
  <1>5. /\ handoff' = [handoff EXCEPT ![d][k] = h] /\ sink' = [sink EXCEPT ![d][k] = s]
        /\ UNCHANGED <<message, run, effect>>
        /\ sink[d][k].stage = "idle" /\ attempt[d][k].outcome # "absent"
    BY DEF Prepare
  <1>90. SucceedsOnly(d, k) /\ attempt'[d][k].outcome = attempt[d][k].outcome
    BY QuietSuccess DEF Prepare, vars
  <1> HIDE DEF h, s, remaining
  <1>6. PairOK(h, attempt'[d][k].outcome, s, run[d][k], effect'[d], k)
    BY <1>2, <1>4, <1>5, <1>90, PairFacts DEF PairOK
  <1>7. QED
    BY <1>1, <1>4, <1>5, <1>6, <1>90, PairFacts, PairReplaced

\* The broker accepting a message, and a sink that is gone.
LEMMA SinkMovesOK ==
  ASSUME CoreInv, HandoffInv, [Next]_vars,
         NEW d \in Deliveries, NEW k \in AttemptNumber,
         Kick(d, k) \/ SinkGone(d, k)
  PROVE  HandoffInv'
  <1>0. SucceedsOnly(d, k) /\ attempt'[d][k].outcome = attempt[d][k].outcome
    BY QuietSuccess DEF Kick, SinkGone, vars
  <1>1. CASE Kick(d, k)
    <2> DEFINE s == [sink[d][k] EXCEPT !.stage = "kicked"]
    <2>1. s \in Sink /\ s.stage = "kicked"
      BY PairFacts DEF Sink
    <2>2. sink' = [sink EXCEPT ![d][k] = s]
      BY <1>1 DEF Kick, vars
    <2>3. message' \in [Deliveries -> SUBSET AttemptNumber]
      BY <1>1, PairFacts DEF Kick
    <2>4. sink[d][k].stage = "prepared" /\ UNCHANGED <<handoff, run, effect>>
      BY <1>1 DEF Kick
    <2> HIDE DEF s
    <2>5. PairOK(handoff[d][k], attempt'[d][k].outcome, s, run[d][k], effect'[d], k)
      BY <1>0, <2>1, <2>4, PairFacts DEF PairOK
    <2>6. QED
      BY <1>0, <2>1, <2>2, <2>3, <2>4, <2>5, PairFacts, PairReplaced
  <1>2. CASE SinkGone(d, k)
    <2>1. /\ sink' = [sink EXCEPT ![d][k] = DoneSink]
          /\ UNCHANGED <<handoff, message, run, effect>>
      BY <1>2 DEF SinkGone, DoneSink
    <2>2. PairOK(handoff[d][k], attempt'[d][k].outcome, DoneSink, run[d][k], effect'[d], k)
      BY <1>0, <2>1, DoneSinkType, PairFacts DEF PairOK
    <2>3. QED
      BY <1>0, <2>1, <2>2, DoneSinkType, PairFacts, PairReplaced
  <1>3. QED
    BY <1>1, <1>2

\* A late acknowledgement moves a prepared handoff on and fills in enqueued_at.
LEMMA MarkEnqueuedOK ==
  ASSUME CoreInv, HandoffInv, [Next]_vars,
         NEW d \in Deliveries, NEW k \in AttemptNumber, MarkEnqueued(d, k)
  PROVE  HandoffInv'
  <1> DEFINE old == handoff[d][k]
             w == IF old.state = "prepared" THEN "enqueued" ELSE old.state
             g == [old EXCEPT !.state = w, !.enqueued = TRUE, !.updated_at = now]
             h == IF old.enqueued THEN old ELSE g
  <1>0. now \in Nat
    BY DEF CoreInv, TypeOK
  <1>1. old \in HandoffRow
    BY PairFacts
  <1>2. w \in HandoffState
    BY <1>1 DEF HandoffRow, HandoffState
  <1>3. handoff' = [handoff EXCEPT ![d][k] = h]
    <2>1. h = Acknowledged(old)
      BY DEF Acknowledged
    <2>2. QED
      BY <2>1 DEF MarkEnqueued
  <1>4. /\ sink' = [sink EXCEPT ![d][k] = DoneSink] /\ sink[d][k].stage = "kicked"
        /\ UNCHANGED <<message, run, effect>>
    BY DEF MarkEnqueued, DoneSink
  <1>90. SucceedsOnly(d, k) /\ attempt'[d][k].outcome = attempt[d][k].outcome
    BY QuietSuccess DEF MarkEnqueued, vars
  <1> HIDE DEF w
  <1>5. /\ g \in HandoffRow /\ g.state = w /\ g.enqueued = TRUE
        /\ g.execution_token = old.execution_token
        /\ g.execution_count = old.execution_count
    BY <1>0, <1>1, <1>2 DEF HandoffRow
  <1> HIDE DEF g
  <1>6. h \in HandoffRow
    BY <1>1, <1>5
  <1>7. PairOK(old, attempt'[d][k].outcome, DoneSink, run[d][k], effect'[d], k)
    BY <1>4, <1>90, DoneSinkType, PairFacts DEF PairOK
  <1>8. PairOK(g, attempt'[d][k].outcome, DoneSink, run[d][k], effect'[d], k)
    <2>1. old.state # "absent"
      BY <1>4, PairFacts DEF PairOK
    <2>2. w # "absent" /\ w # "prepared"
      BY <2>1 DEF w
    <2>3. \A x \in {"executing", "succeeded", "retry_wait"} : w = x <=> old.state = x
      BY DEF w
    <2>4. QED
      BY <1>5, <1>7, <2>1, <2>2, <2>3, DoneSinkType DEF PairOK
  <1>9. PairOK(h, attempt'[d][k].outcome, DoneSink, run[d][k], effect'[d], k)
    BY <1>7, <1>8
  <1> HIDE DEF h, old
  <1>10. QED
    BY <1>3, <1>4, <1>6, <1>9, <1>90, DoneSinkType, PairFacts, PairReplaced

\* The relay fails an attempt and leaves its handoff to recovery.
LEMMA RelayFailOK ==
  ASSUME CoreInv, HandoffInv, [Next]_vars,
         NEW d \in Deliveries, NEW k \in AttemptNumber, RelayFail(d, k)
  PROVE  HandoffInv'
  <1>1. /\ attempt[d][k].outcome = "started" /\ attempt'[d][k].outcome = "retryable"
        /\ NoneSucceeds
    BY FailFacts DEF RelayFail
  <1>2. /\ sink' = [sink EXCEPT ![d][k] = DoneSink]
        /\ UNCHANGED <<handoff, message, run, effect>>
    BY DEF RelayFail, DoneSink
  <1>3. PairOK(handoff[d][k], attempt'[d][k].outcome, DoneSink, run[d][k], effect'[d], k)
    BY <1>1, <1>2, DoneSinkType, PairFacts DEF PairOK
  <1>4. SucceedsOnly(d, k)
    BY <1>1 DEF NoneSucceeds, SucceedsOnly
  <1>5. QED
    BY <1>2, <1>3, <1>4, DoneSinkType, PairFacts, PairReplaced

LEMMA SinkOK ==
  ASSUME CoreInv, HandoffInv, [Next]_vars,
         NEW d \in Deliveries, NEW k \in AttemptNumber, SinkStep(d, k)
  PROVE  HandoffInv'
  <1>1. CASE EnqueueFailed(d, k)
    <2>1. FailBoth(d, k) /\ handoff[d][k].state # "absent"
      BY <1>1 DEF EnqueueFailed
    <2>2. /\ sink' = [sink EXCEPT ![d][k] = DoneSink]
          /\ UNCHANGED <<message, run, effect>>
      BY <1>1 DEF EnqueueFailed, DoneSink
    <2>3. QED
      BY <2>1, <2>2, FailBothOK
  <1>2. QED
    BY <1>1, PrepareOK, SinkMovesOK, MarkEnqueuedOK, RelayFailOK DEF SinkStep
\* A handler starts under a fresh token.
LEMMA AdmitOK ==
  ASSUME CoreInv, HandoffInv, [Next]_vars,
         NEW d \in Deliveries, NEW k \in AttemptNumber,
         NEW reading \in ApplicationClock, Admit(d, k, reading)
  PROVE  HandoffInv'
  <1> DEFINE old == handoff[d][k]
             remaining == Least(AttemptRemaining(d, k, now), ExecutionTimeout)
             deadline == now + remaining
             n == old.execution_count + 1
             h == Admitted(old, deadline)
             c == IF deadline <= reading THEN now ELSE now + (deadline - reading)
             x == [stage |-> "running", cutoff |-> c]
             r == [run[d][k] EXCEPT ![n] = x]
  <1>1. now \in Nat /\ reading \in Nat
    BY DEF CoreInv, TypeOK, ApplicationClock
  <1>2. remaining \in Nat /\ deadline \in Nat
    <2>1. AttemptRemaining(d, k, now) \in Nat
      BY <1>1, TimeLeftNat DEF AttemptRemaining
    <2>2. QED
      BY <1>1, <2>1, HandoffAssumption DEF Least
  <1>3. /\ n \in Execution /\ OwnsParent(d, k) /\ Admissible(d, k)
        /\ handoff' = [handoff EXCEPT ![d][k] = h]
        /\ run' = [run EXCEPT ![d][k][n] = x]
        /\ UNCHANGED <<sink, message, effect>>
    BY DEF Admit
  <1>4. SucceedsOnly(d, k) /\ attempt'[d][k].outcome = attempt[d][k].outcome
    BY QuietSuccess DEF Admit, vars
  <1>5. old \in HandoffRow
    BY PairFacts
  <1>6. c \in Nat
    BY <1>1, <1>2
  <1> HIDE DEF old, remaining, deadline, c
  <1>7. /\ h \in HandoffRow /\ h.state = "executing" /\ h.enqueued = TRUE
        /\ h.execution_token = n /\ h.execution_count = n
    <2>1. n \in 0 .. MaxExecutions /\ "executing" \in HandoffState
      BY <1>3 DEF Execution, HandoffState
    <2> HIDE DEF n
    <2>2. h = [old EXCEPT !.state = "executing", !.enqueued = TRUE,
                          !.execution_token = n, !.execution_deadline = deadline,
                          !.execution_count = n, !.updated_at = now]
      BY DEF Admitted, n
    <2>3. QED
      BY <1>1, <1>2, <1>5, <2>1, <2>2 DEF HandoffRow
  <1>8. x \in Run /\ x.stage = "running"
    BY <1>6 DEF Run
  <1> HIDE DEF x, h
  <1>9. r \in [Execution -> Run] /\ run' = [run EXCEPT ![d][k] = r]
    BY <1>3, <1>8, PairFacts
  <1>10. \A m \in Execution : r[m].stage = "completed" => run[d][k][m].stage = "completed"
    BY <1>3, <1>8, PairFacts
  <1>11. n # 0
    BY <1>3 DEF Execution
  <1>12. attempt[d][k].outcome = "started" /\ sink[d][k].stage # "idle"
    BY <1>3, PairFacts DEF PairOK, OwnsParent, Admissible
  <1> HIDE DEF r, n
  <1>13. PairOK(h, attempt'[d][k].outcome, sink[d][k], r, effect'[d], k)
    BY <1>3, <1>4, <1>7, <1>10, <1>11, <1>12, PairFacts DEF PairOK
  <1>14. handoff' = [handoff EXCEPT ![d][k] = h] /\ UNCHANGED <<sink, message, effect>>
    BY <1>3
  <1>15. QED
    BY <1>4, <1>7, <1>9, <1>13, <1>14, PairFacts, PairReplaced

LEMMA AdmitStepOK ==
  ASSUME CoreInv, HandoffInv, [Next]_vars,
         NEW d \in Deliveries, NEW k \in AttemptNumber, AdmitStep(d, k)
  PROVE  HandoffInv'
  <1>1. CASE AdmitStale(d, k)
    <2>1. /\ GiveUp(d, k) /\ UNCHANGED <<sink, message, run, effect>>
          /\ handoff[d][k].state \notin {"absent", "succeeded"}
      BY <1>1 DEF AdmitStale, Admissible
    <2>2. QED
      BY <2>1, GiveUpOK
  <1>2. CASE AdmitLate(d, k)
    <2>1. /\ FailBoth(d, k) /\ UNCHANGED <<message, run, effect>>
          /\ sink' = [sink EXCEPT ![d][k] = sink[d][k]]
          /\ handoff[d][k].state # "absent"
      BY <1>2, PairFacts DEF AdmitLate, Admissible
    <2>2. QED
      BY <2>1, FailBothOK
  <1>3. QED
    BY <1>1, <1>2, AdmitOK DEF AdmitStep

LEMMA RecoverOK ==
  ASSUME CoreInv, HandoffInv, [Next]_vars,
         NEW d \in Deliveries, NEW k \in AttemptNumber, RecoverExpired(d, k)
  PROVE  HandoffInv'
  <1>1. /\ handoff[d][k].state \notin {"absent", "succeeded"}
        /\ UNCHANGED <<sink, message, run, effect>>
        /\ sink' = [sink EXCEPT ![d][k] = sink[d][k]]
    BY PairFacts DEF RecoverExpired, HandoffExpired
  <1>2. FailBoth(d, k) \/ GiveUp(d, k)
    BY DEF RecoverExpired
  <1>3. CASE FailBoth(d, k)
    BY <1>1, <1>3, FailBothOK
  <1>4. CASE GiveUp(d, k)
    BY <1>1, <1>4, GiveUpOK
  <1>5. QED
    BY <1>2, <1>3, <1>4
\* One execution changes its stage; only a completed handler counts as completed.
LEMMA RunStageOK ==
  ASSUME CoreInv, HandoffInv, [Next]_vars, attempt' = attempt,
         NEW d \in Deliveries, NEW k \in AttemptNumber, NEW n \in Execution,
         NEW x \in Run, run' = [run EXCEPT ![d][k][n] = x],
         UNCHANGED <<handoff, sink, message>>,
         effect' \in [Deliveries -> SUBSET AttemptNumber],
         \A e \in Deliveries : effect[e] \subseteq effect'[e],
         x.stage = "completed" => k \in effect'[d]
  PROVE  HandoffInv'
  <1> DEFINE r == [run[d][k] EXCEPT ![n] = x]
  <1>1. SucceedsOnly(d, k) /\ attempt'[d][k].outcome = attempt[d][k].outcome
    BY QuietSuccess
  <1>2. r \in [Execution -> Run] /\ run' = [run EXCEPT ![d][k] = r]
    BY PairFacts
  <1>3. \A m \in Execution : r[m].stage = "completed" => k \in effect'[d]
    <2>1. \A m \in Execution : run[d][k][m].stage = "completed" => k \in effect[d]
      BY PairFacts DEF PairOK
    <2>2. QED
      BY <2>1, PairFacts
  <1> HIDE DEF r
  <1>4. PairOK(handoff[d][k], attempt'[d][k].outcome, sink[d][k], r, effect'[d], k)
    BY <1>1, <1>3, PairFacts DEF PairOK
  <1>5. QED
    BY <1>1, <1>2, <1>4, PairFacts, PairReplaced

LEMMA HandlerOK ==
  ASSUME CoreInv, HandoffInv, [Next]_vars,
         NEW d \in Deliveries, NEW k \in AttemptNumber, NEW n \in Execution,
         \/ \E verdict \in {"completed", "retryable", "terminal"} :
              HandlerReturns(d, k, n, verdict)
         \/ HandlerTimeout(d, k, n)
         \/ WorkerLost(d, k, n)
  PROVE  HandoffInv'
  <1>0. NoRun \in Run /\ NoRun.stage = "none"
    BY DEF NoRun, Run
  <1>1. ASSUME NEW verdict \in {"completed", "retryable", "terminal"},
               HandlerReturns(d, k, n, verdict)
        PROVE  HandoffInv'
    <2> DEFINE x == [stage |-> verdict, cutoff |-> 0]
               e == IF verdict = "completed" THEN effect[d] \cup {k} ELSE effect[d]
    <2>1. x \in Run /\ x.stage = verdict
      BY DEF Run
    <2>2. e \in SUBSET AttemptNumber /\ effect[d] \subseteq e
          /\ (verdict = "completed" => k \in e)
      BY PairFacts
    <2>3. effect' = [effect EXCEPT ![d] = e]
      BY <1>1 DEF HandlerReturns
    <2> HIDE DEF e
    <2>4. /\ effect' \in [Deliveries -> SUBSET AttemptNumber]
          /\ \A c \in Deliveries : effect[c] \subseteq effect'[c]
          /\ effect'[d] = e
      BY <2>2, <2>3, PairFacts
    <2>5. /\ run' = [run EXCEPT ![d][k][n] = x] /\ UNCHANGED <<handoff, sink, message>>
          /\ attempt' = attempt
      BY <1>1 DEF HandlerReturns, vars
    <2> HIDE DEF x
    <2>6. QED
      BY <2>1, <2>2, <2>4, <2>5, RunStageOK
  <1>2. CASE HandlerTimeout(d, k, n)
    <2> DEFINE x == [stage |-> "retryable", cutoff |-> 0]
    <2>1. x \in Run /\ x.stage = "retryable"
      BY DEF Run
    <2>2. /\ run' = [run EXCEPT ![d][k][n] = x]
          /\ UNCHANGED <<handoff, sink, message, effect>> /\ attempt' = attempt
      BY <1>2 DEF HandlerTimeout, vars
    <2> HIDE DEF x
    <2>3. QED
      BY <2>1, <2>2, PairFacts, RunStageOK
  <1>3. CASE WorkerLost(d, k, n)
    <2>1. /\ run' = [run EXCEPT ![d][k][n] = NoRun]
          /\ UNCHANGED <<handoff, sink, message, effect>> /\ attempt' = attempt
      BY <1>3 DEF WorkerLost, vars
    <2>2. QED
      BY <1>0, <2>1, PairFacts, RunStageOK
  <1>4. QED
    BY <1>1, <1>2, <1>3

\* An execution of attempt k is over; the others stay.
LEMMA RunDropped ==
  ASSUME HandoffInv, NEW d \in Deliveries, NEW k \in AttemptNumber,
         NEW n \in Execution, run' = [run EXCEPT ![d][k][n] = NoRun]
  PROVE  LET r == [run[d][k] EXCEPT ![n] = NoRun]
         IN  /\ r \in [Execution -> Run] /\ run' = [run EXCEPT ![d][k] = r]
             /\ \A m \in Execution : r[m].stage = "completed" => k \in effect[d]
  <1>1. NoRun \in Run /\ NoRun.stage = "none"
    BY DEF NoRun, Run
  <1>2. \A m \in Execution : run[d][k][m].stage = "completed" => k \in effect[d]
    BY PairFacts DEF PairOK
  <1>3. QED
    BY <1>1, <1>2, PairFacts

\* The success of attempt and handoff.
LEMMA FinalizeSuccessOK ==
  ASSUME CoreInv, HandoffInv, [Next]_vars,
         NEW d \in Deliveries, NEW k \in AttemptNumber, NEW n \in Execution,
         FinalizeSuccess(d, k, n)
  PROVE  HandoffInv'
  <1> DEFINE old == handoff[d][k]
             h == [old EXCEPT !.state = "succeeded", !.execution_token = 0,
                              !.execution_deadline = 0, !.updated_at = now]
             r == [run[d][k] EXCEPT ![n] = NoRun]
  <1>1. now \in Nat /\ attempt \in [Deliveries -> Attempts]
    BY DEF CoreInv, TypeOK, Attempts
  <1>2. /\ handoff' = [handoff EXCEPT ![d][k] = h] /\ UNCHANGED <<sink, message, effect>>
        /\ run' = [run EXCEPT ![d][k][n] = NoRun]
        /\ old.state = "executing" /\ run[d][k][n].stage = "completed" /\ Succeed(d, k)
    BY DEF FinalizeSuccess, LockedExecution
  <1>3. old \in HandoffRow
    BY PairFacts
  <1>4. /\ h \in HandoffRow /\ h.state = "succeeded" /\ h.execution_token = 0
        /\ h.enqueued = old.enqueued
    <2>1. 0 \in 0 .. MaxExecutions /\ "succeeded" \in HandoffState
      BY HandoffAssumption DEF HandoffState, Settled
    <2> HIDE DEF old
    <2>2. QED
      BY <1>1, <1>3, <2>1 DEF HandoffRow
  <1>5. /\ r \in [Execution -> Run] /\ run' = [run EXCEPT ![d][k] = r]
        /\ \A m \in Execution : r[m].stage = "completed" => k \in effect[d]
    BY <1>2, RunDropped
  <1>6. SucceedsOnly(d, k)
    BY <1>2, LedgerSuccess
  <1>7. attempt'[d][k].outcome = "succeeded"
    <2>1. attempt'[d] = Closed(attempt[d], k, "succeeded", now)
      BY <1>1, <1>2 DEF Succeed
    <2>2. QED
      BY <1>1, <2>1, ClosedOutcomes
  <1>8. k \in effect[d] /\ old.enqueued /\ sink[d][k].stage # "idle"
    BY <1>2, PairFacts DEF PairOK
  <1>9. effect' = effect
    BY <1>2
  <1> HIDE DEF h, r, old
  <1>10. PairOK(h, attempt'[d][k].outcome, sink[d][k], r, effect'[d], k)
    BY <1>4, <1>5, <1>7, <1>8, <1>9, PairFacts DEF PairOK
  <1>11. handoff' = [handoff EXCEPT ![d][k] = h] /\ UNCHANGED <<sink, message, effect>>
    BY <1>2
  <1>12. QED
    BY <1>4, <1>5, <1>6, <1>10, <1>11, PairFacts, PairReplaced

\* The failure of attempt and handoff.
LEMMA FinalizeFailureOK ==
  ASSUME CoreInv, HandoffInv, [Next]_vars,
         NEW d \in Deliveries, NEW k \in AttemptNumber, NEW n \in Execution,
         NEW hint \in RetryAfters, FinalizeFailure(d, k, n, hint)
  PROVE  HandoffInv'
  <1> DEFINE retryable == run[d][k][n].stage = "retryable"
             delay == IF retryable THEN hint ELSE 0
             h == SetFailed(handoff[d][k], delivery'[d].state, now)
             r == [run[d][k] EXCEPT ![n] = NoRun]
  <1>1. now \in Nat
    BY DEF CoreInv, TypeOK
  <1>2. /\ handoff' = [handoff EXCEPT ![d][k] = h] /\ UNCHANGED <<sink, message, effect>>
        /\ run' = [run EXCEPT ![d][k][n] = NoRun]
        /\ handoff[d][k].state = "executing" /\ Fail(d, k, retryable, delay)
    BY DEF FinalizeFailure, LockedExecution
  <1>3. retryable \in BOOLEAN
    OBVIOUS
  <1> HIDE DEF retryable, delay
  <1>4. /\ attempt[d][k].outcome = "started" /\ NoneSucceeds
        /\ attempt'[d][k].outcome = IF retryable THEN "retryable" ELSE "terminal"
        /\ delivery'[d].state = "retry_wait" => retryable
    BY <1>2, <1>3, FailFacts
  <1>5. /\ h \in HandoffRow /\ h.execution_token = 0
        /\ h.state = IF delivery'[d].state = "retry_wait" THEN "retry_wait" ELSE "dead"
    BY <1>1, PairFacts, SetFailedFacts
  <1>6. /\ r \in [Execution -> Run] /\ run' = [run EXCEPT ![d][k] = r]
        /\ \A m \in Execution : r[m].stage = "completed" => k \in effect[d]
    BY <1>2, RunDropped
  <1>7. effect' = effect /\ sink[d][k].stage # "idle"
    BY <1>2, PairFacts DEF PairOK
  <1> HIDE DEF h, r
  <1>8. PairOK(h, attempt'[d][k].outcome, sink[d][k], r, effect'[d], k)
    BY <1>4, <1>5, <1>6, <1>7, PairFacts DEF PairOK
  <1>9. SucceedsOnly(d, k)
    BY <1>4 DEF NoneSucceeds, SucceedsOnly
  <1>10. handoff' = [handoff EXCEPT ![d][k] = h] /\ UNCHANGED <<sink, message, effect>>
    BY <1>2
  <1>11. QED
    BY <1>5, <1>6, <1>8, <1>9, <1>10, PairFacts, PairReplaced

LEMMA WorkerOK ==
  ASSUME CoreInv, HandoffInv, [Next]_vars,
         NEW d \in Deliveries, NEW k \in AttemptNumber, NEW n \in Execution,
         WorkerStep(d, k, n)
  PROVE  HandoffInv'
  BY HandlerOK, FinalizeSuccessOK, FinalizeFailureOK DEF WorkerStep
\* Producers, claims, lease reconciliation and time touch no handoff.
LEMMA LedgerOK ==
  ASSUME CoreInv, HandoffInv, [Next]_vars, UNCHANGED handoffVars, NoneSucceeds
  PROVE  HandoffInv'
  <1>1. UNCHANGED <<handoff, sink, message, run, effect>>
    BY DEF handoffVars
  <1>2. HandoffTypes'
    BY <1>1 DEF HandoffInv, HandoffTypes
  <1>3. ASSUME NEW d \in Deliveries, NEW k \in AttemptNumber
        PROVE  PairOK(handoff'[d][k], attempt'[d][k].outcome, sink'[d][k],
                      run'[d][k], effect'[d], k)
    <2>1. attempt'[d][k].outcome = "succeeded" => attempt[d][k].outcome = "succeeded"
      BY <1>3 DEF NoneSucceeds
    <2>2. QED
      BY <1>1, <1>3, <2>1, PairFrame
  <1>4. QED
    BY <1>2, <1>3 DEF HandoffInv

LEMMA HandoffNextInv ==
  ASSUME CoreInv, HandoffInv, [HandoffNext]_systemVars
  PROVE  HandoffInv'
  <1>1. [Next]_vars
    BY HandoffSteps
  <1>2. CASE Ledger
    <2>1. NoneSucceeds
      <3>1. ASSUME UNCHANGED attempt
            PROVE  NoneSucceeds
        BY <3>1, LedgerSuccess
      <3>2. ASSUME NEW ds \in SUBSET Deliveries, NEW at \in ApplicationClock,
                   NEW policyOf \in [ds -> Policies], Publish(ds, policyOf, at)
            PROVE  NoneSucceeds
        BY <3>1, <3>2 DEF Publish
      <3>3. ASSUME NEW source \in Deliveries, NEW e \in Deliveries,
                   NEW at \in ApplicationClock, Replay(source, e, at)
            PROVE  NoneSucceeds
        BY <3>1, <3>3 DEF Replay
      <3>4. QED
        BY <1>2, <3>2, <3>3, LedgerSuccess DEF Ledger
    <2>2. QED
      BY <1>1, <1>2, <2>1, LedgerOK DEF Ledger
  <1>3. CASE HandoffTick \/ UNCHANGED systemVars
    <2>1. attempt' = attempt /\ UNCHANGED handoffVars
      BY <1>3 DEF HandoffTick, Tick, systemVars, vars
    <2>2. NoneSucceeds
      BY <2>1, LedgerSuccess
    <2>3. QED
      BY <1>1, <2>1, <2>2, LedgerOK
  <1>4. ASSUME NEW d \in Deliveries, NEW k \in AttemptNumber,
               \/ SinkStep(d, k)
               \/ AdmitStep(d, k)
               \/ \E n \in Execution : WorkerStep(d, k, n)
               \/ RecoverExpired(d, k)
        PROVE  HandoffInv'
    BY <1>1, <1>4, SinkOK, AdmitStepOK, WorkerOK, RecoverOK
  <1>5. QED
    BY <1>2, <1>3, <1>4 DEF HandoffNext

LEMMA HandoffInitInv == HandoffInit => HandoffInv
  <1> SUFFICES ASSUME HandoffInit PROVE HandoffInv
    OBVIOUS
  <1> DEFINE idle == [stage |-> "idle", cutoff |-> 0]
  <1>1. /\ NoHandoff \in HandoffRow /\ NoHandoff.state = "absent"
        /\ NoHandoff.execution_token = 0 /\ NoHandoff.enqueued = FALSE
    <2>1. 0 \in 0 .. MaxExecutions /\ "absent" \in HandoffState
      BY HandoffAssumption DEF HandoffState
    <2>2. QED
      BY <2>1 DEF NoHandoff, HandoffRow
  <1>2. idle \in Sink /\ idle.stage = "idle"
    BY DEF Sink
  <1>3. NoRun \in Run /\ NoRun.stage = "none"
    BY DEF NoRun, Run
  <1>4. /\ handoff = PerAttempt(NoHandoff) /\ sink = PerAttempt(idle)
        /\ message = [d \in Deliveries |-> {}] /\ effect = [d \in Deliveries |-> {}]
        /\ run = PerAttempt([n \in Execution |-> NoRun])
    BY DEF HandoffInit
  <1>5. \A d \in Deliveries, k \in AttemptNumber : attempt[d][k].outcome = "absent"
    BY DEF HandoffInit, Init, NoAttempt
  <1> HIDE DEF idle
  <1>6. HandoffTypes
    BY <1>1, <1>2, <1>3, <1>4 DEF HandoffTypes, PerAttempt
  <1>7. ASSUME NEW d \in Deliveries, NEW k \in AttemptNumber
        PROVE  PairOK(handoff[d][k], attempt[d][k].outcome, sink[d][k], run[d][k],
                      effect[d], k)
    <2>1. /\ handoff[d][k] = NoHandoff /\ sink[d][k] = idle
          /\ \A n \in Execution : run[d][k][n] = NoRun
          /\ attempt[d][k].outcome = "absent"
      BY <1>4, <1>5 DEF PerAttempt
    <2>2. QED
      BY <1>1, <1>2, <1>3, <2>1 DEF PairOK
  <1>8. QED
    BY <1>6, <1>7 DEF HandoffInv

LEMMA HandoffInvariant == HandoffSpec => [](CoreInv /\ HandoffInv)
  <1>1. HandoffInit => HandoffInv
    BY HandoffInitInv
  <1>2. CoreInv /\ HandoffInv /\ [HandoffNext]_systemVars => HandoffInv'
    BY HandoffNextInv
  <1>3. QED
    BY <1>1, <1>2, HandoffCore, PTL DEF HandoffSpec

-----------------------------------------------------------------------------
(* The theorems.                                                             *)

\* Every variable keeps its type, for any number of admissions of a handoff.
THEOREM HandoffTypeCorrect == HandoffSpec => []HandoffTypeOK
  <1>1. CoreInv /\ HandoffInv => HandoffTypeOK
    BY DEF CoreInv, HandoffInv, HandoffTypes, HandoffTypeOK
  <1>2. QED
    BY <1>1, HandoffInvariant, PTL

\* No operation of the store writes a row its CHECK constraints reject.
THEOREM HandoffRowsCoherent == HandoffSpec => []RowsCoherent
  <1>1. HandoffInv => RowsCoherent
    BY DEF HandoffInv, PairOK, RowsCoherent
  <1>2. QED
    BY <1>1, HandoffInvariant, PTL

\* A handoff is succeeded exactly if its attempt is, and waits for a retry only
\* if its attempt failed retryably, whoever ended it.
THEOREM HandoffAgreement == HandoffSpec => []HandoffAgrees
  <1>1. HandoffInv => HandoffAgrees
    BY DEF HandoffInv, PairOK, HandoffAgrees
  <1>2. QED
    BY <1>1, HandoffInvariant, PTL

\* No broker acknowledgement, duplicate or recovery makes an attempt succeed
\* whose handler never completed.
THEOREM SuccessNeedsCompletion == HandoffSpec => []SuccessIsCompletion
  <1>1. HandoffInv => SuccessIsCompletion
    BY DEF HandoffInv, PairOK, SuccessIsCompletion
  <1>2. QED
    BY <1>1, HandoffInvariant, PTL
\* Attempt j of e keeps its verdict and its count of admissions.
KeepsVerdict(e, j) ==
  handoff[e][j].state \in Settled =>
    /\ handoff'[e][j].state = handoff[e][j].state
    /\ handoff'[e][j].execution_count = handoff[e][j].execution_count

\* A step that writes the handoff of one attempt, and only if it is not settled.
LEMMA WriteKeepsVerdicts ==
  ASSUME HandoffInv, NEW d \in Deliveries, NEW k \in AttemptNumber,
         handoff[d][k].state \notin Settled,
         NEW h, handoff' = [handoff EXCEPT ![d][k] = h],
         NEW e \in Deliveries, NEW j \in AttemptNumber
  PROVE  KeepsVerdict(e, j)
  <1>1. handoff \in [Deliveries -> [AttemptNumber -> HandoffRow]]
    BY DEF HandoffInv, HandoffTypes
  <1>2. QED
    BY <1>1 DEF KeepsVerdict

\* An acknowledgement may find its handoff settled and then keeps the verdict.
LEMMA AcknowledgementKeepsVerdicts ==
  ASSUME HandoffInv, NEW d \in Deliveries, NEW k \in AttemptNumber,
         MarkEnqueued(d, k), NEW e \in Deliveries, NEW j \in AttemptNumber
  PROVE  KeepsVerdict(e, j)
  <1> DEFINE h == Acknowledged(handoff[d][k])
  <1>1. handoff \in [Deliveries -> [AttemptNumber -> HandoffRow]]
    BY DEF HandoffInv, HandoffTypes
  <1>2. handoff' = [handoff EXCEPT ![d][k] = h]
    BY DEF MarkEnqueued
  <1>3. handoff[d][k].state \in Settled =>
          h.state = handoff[d][k].state /\ h.execution_count = handoff[d][k].execution_count
    <2> DEFINE old == handoff[d][k]
               w == IF old.state = "prepared" THEN "enqueued" ELSE old.state
               g == [old EXCEPT !.state = w, !.enqueued = TRUE, !.updated_at = now]
    <2>1. h = IF old.enqueued THEN old ELSE g
      BY DEF Acknowledged
    <2>2. old \in HandoffRow
      BY <1>1
    <2>3. old.state \in Settled => w = old.state
      BY DEF Settled
    <2> HIDE DEF w, old
    <2>4. g.state = w /\ g.execution_count = old.execution_count
      BY <2>2 DEF HandoffRow
    <2>5. QED
      BY <2>1, <2>3, <2>4 DEF old
  <1> HIDE DEF h
  <1>4. CASE e = d /\ j = k
    BY <1>1, <1>2, <1>3, <1>4 DEF KeepsVerdict
  <1>5. CASE ~(e = d /\ j = k)
    BY <1>1, <1>2, <1>5 DEF KeepsVerdict
  <1>6. QED
    BY <1>4, <1>5

LEMMA VerdictsKept ==
  ASSUME HandoffInv, [HandoffNext]_systemVars,
         NEW e \in Deliveries, NEW j \in AttemptNumber
  PROVE  KeepsVerdict(e, j)
  <1>1. ASSUME handoff' = handoff
        PROVE  KeepsVerdict(e, j)
    BY <1>1 DEF KeepsVerdict
  <1>2. CASE Ledger \/ HandoffTick \/ UNCHANGED systemVars
    BY <1>1, <1>2 DEF Ledger, HandoffTick, systemVars, handoffVars
  <1>3. ASSUME NEW d \in Deliveries, NEW k \in AttemptNumber, SinkStep(d, k)
        PROVE  KeepsVerdict(e, j)
    <2>1. CASE \E reading \in ApplicationClock : Prepare(d, k, reading)
      <3>1. sink[d][k].stage = "idle"
        BY <2>1 DEF Prepare
      <3>2. handoff[d][k].state \notin Settled
        BY <1>3, <3>1, PairFacts DEF PairOK, Settled
      <3>3. \E h : handoff' = [handoff EXCEPT ![d][k] = h]
        BY <2>1 DEF Prepare
      <3>4. QED
        BY <1>3, <3>2, <3>3, WriteKeepsVerdicts
    <2>2. CASE MarkEnqueued(d, k)
      BY <1>3, <2>2, AcknowledgementKeepsVerdicts
    <2>3. CASE EnqueueFailed(d, k)
      <3>1. handoff[d][k].state \notin Settled
        BY <2>3 DEF EnqueueFailed, Settled
      <3>2. \E h : handoff' = [handoff EXCEPT ![d][k] = h]
        BY <2>3 DEF EnqueueFailed, FailBoth
      <3>3. QED
        BY <1>3, <3>1, <3>2, WriteKeepsVerdicts
    <2>4. CASE Kick(d, k) \/ SinkGone(d, k) \/ RelayFail(d, k)
      BY <1>1, <2>4 DEF Kick, SinkGone, RelayFail
    <2>5. QED
      BY <1>3, <2>1, <2>2, <2>3, <2>4 DEF SinkStep
  <1>4. ASSUME NEW d \in Deliveries, NEW k \in AttemptNumber,
               AdmitStep(d, k) \/ RecoverExpired(d, k)
        PROVE  KeepsVerdict(e, j)
    <2>1. handoff[d][k].state \notin Settled
      BY <1>4 DEF AdmitStep, Admit, AdmitStale, AdmitLate, Admissible,
                  RecoverExpired, HandoffExpired, Settled
    <2>2. \E h : handoff' = [handoff EXCEPT ![d][k] = h]
      BY <1>4 DEF AdmitStep, Admit, AdmitStale, AdmitLate, RecoverExpired,
                  FailBoth, GiveUp
    <2>3. QED
      BY <1>4, <2>1, <2>2, WriteKeepsVerdicts
  <1>5. ASSUME NEW d \in Deliveries, NEW k \in AttemptNumber, NEW n \in Execution,
               WorkerStep(d, k, n)
        PROVE  KeepsVerdict(e, j)
    <2>1. CASE \/ FinalizeSuccess(d, k, n)
               \/ \E retry_after \in RetryAfters : FinalizeFailure(d, k, n, retry_after)
      <3>1. handoff[d][k].state \notin Settled
        BY <2>1 DEF FinalizeSuccess, FinalizeFailure, LockedExecution, Settled
      <3>2. \E h : handoff' = [handoff EXCEPT ![d][k] = h]
        BY <2>1 DEF FinalizeSuccess, FinalizeFailure
      <3>3. QED
        BY <1>5, <3>1, <3>2, WriteKeepsVerdicts
    <2>2. QED
      BY <1>1, <1>5, <2>1 DEF WorkerStep, HandlerReturns, HandlerTimeout, WorkerLost
  <1>6. QED
    BY <1>2, <1>3, <1>4, <1>5 DEF HandoffNext

\* A settled handoff keeps its verdict and is never admitted again, whatever
\* duplicates, acknowledgements and recoveries still arrive.
THEOREM SettledFinal == HandoffSpec => SettledIsFinal
  <1>1. HandoffInv /\ [HandoffNext]_systemVars =>
          [\A d \in Deliveries, k \in AttemptNumber :
             handoff[d][k].state \in Settled =>
               /\ handoff'[d][k].state = handoff[d][k].state
               /\ handoff'[d][k].execution_count = handoff[d][k].execution_count]_systemVars
    BY VerdictsKept DEF KeepsVerdict
  <1>2. QED
    BY <1>1, HandoffInvariant, PTL DEF HandoffSpec, SettledIsFinal
-----------------------------------------------------------------------------
(* A settled handoff holds no live lease.                                    *)

\* A row does not hold a live lease of attempt k.
NoLease(row, k, t) ==
  row.state # "leased" \/ row.lease_token # k \/ row.lease_expires_at <= t

LeaseInv ==
  \A d \in Deliveries, k \in AttemptNumber :
    handoff[d][k].state \in Settled => NoLease(delivery[d], k, now)

\* Claims lease under the number of a new attempt, so an attempt never regains
\* a lease it lost.
LEMMA NoLeaseKept ==
  ASSUME CoreInv, [Next]_vars, NEW d \in Deliveries, NEW k \in AttemptNumber,
         attempt[d][k].outcome # "absent", NoLease(delivery[d], k, now)
  PROVE  NoLease(delivery'[d], k, now')
  <1> DEFINE r == delivery[d]
             q == delivery'[d]
  <1>1. /\ r \in DeliveryRow /\ now \in Nat /\ k \in Nat
        /\ k <= r.attempts_started /\ r.attempts_started \in Nat
        /\ r.lease_expires_at \in Nat
    BY RowTypes DEF CoreInv, TypeOK, RowOK, DeliveryRow, AttemptNumber
  <1>2. RowStep(r, attempt[d], q, attempt'[d], now, Racing)
    BY StepRows
  <1>3. now <= now' /\ now' \in Nat
    BY <1>1 DEF Next, Publish, Replay, ClaimStep, ClaimSelect, ClaimLockRow, ClaimStamp,
                ClaimCommit, ClaimAbort, Succeed, Fail,
                ReconcileExpired, Tick, vars
  <1>4. CASE q = r
    BY <1>1, <1>3, <1>4 DEF NoLease
  <1>5. ASSUME CreateRow(r, attempt[d], q, attempt'[d])
        PROVE  q.state # "leased"
    BY <1>5 DEF CreateRow, PendingRow
  <1>6. ASSUME ClaimRow(r, attempt[d], q, attempt'[d], Racing)
        PROVE  q.state # "leased" \/ q.lease_token # k
    <2>1. PICK c \in Nat : q = ClaimedRow(r, c)
      BY <1>6 DEF ClaimRow
    <2> HIDE DEF r, q
    <2>2. CASE Expired(r, c)
      BY <1>1, <2>1, <2>2 DEF ClaimedRow, DeliveryRow
    <2>3. CASE ~Expired(r, c)
      <3>1. q.lease_token = r.attempts_started + 1
        BY <1>1, <2>1, <2>3 DEF ClaimedRow, DeliveryRow
      <3>2. QED
        BY <1>1, <3>1
    <2>4. QED
      BY <2>2, <2>3
  <1>7. ASSUME CloseRow(r, attempt[d], q, attempt'[d], now)
        PROVE  q.state # "leased"
    <2> HIDE DEF r, q
    <2>1. QED
      BY <1>1, <1>7 DEF CloseRow, Released, DeliveryRow
  <1>8. QED
    BY <1>2, <1>4, <1>5, <1>6, <1>7 DEF RowStep, NoLease

\* A handoff that settles in a step has lost its lease.
LEMMA SettlesWithoutLease ==
  ASSUME CoreInv, HandoffInv, LeaseInv, [Next]_vars,
         NEW d \in Deliveries, NEW k \in AttemptNumber,
         NoLease(delivery'[d], k, now'),
         NEW h, handoff' = [handoff EXCEPT ![d][k] = h]
  PROVE  LeaseInv'
  <1>1. handoff \in [Deliveries -> [AttemptNumber -> HandoffRow]]
    BY DEF HandoffInv, HandoffTypes
  <1>2. ASSUME NEW e \in Deliveries, NEW j \in AttemptNumber, ~(e = d /\ j = k),
               handoff'[e][j].state \in Settled
        PROVE  NoLease(delivery'[e], j, now')
    <2>1. handoff[e][j].state \in Settled
      BY <1>1, <1>2
    <2>2. attempt[e][j].outcome # "absent"
      BY <1>2, <2>1, PairFacts DEF PairOK, Settled
    <2>3. QED
      BY <1>2, <2>1, <2>2, NoLeaseKept DEF LeaseInv
  <1>3. QED
    BY <1>2 DEF LeaseInv

\* A step that settles no handoff.
LEMMA NothingSettles ==
  ASSUME CoreInv, HandoffInv, LeaseInv, [Next]_vars,
         \A d \in Deliveries, k \in AttemptNumber :
           handoff'[d][k].state \in Settled => handoff[d][k].state \in Settled
  PROVE  LeaseInv'
  <1>1. ASSUME NEW d \in Deliveries, NEW k \in AttemptNumber,
               handoff'[d][k].state \in Settled
        PROVE  NoLease(delivery'[d], k, now')
    <2>1. handoff[d][k].state \in Settled
      BY <1>1
    <2>2. attempt[d][k].outcome # "absent"
      BY <2>1, PairFacts DEF PairOK, Settled
    <2>3. QED
      BY <2>1, <2>2, NoLeaseKept DEF LeaseInv
  <1>2. QED
    BY <1>1 DEF LeaseInv
\* A verdict releases the lease.
LEMMA VerdictReleases ==
  ASSUME CoreInv, NEW d \in Deliveries, NEW k, NEW retryable, NEW hint,
         Succeed(d, k) \/ Fail(d, k, retryable, hint)
  PROVE  delivery'[d].state # "leased"
  <1>1. delivery \in [Deliveries -> DeliveryRow]
    BY DEF CoreInv, TypeOK
  <1>2. \A st, nx : Released(delivery[d], st, nx, now).state = st
    BY <1>1 DEF Released, DeliveryRow
  <1>3. CASE Succeed(d, k)
    BY <1>1, <1>2, <1>3 DEF Succeed
  <1>4. CASE Fail(d, k, retryable, hint)
    <2>1. PICK delay : delivery'[d] = FailedRow(delivery[d], k, retryable, delay, now)
      BY <1>1, <1>4 DEF Fail
    <2>2. QED
      BY <1>2, <2>1 DEF FailedRow
  <1>5. QED
    BY <1>3, <1>4

LEMMA FailBothLease ==
  ASSUME CoreInv, HandoffInv, LeaseInv, [Next]_vars,
         NEW d \in Deliveries, NEW k \in AttemptNumber, FailBoth(d, k)
  PROVE  LeaseInv'
  <1>1. NoLease(delivery'[d], k, now')
    BY VerdictReleases DEF FailBoth, NoLease
  <1>2. \E h : handoff' = [handoff EXCEPT ![d][k] = h]
    BY DEF FailBoth
  <1>3. QED
    BY <1>1, <1>2, SettlesWithoutLease

LEMMA GiveUpLease ==
  ASSUME CoreInv, HandoffInv, LeaseInv, [Next]_vars,
         NEW d \in Deliveries, NEW k \in AttemptNumber, GiveUp(d, k),
         ~OwnsParent(d, k) \/ ~ActiveLease(d, k)
  PROVE  LeaseInv'
  <1>1. NoLease(delivery[d], k, now)
    <2>1. now \in Nat /\ delivery[d].lease_expires_at \in Nat
      BY RowTypes DEF CoreInv, TypeOK, DeliveryRow
    <2>2. delivery[d].state = "leased" /\ delivery[d].lease_token = k =>
            attempt[d][k].outcome = "started"
      BY DEF CoreInv, RowOK
    <2>3. QED
      BY <2>1, <2>2 DEF NoLease, GiveUp, OwnsParent, ActiveLease
  <1>2. NoLease(delivery'[d], k, now')
    BY <1>1 DEF GiveUp, vars
  <1>3. \E h : handoff' = [handoff EXCEPT ![d][k] = h]
    BY DEF GiveUp
  <1>4. QED
    BY <1>2, <1>3, SettlesWithoutLease

\* Writing a handoff that is not settled afterwards.
LEMMA UnsettledWrite ==
  ASSUME CoreInv, HandoffInv, LeaseInv, [Next]_vars,
         NEW d \in Deliveries, NEW k \in AttemptNumber,
         NEW h, handoff' = [handoff EXCEPT ![d][k] = h], h.state \notin Settled
  PROVE  LeaseInv'
  <1>1. handoff \in [Deliveries -> [AttemptNumber -> HandoffRow]]
    BY DEF HandoffInv, HandoffTypes
  <1>2. ASSUME NEW e \in Deliveries, NEW j \in AttemptNumber,
               handoff'[e][j].state \in Settled
        PROVE  handoff[e][j].state \in Settled
    <2>1. CASE e = d /\ j = k
      BY <1>1, <1>2, <2>1
    <2>2. CASE ~(e = d /\ j = k)
      BY <1>1, <1>2, <2>2
    <2>3. QED
      BY <2>1, <2>2
  <1>3. QED
    BY <1>2, NothingSettles

\* An acknowledgement settles nothing.
LEMMA AcknowledgementLease ==
  ASSUME CoreInv, HandoffInv, LeaseInv, [Next]_vars,
         NEW d \in Deliveries, NEW k \in AttemptNumber, MarkEnqueued(d, k)
  PROVE  LeaseInv'
  <1> DEFINE old == handoff[d][k]
             h == Acknowledged(old)
             w == IF old.state = "prepared" THEN "enqueued" ELSE old.state
             g == [old EXCEPT !.state = w, !.enqueued = TRUE, !.updated_at = now]
  <1>1. handoff' = [handoff EXCEPT ![d][k] = h]
    BY DEF MarkEnqueued
  <1>2. old \in HandoffRow
    BY PairFacts
  <1>3. h = IF old.enqueued THEN old ELSE g
    BY DEF Acknowledged
  <1>4. CASE old.state \in Settled
    <2>1. attempt[d][k].outcome # "absent"
      BY <1>4, PairFacts DEF PairOK, Settled
    <2>2. NoLease(delivery'[d], k, now')
      BY <1>4, <2>1, NoLeaseKept DEF LeaseInv
    <2>3. QED
      BY <1>1, <2>2, SettlesWithoutLease
  <1>5. CASE old.state \notin Settled
    <2>1. w \notin Settled
      BY <1>5 DEF Settled
    <2> HIDE DEF w, old
    <2>2. g.state = w
      BY <1>2 DEF HandoffRow
    <2> HIDE DEF g
    <2>3. h.state \notin Settled
      BY <1>3, <1>5, <2>1, <2>2
    <2> HIDE DEF h
    <2>4. QED
      BY <1>1, <2>3, UnsettledWrite
  <1>6. QED
    BY <1>4, <1>5

LEMMA LeaseNext ==
  ASSUME CoreInv, HandoffInv, LeaseInv, [HandoffNext]_systemVars
  PROVE  LeaseInv'
  <1>1. [Next]_vars
    BY HandoffSteps
  <1>2. ASSUME handoff' = handoff
        PROVE  LeaseInv'
    BY <1>1, <1>2, NothingSettles
  <1>3. CASE Ledger \/ HandoffTick \/ UNCHANGED systemVars
    BY <1>2, <1>3 DEF Ledger, HandoffTick, systemVars, handoffVars
  <1>4. ASSUME NEW d \in Deliveries, NEW k \in AttemptNumber, SinkStep(d, k)
        PROVE  LeaseInv'
    <2>1. CASE \E reading \in ApplicationClock : Prepare(d, k, reading)
      <3> DEFINE h == [NoHandoff EXCEPT !.state = "prepared", !.updated_at = now]
      <3>1. handoff' = [handoff EXCEPT ![d][k] = h]
        BY <2>1 DEF Prepare
      <3>2. h.state \notin Settled
        BY DEF NoHandoff, Settled
      <3> HIDE DEF h
      <3>3. QED
        BY <1>1, <1>4, <3>1, <3>2, UnsettledWrite
    <2>2. CASE MarkEnqueued(d, k)
      BY <1>1, <1>4, <2>2, AcknowledgementLease
    <2>3. CASE EnqueueFailed(d, k)
      BY <1>1, <1>4, <2>3, FailBothLease DEF EnqueueFailed
    <2>4. CASE Kick(d, k) \/ SinkGone(d, k) \/ RelayFail(d, k)
      BY <1>2, <2>4 DEF Kick, SinkGone, RelayFail
    <2>5. QED
      BY <1>4, <2>1, <2>2, <2>3, <2>4 DEF SinkStep
  <1>5. ASSUME NEW d \in Deliveries, NEW k \in AttemptNumber, AdmitStep(d, k)
        PROVE  LeaseInv'
    <2>1. ASSUME NEW reading \in ApplicationClock, Admit(d, k, reading)
          PROVE  LeaseInv'
      <3> DEFINE deadline == now + Least(AttemptRemaining(d, k, now), ExecutionTimeout)
                 h == Admitted(handoff[d][k], deadline)
      <3>1. handoff' = [handoff EXCEPT ![d][k] = h]
        BY <2>1 DEF Admit
      <3>2. handoff[d][k] \in HandoffRow
        BY <1>5, PairFacts
      <3> HIDE DEF deadline
      <3>3. h.state \notin Settled
        BY <3>2 DEF Admitted, HandoffRow, Settled
      <3> HIDE DEF h
      <3>4. QED
        BY <1>1, <1>5, <3>1, <3>3, UnsettledWrite
    <2>2. CASE AdmitStale(d, k)
      BY <1>1, <1>5, <2>2, GiveUpLease DEF AdmitStale
    <2>3. CASE AdmitLate(d, k)
      BY <1>1, <1>5, <2>3, FailBothLease DEF AdmitLate
    <2>4. QED
      BY <1>5, <2>1, <2>2, <2>3 DEF AdmitStep
  <1>6. ASSUME NEW d \in Deliveries, NEW k \in AttemptNumber, NEW n \in Execution,
               WorkerStep(d, k, n)
        PROVE  LeaseInv'
    <2>1. CASE \/ FinalizeSuccess(d, k, n)
               \/ \E retry_after \in RetryAfters : FinalizeFailure(d, k, n, retry_after)
      <3>1. NoLease(delivery'[d], k, now')
        BY <1>6, <2>1, VerdictReleases DEF FinalizeSuccess, FinalizeFailure, NoLease
      <3>2. \E h : handoff' = [handoff EXCEPT ![d][k] = h]
        BY <2>1 DEF FinalizeSuccess, FinalizeFailure
      <3>3. QED
        BY <1>1, <1>6, <3>1, <3>2, SettlesWithoutLease
    <2>2. QED
      BY <1>2, <1>6, <2>1 DEF WorkerStep, HandlerReturns, HandlerTimeout, WorkerLost
  <1>7. ASSUME NEW d \in Deliveries, NEW k \in AttemptNumber, RecoverExpired(d, k)
        PROVE  LeaseInv'
    BY <1>1, <1>7, FailBothLease, GiveUpLease DEF RecoverExpired
  <1>8. QED
    BY <1>3, <1>4, <1>5, <1>6, <1>7 DEF HandoffNext

\* Whoever gave a handoff up, its delivery does not wait for a lease to run out:
\* once a handoff is settled its attempt holds no live lease, ever again.
THEOREM SettledWithoutLease == HandoffSpec => []SettledHoldsNoLease
  <1>1. HandoffInit => LeaseInv
    BY DEF HandoffInit, PerAttempt, NoHandoff, Settled, LeaseInv
  <1>2. CoreInv /\ HandoffInv /\ LeaseInv /\ [HandoffNext]_systemVars => LeaseInv'
    BY LeaseNext
  <1>3. LeaseInv => SettledHoldsNoLease
    BY DEF LeaseInv, NoLease, SettledHoldsNoLease
  <1>4. QED
    BY <1>1, <1>2, <1>3, HandoffInvariant, PTL DEF HandoffSpec

\* For any number of claimers, clock skew, connector errors and executions, a
\* handoff and its delivery tell one coherent story of every attempt.
THEOREM HandoffTellsOneStory == HandoffSpec => []OneStory
  <1>1. /\ RowsCoherent /\ HandoffAgrees
        /\ SettledHoldsNoLease /\ SuccessIsCompletion
        => OneStory
    BY DEF OneStory
  <1>2. QED
    BY <1>1, HandoffRowsCoherent, HandoffAgreement, SettledWithoutLease,
       SuccessNeedsCompletion, PTL

-----------------------------------------------------------------------------
(* What one step may do to one handoff row.                                  *)

\* The execution columns stay as they are; the row may become enqueued.
ExecutionKept(h, g) ==
  /\ g.execution_count = h.execution_count
  /\ g.execution_token = h.execution_token
  /\ g.execution_deadline = h.execution_deadline
  /\ g.state = h.state \/ (h.state = "prepared" /\ g.state = "enqueued")

\* An unsettled row is settled.
ExecutionEnds(h, g) ==
  /\ h.state \in {"prepared", "enqueued", "executing"}
  /\ g.state \in Settled
  /\ g.execution_count = h.execution_count

HandoffRowStep(d, k) ==
  \/ ExecutionKept(handoff[d][k], handoff'[d][k])
  \/ ExecutionEnds(handoff[d][k], handoff'[d][k])
  \/ /\ handoff[d][k].state = "absent" /\ handoff'[d][k].state = "prepared"
     /\ handoff'[d][k].execution_count = 0
  \/ \E reading \in ApplicationClock : Admit(d, k, reading)

\* A step that writes one handoff row leaves every other row alone.
LEMMA OtherRows ==
  ASSUME HandoffInv, NEW d \in Deliveries, NEW k \in AttemptNumber,
         NEW h, handoff' = [handoff EXCEPT ![d][k] = h],
         NEW e \in Deliveries, NEW j \in AttemptNumber
  PROVE  /\ e = d /\ j = k => handoff'[e][j] = h
         /\ ~(e = d /\ j = k) => handoff'[e][j] = handoff[e][j]
  <1>1. handoff \in [Deliveries -> [AttemptNumber -> HandoffRow]]
    BY DEF HandoffInv, HandoffTypes
  <1>2. QED
    BY <1>1

\* An acknowledgement keeps the execution columns.
LEMMA AcknowledgedFacts ==
  ASSUME NEW h \in HandoffRow
  PROVE  ExecutionKept(h, Acknowledged(h))
  <1> DEFINE w == IF h.state = "prepared" THEN "enqueued" ELSE h.state
             g == [h EXCEPT !.state = w, !.enqueued = TRUE, !.updated_at = now]
  <1>1. Acknowledged(h) = IF h.enqueued THEN h ELSE g
    BY DEF Acknowledged
  <1> HIDE DEF w
  <1>2. /\ g.state = w /\ g.execution_count = h.execution_count
        /\ g.execution_token = h.execution_token
        /\ g.execution_deadline = h.execution_deadline
    BY DEF HandoffRow
  <1> HIDE DEF g
  <1>3. CASE h.enqueued
    BY <1>1, <1>3 DEF ExecutionKept
  <1>4. CASE ~h.enqueued
    BY <1>1, <1>2, <1>4 DEF ExecutionKept, w
  <1>5. QED
    BY <1>3, <1>4

\* Failing or giving up an unsettled handoff ends it.
LEMMA FailedRowEnds ==
  ASSUME CoreInv, NEW h \in HandoffRow, NEW st,
         h.state \in {"prepared", "enqueued", "executing"}
  PROVE  ExecutionEnds(h, SetFailed(h, st, now))
  <1>1. now \in Nat
    BY DEF CoreInv, TypeOK
  <1>2. QED
    BY <1>1, SetFailedFacts DEF ExecutionEnds, Settled

\* Every step treats every handoff row as HandoffRowStep says.
LEMMA HandoffRowSteps ==
  ASSUME CoreInv, HandoffInv, [HandoffNext]_systemVars,
         NEW e \in Deliveries, NEW j \in AttemptNumber
  PROVE  HandoffRowStep(e, j)
  <1>0. ASSUME handoff'[e][j] = handoff[e][j]
        PROVE  HandoffRowStep(e, j)
    BY <1>0 DEF HandoffRowStep, ExecutionKept
  <1>1. ASSUME NEW d \in Deliveries, NEW k \in AttemptNumber, NEW st,
               handoff' = [handoff EXCEPT ![d][k] = SetFailed(handoff[d][k], st, now)],
               handoff[d][k].state \in {"prepared", "enqueued", "executing"}
        PROVE  HandoffRowStep(e, j)
    <2>1. ExecutionEnds(handoff[d][k], SetFailed(handoff[d][k], st, now))
      BY <1>1, PairFacts, FailedRowEnds
    <2>2. QED
      BY <1>0, <1>1, <2>1, OtherRows DEF HandoffRowStep
  <1>2. CASE Ledger \/ HandoffTick \/ UNCHANGED systemVars
    BY <1>0, <1>2 DEF Ledger, HandoffTick, systemVars, handoffVars
  <1>3. ASSUME NEW d \in Deliveries, NEW k \in AttemptNumber, SinkStep(d, k)
        PROVE  HandoffRowStep(e, j)
    <2>1. CASE \E reading \in ApplicationClock : Prepare(d, k, reading)
      <3> DEFINE h == [NoHandoff EXCEPT !.state = "prepared", !.updated_at = now]
      <3>1. handoff' = [handoff EXCEPT ![d][k] = h] /\ sink[d][k].stage = "idle"
        BY <2>1 DEF Prepare
      <3>2. handoff[d][k].state = "absent"
        BY <1>3, <3>1, PairFacts DEF PairOK
      <3>3. h.state = "prepared" /\ h.execution_count = 0
        BY DEF NoHandoff
      <3> HIDE DEF h
      <3>4. QED
        BY <1>0, <1>3, <3>1, <3>2, <3>3, OtherRows DEF HandoffRowStep
    <2>2. CASE MarkEnqueued(d, k)
      <3>1. handoff' = [handoff EXCEPT ![d][k] = Acknowledged(handoff[d][k])]
        BY <2>2 DEF MarkEnqueued
      <3>2. ExecutionKept(handoff[d][k], Acknowledged(handoff[d][k]))
        BY <1>3, PairFacts, AcknowledgedFacts
      <3>3. QED
        BY <1>0, <1>3, <3>1, <3>2, OtherRows DEF HandoffRowStep
    <2>3. CASE EnqueueFailed(d, k)
      BY <1>1, <1>3, <2>3 DEF EnqueueFailed, FailBoth
    <2>4. CASE Kick(d, k) \/ SinkGone(d, k) \/ RelayFail(d, k)
      BY <1>0, <2>4 DEF Kick, SinkGone, RelayFail
    <2>5. QED
      BY <1>3, <2>1, <2>2, <2>3, <2>4 DEF SinkStep
  <1>4. ASSUME NEW d \in Deliveries, NEW k \in AttemptNumber, AdmitStep(d, k)
        PROVE  HandoffRowStep(e, j)
    <2>1. ASSUME NEW reading \in ApplicationClock, Admit(d, k, reading)
          PROVE  HandoffRowStep(e, j)
      <3>1. CASE e = d /\ j = k
        BY <2>1, <3>1 DEF HandoffRowStep
      <3>2. CASE ~(e = d /\ j = k)
        <4>1. \E h : handoff' = [handoff EXCEPT ![d][k] = h]
          BY <2>1 DEF Admit
        <4>2. QED
          BY <1>0, <1>4, <3>2, <4>1, OtherRows
      <3>3. QED
        BY <3>1, <3>2
    <2>2. CASE AdmitStale(d, k) \/ AdmitLate(d, k)
      <3>1. handoff[d][k].state \in {"prepared", "enqueued", "executing"}
        BY <2>2 DEF AdmitStale, AdmitLate, Admissible
      <3>2. \E st : handoff' = [handoff EXCEPT ![d][k] = SetFailed(handoff[d][k], st, now)]
        BY <2>2 DEF AdmitStale, AdmitLate, FailBoth, GiveUp
      <3>3. QED
        BY <1>1, <1>4, <3>1, <3>2
    <2>3. QED
      BY <1>4, <2>1, <2>2 DEF AdmitStep
  <1>5. ASSUME NEW d \in Deliveries, NEW k \in AttemptNumber, RecoverExpired(d, k)
        PROVE  HandoffRowStep(e, j)
    <2>1. handoff[d][k].state \in {"prepared", "enqueued", "executing"}
      BY <1>5 DEF RecoverExpired, HandoffExpired
    <2>2. \E st : handoff' = [handoff EXCEPT ![d][k] = SetFailed(handoff[d][k], st, now)]
      BY <1>5 DEF RecoverExpired, FailBoth, GiveUp
    <2>3. QED
      BY <1>1, <1>5, <2>1, <2>2
  <1>6. ASSUME NEW d \in Deliveries, NEW k \in AttemptNumber, NEW n \in Execution,
               WorkerStep(d, k, n)
        PROVE  HandoffRowStep(e, j)
    <2>1. CASE FinalizeSuccess(d, k, n)
      <3> DEFINE old == handoff[d][k]
                 g == [old EXCEPT !.state = "succeeded", !.execution_token = 0,
                                  !.execution_deadline = 0, !.updated_at = now]
      <3>1. handoff' = [handoff EXCEPT ![d][k] = g] /\ old.state = "executing"
        BY <2>1 DEF FinalizeSuccess, LockedExecution
      <3>2. old \in HandoffRow
        BY <1>6, PairFacts
      <3> HIDE DEF old
      <3>3. g.state = "succeeded" /\ g.execution_count = old.execution_count
        BY <3>2 DEF HandoffRow
      <3> HIDE DEF g
      <3>4. ExecutionEnds(old, g)
        BY <3>1, <3>3 DEF ExecutionEnds, Settled
      <3>5. QED
        BY <1>0, <1>6, <3>1, <3>4, OtherRows DEF HandoffRowStep, old
    <2>2. ASSUME NEW retry_after \in RetryAfters, FinalizeFailure(d, k, n, retry_after)
          PROVE  HandoffRowStep(e, j)
      <3>1. handoff[d][k].state = "executing"
        BY <2>2 DEF FinalizeFailure, LockedExecution
      <3>2. \E st : handoff' = [handoff EXCEPT ![d][k] = SetFailed(handoff[d][k], st, now)]
        BY <2>2 DEF FinalizeFailure
      <3>3. QED
        BY <1>1, <1>6, <3>1, <3>2
    <2>3. QED
      BY <1>0, <1>6, <2>1, <2>2 DEF WorkerStep, HandlerReturns, HandlerTimeout, WorkerLost
  <1>7. QED
    BY <1>2, <1>3, <1>4, <1>5, <1>6 DEF HandoffNext

-----------------------------------------------------------------------------
(* A handoff executes once.                                                  *)

\* Nothing is admitted before a row is executing, and when the bridge's timeout
\* reaches to the attempt's deadline the one admission runs until that deadline.
OnceOK(h, row, attempts, k) ==
  /\ h.state \in {"absent", "prepared", "enqueued"} => h.execution_count = 0
  /\ row.policy.handler_timeout <= ExecutionTimeout =>
       /\ h.execution_count <= 1
       /\ h.state = "executing" => h.execution_deadline = CutOf(row, attempts, k)

OnceInv ==
  \A d \in Deliveries, k \in AttemptNumber :
    OnceOK(handoff[d][k], delivery[d], attempt[d], k)

\* What an admission writes.
LEMMA AdmitFacts ==
  ASSUME CoreInv, HandoffInv, NEW d \in Deliveries, NEW k \in AttemptNumber,
         NEW reading \in ApplicationClock, Admit(d, k, reading)
  PROVE  LET cut == CutOf(delivery[d], attempt[d], k)
             deadline == now + Least(cut - now, ExecutionTimeout)
             n == handoff[d][k].execution_count + 1
         IN  /\ now < cut /\ cut \in Nat /\ now \in Nat /\ deadline \in Nat
             /\ now < deadline /\ deadline <= cut
             /\ n \in Execution
             /\ handoff'[d][k].state = "executing"
             /\ handoff'[d][k].execution_count = n
             /\ handoff'[d][k].execution_token = n
             /\ handoff'[d][k].execution_deadline = deadline
             /\ attempt[d][k].outcome = "started"
             /\ UNCHANGED vars
  <1> DEFINE cut == CutOf(delivery[d], attempt[d], k)
             old == handoff[d][k]
             n == old.execution_count + 1
             remaining == Least(AttemptRemaining(d, k, now), ExecutionTimeout)
             deadline == now + remaining
             h == Admitted(old, deadline)
  <1>1. now \in Nat /\ cut \in Nat
    BY CutFacts DEF CoreInv, TypeOK
  <1>2. AttemptRemaining(d, k, now) = IF cut <= now THEN 0 ELSE cut - now
    BY DEF AttemptRemaining, remaining_attempt, CutOf
  <1>3. remaining > 0 /\ n \in Execution /\ OwnsParent(d, k) /\ UNCHANGED vars
        /\ handoff' = [handoff EXCEPT ![d][k] = h]
    BY DEF Admit
  <1>4. ~(cut <= now)
    <2>1. ASSUME cut <= now PROVE FALSE
      <3>1. remaining = 0
        BY <1>2, <2>1, HandoffAssumption DEF Least
      <3>2. QED
        BY <1>3, <3>1
    <2>2. QED
      BY <2>1
  <1>5. remaining = Least(cut - now, ExecutionTimeout)
    BY <1>2, <1>4
  <1>6. /\ now < cut /\ deadline = now + Least(cut - now, ExecutionTimeout)
        /\ deadline \in Nat /\ now < deadline /\ deadline <= cut
    <2> HIDE DEF cut
    <2>1. now < cut
      BY <1>1, <1>4
    <2>2. QED
      BY <1>1, <1>5, <2>1, HandoffAssumption DEF Least
  <1> HIDE DEF h, deadline
  <1>7. old \in HandoffRow /\ handoff'[d][k] = h
    <2>1. old \in HandoffRow
      BY PairFacts
    <2>2. handoff' = [handoff EXCEPT ![d][k] = h]
      BY <1>3
    <2>3. handoff \in [Deliveries -> [AttemptNumber -> HandoffRow]]
      BY DEF HandoffInv, HandoffTypes
    <2>4. QED
      BY <2>1, <2>2, <2>3
  <1> HIDE DEF old
  <1>8. /\ h.state = "executing" /\ h.execution_token = n /\ h.execution_count = n
        /\ h.execution_deadline = deadline
    BY <1>7 DEF Admitted, HandoffRow, h
  <1>9. attempt[d][k].outcome = "started"
    BY <1>3 DEF OwnsParent
  <1>10. QED
    BY <1>1, <1>3, <1>6, <1>7, <1>8, <1>9 DEF old

LEMMA OnceStep ==
  ASSUME CoreInv, HandoffInv, OnceInv, [HandoffNext]_systemVars
  PROVE  OnceInv'
  <1>0. [Next]_vars
    BY HandoffSteps
  <1> SUFFICES ASSUME NEW d \in Deliveries, NEW k \in AttemptNumber
               PROVE  OnceOK(handoff'[d][k], delivery'[d], attempt'[d], k)
    BY DEF OnceInv, OnceOK, CutOf
  <1> DEFINE h == handoff[d][k]
             g == handoff'[d][k]
             cut == CutOf(delivery[d], attempt[d], k)
  <1>1. /\ h \in HandoffRow /\ OnceOK(h, delivery[d], attempt[d], k)
        /\ h.state # "absent" => attempt[d][k].outcome # "absent"
    BY PairFacts DEF OnceInv, PairOK
  <1>2. ASSUME h.state # "absent"
        PROVE  /\ delivery'[d].policy = delivery[d].policy
               /\ CutOf(delivery'[d], attempt'[d], k) = cut
    BY <1>0, <1>1, <1>2, CutKept DEF RowKept
  <1>3. CASE h.state = "absent" /\ ~\E reading \in ApplicationClock : Admit(d, k, reading)
    <2>1. g.state \in {"absent", "prepared"} /\ g.execution_count = 0
      BY <1>1, <1>3, HandoffRowSteps DEF HandoffRowStep, ExecutionKept, ExecutionEnds, OnceOK
    <2>2. QED
      BY <2>1 DEF OnceOK
  <1>4. CASE h.state # "absent" /\ ExecutionKept(h, g)
    BY <1>1, <1>2, <1>4 DEF OnceOK, ExecutionKept
  <1>5. CASE h.state # "absent" /\ ExecutionEnds(h, g)
    BY <1>1, <1>2, <1>5 DEF OnceOK, ExecutionEnds, Settled
  <1>6. ASSUME NEW reading \in ApplicationClock, Admit(d, k, reading)
        PROVE  OnceOK(g, delivery'[d], attempt'[d], k)
    <2> DEFINE deadline == now + Least(cut - now, ExecutionTimeout)
               n == h.execution_count + 1
    <2>1. /\ now < cut /\ cut \in Nat /\ now \in Nat
          /\ g.state = "executing" /\ g.execution_count = n
          /\ g.execution_deadline = deadline
          /\ attempt[d][k].outcome = "started"
          /\ delivery'[d] = delivery[d] /\ attempt'[d] = attempt[d]
      BY <1>6, AdmitFacts DEF vars
    <2>2. CASE delivery[d].policy.handler_timeout <= ExecutionTimeout
      <3>1. cut <= attempt[d][k].started_at + delivery[d].policy.handler_timeout
        BY CutFacts
      <3>2. attempt[d][k].started_at <= now
        BY <2>1 DEF CoreInv, RowOK
      <3>3. /\ attempt[d][k].started_at \in Nat
            /\ delivery[d].policy.handler_timeout \in Nat
        BY CutFacts
      <3>4. cut - now <= ExecutionTimeout
        <4> HIDE DEF cut
        <4>1. QED
          BY <2>1, <2>2, <3>1, <3>2, <3>3, HandoffAssumption
      <3>5. deadline = cut
        <4> HIDE DEF cut
        <4>1. QED
          BY <2>1, <3>4, HandoffAssumption DEF Least
      <3>6. h.state \in {"prepared", "enqueued"}
        <4>1. h.state = "executing" => h.execution_deadline <= now
          BY <1>6 DEF Admit, Admissible
        <4>2. h.state = "executing" => h.execution_deadline = cut
          BY <1>1, <2>2 DEF OnceOK
        <4>3. h.state \in {"prepared", "enqueued", "executing"}
          BY <1>6 DEF Admit, Admissible
        <4> HIDE DEF h, cut
        <4>4. QED
          BY <2>1, <4>1, <4>2, <4>3
      <3>7. n = 1
        BY <1>1, <3>6 DEF OnceOK
      <3>8. QED
        BY <2>1, <3>5, <3>7 DEF OnceOK
    <2>3. CASE ~(delivery[d].policy.handler_timeout <= ExecutionTimeout)
      BY <2>1, <2>3 DEF OnceOK
    <2>4. QED
      BY <2>2, <2>3
  <1>7. QED
    BY <1>3, <1>4, <1>5, <1>6, HandoffRowSteps DEF HandoffRowStep

\* For any number of claimers, clock skew, lag, duplicated messages and
\* connector errors, a handoff whose bridge allows the whole attempt is executed
\* at most once.
THEOREM HandoffExecutesOnce == HandoffSpec => []ExecutesOnce
  <1>1. HandoffInit => OnceInv
    <2> SUFFICES ASSUME HandoffInit, NEW d \in Deliveries, NEW k \in AttemptNumber
                 PROVE  OnceOK(handoff[d][k], delivery[d], attempt[d], k)
      BY DEF OnceInv
    <2>1. handoff[d][k] = NoHandoff
      BY DEF HandoffInit, PerAttempt
    <2>2. QED
      BY <2>1 DEF NoHandoff, OnceOK
  <1>2. CoreInv /\ HandoffInv /\ OnceInv /\ [HandoffNext]_systemVars => OnceInv'
    BY OnceStep
  <1>3. OnceInv => ExecutesOnce
    BY DEF OnceInv, OnceOK, ExecutesOnce
  <1>4. QED
    BY <1>1, <1>2, <1>3, HandoffInvariant, PTL DEF HandoffSpec

-----------------------------------------------------------------------------
(* A running handler holds the lease.                                        *)

\* What relates attempt k's handoff h, sink s, executions r and messages m to
\* its delivery row at time t: only kicked messages are executed, neither the
\* execution nor the sink's timer outlasts the attempt's deadline, and a handler
\* inside its deadline holds the handoff and the lease.
OwnerOK(h, s, r, m, row, attempts, t, k) ==
  /\ k \in m => s.stage \in {"kicked", "done"}
  /\ h.state = "executing" =>
       k \in m /\ h.execution_deadline <= CutOf(row, attempts, k)
  /\ s.stage \in {"prepared", "kicked"} => CutOf(row, attempts, k) <= s.cutoff
  /\ \A n \in Execution :
       r[n].stage = "running" /\ t < r[n].cutoff =>
         /\ h.state = "executing" /\ h.execution_token = n
         /\ h.execution_deadline = r[n].cutoff
         /\ row.state = "leased" /\ row.lease_token = k

Owner(d, k) ==
  OwnerOK(handoff[d][k], sink[d][k], run[d][k], message[d], delivery[d],
          attempt[d], now, k)

OwnerNext(d, k) ==
  OwnerOK(handoff'[d][k], sink'[d][k], run'[d][k], message'[d], delivery'[d],
          attempt'[d], now', k)

OwnerInv == \A d \in Deliveries, k \in AttemptNumber : Owner(d, k)

\* The sink stays, ends, or gets its message accepted.
SinkMoves(s, z) ==
  \/ z = s
  \/ z.stage = "done"
  \/ s.stage = "prepared" /\ z.stage = "kicked" /\ z.cutoff = s.cutoff

\* A step that admits nothing keeps Owner if it takes neither the handoff nor
\* the lease from a handler inside its deadline.
LEMMA OwnerQuiet ==
  ASSUME CoreInv, HandoffInv, [Next]_vars,
         NEW d \in Deliveries, NEW k \in AttemptNumber, Owner(d, k),
         handoff'[d][k].state = "executing" =>
           ExecutionKept(handoff[d][k], handoff'[d][k]),
         SinkMoves(sink[d][k], sink'[d][k]),
         k \in message[d] => k \in message'[d],
         k \in message'[d] => k \in message[d] \/ sink'[d][k].stage = "kicked",
         \A n \in Execution :
           run'[d][k][n].stage = "running" =>
             /\ run[d][k][n].stage = "running"
             /\ run'[d][k][n].cutoff = run[d][k][n].cutoff
             /\ now < run[d][k][n].cutoff =>
                  /\ ExecutionKept(handoff[d][k], handoff'[d][k])
                  /\ delivery'[d].state = "leased"
                  /\ delivery'[d].lease_token = k
  PROVE  OwnerNext(d, k)
  <1> DEFINE h == handoff[d][k]
             g == handoff'[d][k]
             s == sink[d][k]
             z == sink'[d][k]
             cut == CutOf(delivery[d], attempt[d], k)
  <1>1. now \in Nat /\ now' \in Nat /\ now <= now'
    BY ClockStep
  <1>2. h.state # "absent" => CutOf(delivery'[d], attempt'[d], k) = cut
    <2>1. h.state # "absent" => attempt[d][k].outcome # "absent"
      BY PairFacts DEF PairOK
    <2>2. QED
      BY <2>1, CutKept
  <1>3. s.stage \in {"prepared", "kicked"} => h.state # "absent"
    BY PairFacts DEF PairOK
  <1>4. k \in message'[d] => z.stage \in {"kicked", "done"}
    BY DEF Owner, OwnerOK, SinkMoves
  <1>5. g.state = "executing" =>
          k \in message'[d] /\ g.execution_deadline <= CutOf(delivery'[d], attempt'[d], k)
    BY <1>2 DEF Owner, OwnerOK, ExecutionKept
  <1>6. z.stage \in {"prepared", "kicked"} => CutOf(delivery'[d], attempt'[d], k) <= z.cutoff
    BY <1>2, <1>3 DEF Owner, OwnerOK, SinkMoves
  <1>7. ASSUME NEW n \in Execution, run'[d][k][n].stage = "running",
               now' < run'[d][k][n].cutoff
        PROVE  /\ g.state = "executing" /\ g.execution_token = n
               /\ g.execution_deadline = run'[d][k][n].cutoff
               /\ delivery'[d].state = "leased" /\ delivery'[d].lease_token = k
    <2>1. run[d][k][n].cutoff \in Nat
      BY PairFacts DEF Run
    <2>2. now < run[d][k][n].cutoff /\ run[d][k][n].stage = "running"
      BY <1>1, <1>7, <2>1
    <2>3. QED
      BY <1>7, <2>2 DEF Owner, OwnerOK, ExecutionKept
  <1>8. QED
    BY <1>4, <1>5, <1>6, <1>7 DEF OwnerNext, OwnerOK

\* A finalization leaves every delivery alone that is leased to another attempt.
LEMMA FinalizeKeepsOthers ==
  ASSUME CoreInv, NEW d \in Deliveries, NEW k \in AttemptNumber,
         NEW retryable, NEW hint,
         UNCHANGED vars \/ Succeed(d, k) \/ Fail(d, k, retryable, hint),
         NEW e \in Deliveries, NEW j \in AttemptNumber, ~(e = d /\ j = k),
         delivery[e].state = "leased", delivery[e].lease_token = j
  PROVE  delivery'[e] = delivery[e]
  <1>1. delivery \in [Deliveries -> DeliveryRow]
    BY DEF CoreInv, TypeOK
  <1>2. QED
    BY <1>1 DEF Succeed, Fail, ActiveLease, vars

\* With serialized claims producers, claims and reconciliation leave a delivery
\* under a live lease alone.
LEMMA LedgerKeepsLease ==
  ASSUME SerialInv, Ledger, NEW e \in Deliveries,
         delivery[e].state = "leased", delivery[e].lease_expires_at > now
  PROVE  delivery'[e] = delivery[e]
  BY LiveLeaseKept DEF SerialInv, Ledger

\* A handler inside its deadline is inside the lease.
LEMMA LiveRun ==
  ASSUME CoreInv, HandoffInv, NEW d \in Deliveries, NEW k \in AttemptNumber,
         Owner(d, k), NEW n \in Execution,
         run[d][k][n].stage = "running", now < run[d][k][n].cutoff
  PROVE  /\ handoff[d][k].state = "executing" /\ handoff[d][k].execution_token = n
         /\ now < handoff[d][k].execution_deadline
         /\ handoff[d][k].execution_deadline \in Nat /\ now \in Nat
         /\ delivery[d].state = "leased" /\ delivery[d].lease_token = k
         /\ delivery[d].lease_expires_at > now
         /\ k \in message[d] /\ sink[d][k].stage \in {"kicked", "done"}
         /\ sink[d][k].stage = "kicked" => now < sink[d][k].cutoff
  <1> DEFINE cut == CutOf(delivery[d], attempt[d], k)
  <1>1. /\ now \in Nat /\ cut \in Nat /\ run[d][k][n].cutoff \in Nat
        /\ sink[d][k].cutoff \in Nat /\ handoff[d][k].execution_deadline \in Nat
    BY CutFacts, PairFacts DEF CoreInv, TypeOK, Run, Sink, HandoffRow
  <1>2. /\ handoff[d][k].state = "executing" /\ handoff[d][k].execution_token = n
        /\ handoff[d][k].execution_deadline = run[d][k][n].cutoff
        /\ delivery[d].state = "leased" /\ delivery[d].lease_token = k
        /\ run[d][k][n].cutoff <= cut
        /\ k \in message[d] /\ sink[d][k].stage \in {"kicked", "done"}
        /\ sink[d][k].stage = "kicked" => cut <= sink[d][k].cutoff
    BY DEF Owner, OwnerOK
  <1>3. delivery[d].lease_expires_at =
          attempt[d][k].started_at + delivery[d].policy.lease_duration
    BY <1>2 DEF CoreInv, RowOK
  <1>4. cut <= delivery[d].lease_expires_at /\ delivery[d].lease_expires_at \in Nat
    BY <1>3, CutFacts, RowTypes DEF CoreInv, TypeOK
  <1> HIDE DEF cut
  <1>5. QED
    BY <1>1, <1>2, <1>4

\* The steps of one attempt leave handoff, sink, executions and messages of
\* every other attempt alone.
OthersKept(d, k) ==
  \A e \in Deliveries, j \in AttemptNumber :
    ~(e = d /\ j = k) =>
      /\ handoff'[e][j] = handoff[e][j]
      /\ sink'[e][j] = sink[e][j]
      /\ run'[e][j] = run[e][j]
      /\ j \in message'[e] <=> j \in message[e]

LEMMA AttemptSteps ==
  ASSUME HandoffInv, NEW d \in Deliveries, NEW k \in AttemptNumber,
         \/ SinkStep(d, k) \/ AdmitStep(d, k) \/ RecoverExpired(d, k)
         \/ \E n \in Execution : WorkerStep(d, k, n)
  PROVE  OthersKept(d, k)
  <1>0. HandoffTypes
    BY DEF HandoffInv
  <1>9. ASSUME UNCHANGED <<message, run>>,
               sink' = sink \/ \E s : sink' = [sink EXCEPT ![d][k] = s],
               handoff' = handoff \/ \E h : handoff' = [handoff EXCEPT ![d][k] = h]
        PROVE  OthersKept(d, k)
    BY <1>0, <1>9 DEF HandoffTypes, OthersKept
  <1>1. CASE SinkStep(d, k)
    <2>1. CASE \E reading \in ApplicationClock : Prepare(d, k, reading)
      BY <1>0, <2>1 DEF HandoffTypes, Prepare, OthersKept
    <2>2. CASE Kick(d, k)
      BY <1>0, <2>2 DEF HandoffTypes, Kick, OthersKept
    <2>3. CASE MarkEnqueued(d, k)
      BY <1>0, <2>3 DEF HandoffTypes, MarkEnqueued, OthersKept
    <2>4. CASE EnqueueFailed(d, k)
      <3>1. \E h : handoff' = [handoff EXCEPT ![d][k] = h]
        BY <2>4 DEF EnqueueFailed, FailBoth
      <3>2. UNCHANGED <<message, run>> /\ \E s : sink' = [sink EXCEPT ![d][k] = s]
        BY <2>4 DEF EnqueueFailed
      <3>3. QED
        BY <1>9, <3>1, <3>2
    <2>5. CASE SinkGone(d, k) \/ RelayFail(d, k)
      <3>1. /\ UNCHANGED <<message, run>> /\ handoff' = handoff
            /\ \E s : sink' = [sink EXCEPT ![d][k] = s]
        BY <2>5 DEF SinkGone, RelayFail
      <3>2. QED
        BY <1>9, <3>1
    <2>6. QED
      BY <1>1, <2>1, <2>2, <2>3, <2>4, <2>5 DEF SinkStep
  <1>2. CASE AdmitStep(d, k)
    <2>1. CASE \E reading \in ApplicationClock : Admit(d, k, reading)
      BY <1>0, <2>1 DEF HandoffTypes, Admit, OthersKept
    <2>2. CASE AdmitStale(d, k) \/ AdmitLate(d, k)
      BY <1>9, <2>2 DEF AdmitStale, AdmitLate, FailBoth, GiveUp
    <2>3. QED
      BY <1>2, <2>1, <2>2 DEF AdmitStep
  <1>3. CASE RecoverExpired(d, k)
    BY <1>9, <1>3 DEF RecoverExpired, FailBoth, GiveUp
  <1>4. ASSUME NEW n \in Execution, WorkerStep(d, k, n)
        PROVE  OthersKept(d, k)
    <2>1. CASE \E verdict \in {"completed", "retryable", "terminal"} :
                 HandlerReturns(d, k, n, verdict)
      BY <1>0, <2>1 DEF HandoffTypes, HandlerReturns, OthersKept
    <2>2. CASE HandlerTimeout(d, k, n) \/ WorkerLost(d, k, n)
      BY <1>0, <2>2 DEF HandoffTypes, HandlerTimeout, WorkerLost, OthersKept
    <2>3. CASE FinalizeSuccess(d, k, n)
      BY <1>0, <2>3 DEF HandoffTypes, FinalizeSuccess, OthersKept
    <2>4. CASE \E retry_after \in RetryAfters : FinalizeFailure(d, k, n, retry_after)
      BY <1>0, <2>4 DEF HandoffTypes, FinalizeFailure, OthersKept
    <2>5. QED
      BY <1>4, <2>1, <2>2, <2>3, <2>4 DEF WorkerStep
  <1>5. QED
    BY <1>1, <1>2, <1>3, <1>4

\* An attempt that a step of another attempt passes by.
LEMMA OwnerOfOthers ==
  ASSUME CoreInv, HandoffInv, OwnerInv, [Next]_vars,
         NEW d \in Deliveries, NEW k \in AttemptNumber, OthersKept(d, k),
         NEW retryable, NEW hint,
         UNCHANGED vars \/ Succeed(d, k) \/ Fail(d, k, retryable, hint),
         NEW e \in Deliveries, NEW j \in AttemptNumber, ~(e = d /\ j = k)
  PROVE  OwnerNext(e, j)
  <1>1. Owner(e, j)
    BY DEF OwnerInv
  <1>2. /\ handoff'[e][j] = handoff[e][j] /\ sink'[e][j] = sink[e][j]
        /\ run'[e][j] = run[e][j] /\ (j \in message'[e] <=> j \in message[e])
    BY DEF OthersKept
  <1>3. ExecutionKept(handoff[e][j], handoff'[e][j])
    BY <1>2 DEF ExecutionKept
  <1>4. SinkMoves(sink[e][j], sink'[e][j])
    BY <1>2 DEF SinkMoves
  <1>5. ASSUME NEW n \in Execution, run[e][j][n].stage = "running",
               now < run[e][j][n].cutoff
        PROVE  delivery'[e].state = "leased" /\ delivery'[e].lease_token = j
    <2>1. delivery[e].state = "leased" /\ delivery[e].lease_token = j
      BY <1>1, <1>5, LiveRun
    <2>2. QED
      BY <2>1, FinalizeKeepsOthers
  <1>6. QED
    BY <1>1, <1>2, <1>3, <1>4, <1>5, OwnerQuiet

\* No execution of attempt k is inside its deadline.
NoLiveRun(d, k) ==
  \A n \in Execution : run[d][k][n].stage = "running" => ~(now < run[d][k][n].cutoff)

\* A step of an attempt without a handler inside its deadline, other than an
\* admission.
LEMMA OwnerIdle ==
  ASSUME CoreInv, HandoffInv, [Next]_vars,
         NEW d \in Deliveries, NEW k \in AttemptNumber, Owner(d, k), NoLiveRun(d, k),
         \/ handoff'[d][k].state # "executing"
         \/ ExecutionKept(handoff[d][k], handoff'[d][k]),
         SinkMoves(sink[d][k], sink'[d][k]),
         UNCHANGED <<message, run>>
  PROVE  OwnerNext(d, k)
  BY OwnerQuiet DEF NoLiveRun

\* A handoff that is not executing, or whose deadline has passed, has no handler
\* inside its deadline.
LEMMA IdleHandoff ==
  ASSUME CoreInv, HandoffInv, NEW d \in Deliveries, NEW k \in AttemptNumber,
         Owner(d, k),
         handoff[d][k].state # "executing" \/ handoff[d][k].execution_deadline <= now
  PROVE  NoLiveRun(d, k)
  <1>1. ASSUME NEW n \in Execution, run[d][k][n].stage = "running",
               now < run[d][k][n].cutoff
        PROVE  FALSE
    <2>1. /\ handoff[d][k].state = "executing" /\ now < handoff[d][k].execution_deadline
          /\ handoff[d][k].execution_deadline \in Nat /\ now \in Nat
      BY <1>1, LiveRun
    <2>2. QED
      BY <2>1
  <1>2. QED
    BY <1>1 DEF NoLiveRun

\* A handoff that _set_failed wrote is not executing.
LEMMA FailedIsIdle ==
  ASSUME CoreInv, HandoffInv, NEW d \in Deliveries, NEW k \in AttemptNumber,
         NEW st, handoff' = [handoff EXCEPT ![d][k] = SetFailed(handoff[d][k], st, now)]
  PROVE  handoff'[d][k].state # "executing"
  <1> DEFINE h == SetFailed(handoff[d][k], st, now)
  <1>1. now \in Nat /\ handoff[d][k] \in HandoffRow
    BY PairFacts DEF CoreInv, TypeOK
  <1>2. h.state # "executing"
    BY <1>1, SetFailedFacts
  <1>3. handoff \in [Deliveries -> [AttemptNumber -> HandoffRow]]
    BY DEF HandoffInv, HandoffTypes
  <1> HIDE DEF h
  <1>4. handoff' = [handoff EXCEPT ![d][k] = h]
    BY DEF h
  <1>5. QED
    BY <1>2, <1>3, <1>4

\* With equal clocks an application reads the database's time.
LEMMA EqualClocks ==
  ASSUME CoreInv, Skew = 0, NEW reading \in ApplicationClock
  PROVE  reading = now
  BY DEF CoreInv, TypeOK, ApplicationClock

\* The sink's own steps and the relay's failure take nothing from a handler
\* inside its deadline.
LEMMA OwnerSink ==
  ASSUME CoreInv, HandoffInv, [Next]_vars, Skew = 0, ~ConnectorErrors,
         NEW d \in Deliveries, NEW k \in AttemptNumber, Owner(d, k), SinkStep(d, k)
  PROVE  OwnerNext(d, k)
  <1>0. HandoffTypes
    BY DEF HandoffInv
  <1>1. ASSUME NEW reading \in ApplicationClock, Prepare(d, k, reading)
        PROVE  OwnerNext(d, k)
    <2> DEFINE cut == CutOf(delivery[d], attempt[d], k)
    <2>1. reading = now /\ now \in Nat /\ cut \in Nat
      BY EqualClocks, CutFacts DEF CoreInv, TypeOK
    <2>2. AttemptRemaining(d, k, now) = IF cut <= now THEN 0 ELSE cut - now
      BY DEF AttemptRemaining, remaining_attempt, CutOf
    <2>3. /\ sink[d][k].stage = "idle" /\ AttemptRemaining(d, k, now) > 0
          /\ sink'[d][k] = [stage |-> "prepared",
                            cutoff |-> now + AttemptRemaining(d, k, now)]
          /\ UNCHANGED <<vars, message, run>>
      BY <1>0, <1>1, <2>1 DEF Prepare, HandoffTypes
    <2>4. handoff'[d][k].state = "prepared"
      <3> DEFINE h == [NoHandoff EXCEPT !.state = "prepared", !.updated_at = now]
      <3>1. handoff' = [handoff EXCEPT ![d][k] = h]
        BY <1>1 DEF Prepare
      <3>2. h.state = "prepared"
        BY DEF NoHandoff
      <3> HIDE DEF h
      <3>3. QED
        BY <1>0, <3>1, <3>2 DEF HandoffTypes
    <2>5. sink'[d][k].cutoff = cut /\ sink'[d][k].stage = "prepared"
      <3> HIDE DEF cut
      <3>1. ~(cut <= now)
        BY <2>2, <2>3
      <3>2. AttemptRemaining(d, k, now) = cut - now
        BY <2>2, <3>1
      <3>3. now + (cut - now) = cut
        BY <2>1
      <3>4. QED
        BY <2>3, <3>2, <3>3
    <2>6. NoLiveRun(d, k)
      <3>1. handoff[d][k].state = "absent"
        BY <2>3, PairFacts DEF PairOK
      <3>2. QED
        BY <3>1, IdleHandoff
    <2>7. k \notin message[d]
      BY <2>3 DEF Owner, OwnerOK
    <2>8. /\ delivery' = delivery /\ attempt' = attempt /\ now' = now
          /\ message' = message /\ run' = run
      BY <2>3 DEF vars
    <2>9. QED
      BY <2>1, <2>4, <2>5, <2>6, <2>7, <2>8 DEF OwnerNext, OwnerOK, NoLiveRun
  <1>2. CASE Kick(d, k) \/ MarkEnqueued(d, k) \/ SinkGone(d, k)
    <2>1. UNCHANGED vars /\ run' = run
      BY <1>2 DEF Kick, MarkEnqueued, SinkGone
    <2>2. ExecutionKept(handoff[d][k], handoff'[d][k])
      <3>1. CASE MarkEnqueued(d, k)
        <4> DEFINE h == Acknowledged(handoff[d][k])
        <4>1. ExecutionKept(handoff[d][k], h)
          BY PairFacts, AcknowledgedFacts
        <4>2. handoff' = [handoff EXCEPT ![d][k] = h]
          BY <3>1 DEF MarkEnqueued
        <4> HIDE DEF h
        <4>3. handoff'[d][k] = h
          BY <1>0, <4>2 DEF HandoffTypes
        <4>4. QED
          BY <4>1, <4>3
      <3>2. CASE handoff' = handoff
        BY <3>2 DEF ExecutionKept
      <3>3. QED
        BY <1>2, <3>1, <3>2 DEF Kick, SinkGone
    <2>3. SinkMoves(sink[d][k], sink'[d][k])
      BY <1>0, <1>2 DEF Kick, MarkEnqueued, SinkGone, HandoffTypes, Sink, SinkMoves
    <2>4. /\ k \in message[d] => k \in message'[d]
          /\ k \in message'[d] => k \in message[d] \/ sink'[d][k].stage = "kicked"
      BY <1>0, <1>2 DEF Kick, MarkEnqueued, SinkGone, HandoffTypes, Sink
    <2>5. ASSUME NEW n \in Execution, run[d][k][n].stage = "running",
                 now < run[d][k][n].cutoff
          PROVE  delivery'[d].state = "leased" /\ delivery'[d].lease_token = k
      BY <2>1, <2>5, LiveRun DEF vars
    <2>6. QED
      BY <2>1, <2>2, <2>3, <2>4, <2>5, OwnerQuiet
  <1>3. CASE EnqueueFailed(d, k)
    <2>1. /\ handoff[d][k].state = "prepared" /\ UNCHANGED <<message, run>>
          /\ sink'[d][k].stage = "done"
      BY <1>0, <1>3 DEF EnqueueFailed, HandoffTypes
    <2>2. \E st : handoff' = [handoff EXCEPT ![d][k] = SetFailed(handoff[d][k], st, now)]
      BY <1>3 DEF EnqueueFailed, FailBoth
    <2>3. handoff'[d][k].state # "executing"
      BY <2>2, FailedIsIdle
    <2>4. NoLiveRun(d, k)
      BY <2>1, IdleHandoff
    <2>5. SinkMoves(sink[d][k], sink'[d][k])
      BY <2>1 DEF SinkMoves
    <2>6. QED
      BY <2>1, <2>3, <2>4, <2>5, OwnerIdle
  <1>4. CASE RelayFail(d, k)
    <2>1. /\ handoff' = handoff /\ UNCHANGED <<message, run>>
          /\ sink'[d][k].stage = "done"
      BY <1>0, <1>4 DEF RelayFail, HandoffTypes
    <2>2. NoLiveRun(d, k)
      <3>1. ASSUME NEW n \in Execution, run[d][k][n].stage = "running",
                   now < run[d][k][n].cutoff
            PROVE  FALSE
        <4>1. /\ sink[d][k].stage \in {"kicked", "done"}
              /\ sink[d][k].stage = "kicked" => now < sink[d][k].cutoff
          BY <3>1, LiveRun
        <4>2. sink[d][k].cutoff \in Nat /\ now \in Nat
          BY PairFacts DEF Sink, CoreInv, TypeOK
        <4>3. sink[d][k].stage = "kicked" /\ sink[d][k].cutoff <= now
          BY <1>4, <4>1 DEF RelayFail
        <4>4. QED
          BY <4>1, <4>2, <4>3
      <3>2. QED
        BY <3>1 DEF NoLiveRun
    <2>3. ExecutionKept(handoff[d][k], handoff'[d][k])
      BY <2>1 DEF ExecutionKept
    <2>4. SinkMoves(sink[d][k], sink'[d][k])
      BY <2>1 DEF SinkMoves
    <2>5. QED
      BY <2>1, <2>2, <2>3, <2>4, OwnerIdle
  <1>5. QED
    BY <1>1, <1>2, <1>3, <1>4 DEF SinkStep

\* A message is admitted only when no execution is inside its deadline, and the
\* new one ends with the attempt at the latest.
LEMMA OwnerAdmit ==
  ASSUME CoreInv, HandoffInv, [Next]_vars, Skew = 0,
         NEW d \in Deliveries, NEW k \in AttemptNumber, Owner(d, k),
         AdmitStep(d, k) \/ RecoverExpired(d, k)
  PROVE  OwnerNext(d, k)
  <1>0. HandoffTypes
    BY DEF HandoffInv
  <1>1. NoLiveRun(d, k)
    <2>1. handoff[d][k].state # "executing" \/ handoff[d][k].execution_deadline <= now
      BY DEF AdmitStep, Admit, AdmitStale, AdmitLate, Admissible, RecoverExpired,
             HandoffExpired
    <2>2. QED
      BY <2>1, IdleHandoff
  <1>2. ASSUME NEW reading \in ApplicationClock, Admit(d, k, reading)
        PROVE  OwnerNext(d, k)
    <2> DEFINE cut == CutOf(delivery[d], attempt[d], k)
               deadline == now + Least(cut - now, ExecutionTimeout)
               n == handoff[d][k].execution_count + 1
               c == IF deadline <= reading THEN now ELSE now + (deadline - reading)
               x == [stage |-> "running", cutoff |-> c]
    <2>1. /\ cut \in Nat /\ now \in Nat /\ deadline \in Nat
          /\ now < cut /\ now < deadline /\ deadline <= cut /\ n \in Execution
          /\ handoff'[d][k].state = "executing" /\ handoff'[d][k].execution_token = n
          /\ handoff'[d][k].execution_deadline = deadline
          /\ delivery' = delivery /\ attempt' = attempt /\ now' = now
      BY <1>2, AdmitFacts DEF vars
    <2>2. reading = now
      BY EqualClocks
    <2>3. c = deadline
      <3> HIDE DEF deadline
      <3>1. QED
        BY <2>1, <2>2
    <2>4. run' = [run EXCEPT ![d][k][n] = x]
      <3>1. AttemptRemaining(d, k, now) = IF cut <= now THEN 0 ELSE cut - now
        BY DEF AttemptRemaining, remaining_attempt, CutOf
      <3>2. AttemptRemaining(d, k, now) = cut - now
        <4> HIDE DEF cut
        <4>1. QED
          BY <2>1, <3>1
      <3>3. QED
        BY <1>2, <3>2 DEF Admit
    <2>5. /\ k \in message[d] /\ message' = message /\ sink' = sink
          /\ delivery[d].state = "leased" /\ delivery[d].lease_token = k
      BY <1>2 DEF Admit, Admissible, OwnsParent
    <2> HIDE DEF c, n, cut, deadline
    <2>6. /\ run'[d][k][n].cutoff = deadline
          /\ \A m \in Execution : m # n => run'[d][k][m] = run[d][k][m]
      BY <1>0, <2>1, <2>3, <2>4 DEF HandoffTypes
    <2>7. sink[d][k].stage \in {"prepared", "kicked"} => cut <= sink[d][k].cutoff
      BY DEF Owner, OwnerOK, cut
    <2>8. sink[d][k].stage \in {"kicked", "done"}
      BY <2>5 DEF Owner, OwnerOK
    <2>9. QED
      BY <1>1, <2>1, <2>5, <2>6, <2>7, <2>8 DEF OwnerNext, OwnerOK, NoLiveRun, cut
  <1>3. CASE AdmitStale(d, k) \/ AdmitLate(d, k) \/ RecoverExpired(d, k)
    <2>1. \E st : handoff' = [handoff EXCEPT ![d][k] = SetFailed(handoff[d][k], st, now)]
      BY <1>3 DEF AdmitStale, AdmitLate, RecoverExpired, FailBoth, GiveUp
    <2>2. handoff'[d][k].state # "executing"
      BY <2>1, FailedIsIdle
    <2>3. SinkMoves(sink[d][k], sink'[d][k]) /\ UNCHANGED <<message, run>>
      BY <1>3 DEF AdmitStale, AdmitLate, RecoverExpired, SinkMoves
    <2>4. QED
      BY <1>1, <2>2, <2>3, OwnerIdle
  <1>4. QED
    BY <1>2, <1>3 DEF AdmitStep

\* A worker gives up only its own execution.
LEMMA OwnerWorker ==
  ASSUME CoreInv, HandoffInv, [Next]_vars,
         NEW d \in Deliveries, NEW k \in AttemptNumber, Owner(d, k),
         NEW n \in Execution, WorkerStep(d, k, n)
  PROVE  OwnerNext(d, k)
  <1>0. HandoffTypes
    BY DEF HandoffInv
  <1>1. /\ run'[d][k][n].stage # "running" /\ message' = message /\ sink' = sink
        /\ \A m \in Execution : m # n => run'[d][k][m] = run[d][k][m]
    <2>1. /\ \E x : run' = [run EXCEPT ![d][k][n] = x] /\ x.stage # "running"
          /\ message' = message /\ sink' = sink
      <3>1. NoRun.stage # "running"
        BY DEF NoRun
      <3>2. ASSUME NEW verdict \in {"completed", "retryable", "terminal"},
                   HandlerReturns(d, k, n, verdict)
            PROVE  /\ \E x : run' = [run EXCEPT ![d][k][n] = x] /\ x.stage # "running"
                   /\ message' = message /\ sink' = sink
        <4> DEFINE y == [stage |-> verdict, cutoff |-> 0]
        <4>1. y.stage # "running"
          OBVIOUS
        <4>2. run' = [run EXCEPT ![d][k][n] = y] /\ message' = message /\ sink' = sink
          BY <3>2 DEF HandlerReturns
        <4> HIDE DEF y
        <4>3. QED
          BY <4>1, <4>2
      <3>3. CASE HandlerTimeout(d, k, n) \/ WorkerLost(d, k, n)
        BY <3>1, <3>3 DEF HandlerTimeout, WorkerLost
      <3>4. CASE \/ FinalizeSuccess(d, k, n)
                 \/ \E h \in RetryAfters : FinalizeFailure(d, k, n, h)
        BY <3>1, <3>4 DEF FinalizeSuccess, FinalizeFailure
      <3>5. QED
        BY <3>2, <3>3, <3>4 DEF WorkerStep
    <2>2. QED
      BY <1>0, <2>1 DEF HandoffTypes
  <1>2. SinkMoves(sink[d][k], sink'[d][k])
    BY <1>1 DEF SinkMoves
  <1>3. CASE UNCHANGED <<vars, handoff>>
    <2>1. ExecutionKept(handoff[d][k], handoff'[d][k])
      BY <1>3 DEF ExecutionKept
    <2>2. ASSUME NEW m \in Execution, run[d][k][m].stage = "running",
                 now < run[d][k][m].cutoff
          PROVE  delivery'[d].state = "leased" /\ delivery'[d].lease_token = k
      BY <1>3, <2>2, LiveRun DEF vars
    <2>3. QED
      BY <1>1, <1>2, <2>1, <2>2, OwnerQuiet
  <1>4. CASE LockedExecution(d, k, n) /\ handoff'[d][k].state # "executing"
    <2>1. ASSUME NEW m \in Execution, m # n, run[d][k][m].stage = "running",
                 now < run[d][k][m].cutoff
          PROVE  FALSE
      BY <1>4, <2>1, LiveRun DEF LockedExecution
    <2>2. QED
      BY <1>1, <1>2, <1>4, <2>1, OwnerQuiet
  <1>5. CASE FinalizeSuccess(d, k, n)
    <2> DEFINE old == handoff[d][k]
               g == [old EXCEPT !.state = "succeeded", !.execution_token = 0,
                                !.execution_deadline = 0, !.updated_at = now]
    <2>1. handoff' = [handoff EXCEPT ![d][k] = g] /\ LockedExecution(d, k, n)
      BY <1>5 DEF FinalizeSuccess
    <2>2. old \in HandoffRow
      BY PairFacts
    <2> HIDE DEF old
    <2>3. g.state = "succeeded"
      BY <2>2 DEF HandoffRow
    <2> HIDE DEF g
    <2>4. handoff'[d][k].state # "executing"
      BY <1>0, <2>1, <2>3 DEF HandoffTypes
    <2>5. QED
      BY <1>4, <2>1, <2>4
  <1>6. ASSUME NEW h \in RetryAfters, FinalizeFailure(d, k, n, h)
        PROVE  OwnerNext(d, k)
    <2>1. \E st : handoff' = [handoff EXCEPT ![d][k] = SetFailed(handoff[d][k], st, now)]
      BY <1>6 DEF FinalizeFailure
    <2>2. LockedExecution(d, k, n)
      BY <1>6 DEF FinalizeFailure
    <2>3. QED
      BY <1>4, <2>1, <2>2, FailedIsIdle
  <1>7. QED
    BY <1>3, <1>5, <1>6 DEF WorkerStep, HandlerReturns, HandlerTimeout, WorkerLost

LEMMA OwnerStep ==
  ASSUME SerialInv, HandoffInv, OwnerInv, Skew = 0, ~ConnectorErrors,
         [HandoffNext]_systemVars
  PROVE  OwnerInv'
  <1>0. [Next]_vars /\ CoreInv
    BY HandoffSteps DEF SerialInv
  <1> SUFFICES ASSUME NEW e \in Deliveries, NEW j \in AttemptNumber
               PROVE  OwnerNext(e, j)
    BY DEF OwnerInv, Owner, OwnerNext, OwnerOK, CutOf
  <1>1. Owner(e, j)
    BY DEF OwnerInv
  <1>2. ASSUME UNCHANGED handoffVars,
               delivery[e].state = "leased" /\ delivery[e].lease_expires_at > now =>
                 delivery'[e] = delivery[e]
        PROVE  OwnerNext(e, j)
    <2>1. /\ handoff' = handoff /\ sink' = sink /\ run' = run /\ message' = message
      BY <1>2 DEF handoffVars
    <2>2. /\ ExecutionKept(handoff[e][j], handoff'[e][j])
          /\ SinkMoves(sink[e][j], sink'[e][j])
      BY <2>1 DEF ExecutionKept, SinkMoves
    <2>3. ASSUME NEW n \in Execution, run[e][j][n].stage = "running",
                 now < run[e][j][n].cutoff
          PROVE  delivery'[e].state = "leased" /\ delivery'[e].lease_token = j
      BY <1>0, <1>1, <1>2, <2>3, LiveRun
    <2>4. QED
      BY <1>0, <1>1, <2>1, <2>2, <2>3, OwnerQuiet
  <1>3. CASE Ledger
    BY <1>2, <1>3, LedgerKeepsLease DEF Ledger
  <1>4. CASE HandoffTick \/ UNCHANGED systemVars
    BY <1>2, <1>4 DEF HandoffTick, Tick, systemVars, vars
  <1>5. ASSUME NEW d \in Deliveries, NEW k \in AttemptNumber,
               \/ SinkStep(d, k) \/ AdmitStep(d, k) \/ RecoverExpired(d, k)
               \/ \E n \in Execution : WorkerStep(d, k, n)
        PROVE  OwnerNext(e, j)
    <2>1. CASE e = d /\ j = k
      BY <1>0, <1>1, <1>5, <2>1, OwnerSink, OwnerAdmit, OwnerWorker
    <2>2. CASE ~(e = d /\ j = k)
      <3>1. OthersKept(d, k)
        BY <1>5, AttemptSteps
      <3>2. PICK retryable, hint :
              UNCHANGED vars \/ Succeed(d, k) \/ Fail(d, k, retryable, hint)
        BY <1>5, SinkLedger, AdmitLedger, RecoverLedger, WorkerLedger
      <3>3. QED
        BY <1>0, <2>2, <3>1, <3>2, OwnerOfOthers
    <2>3. QED
      BY <2>1, <2>2
  <1>6. QED
    BY <1>3, <1>4, <1>5 DEF HandoffNext

\* With serialized claims, equal clocks and classified connector errors a
\* running handler keeps handoff and lease until its deadline, so no two
\* executions of a delivery are ever both inside their deadlines.
THEOREM HandlerHoldsLease ==
  ASSUME Serialized, Skew = 0, ~ConnectorErrors
  PROVE  HandoffSpec => []WorkerHoldsLease
  <1>1. HandoffInit => SerialInv /\ OwnerInv
    <2> SUFFICES ASSUME HandoffInit PROVE SerialInv /\ OwnerInv
      OBVIOUS
    <2>1. SerialInv
      BY InitSerial DEF HandoffInit
    <2>2. ASSUME NEW d \in Deliveries, NEW k \in AttemptNumber
          PROVE  Owner(d, k)
      <3>1. /\ handoff[d][k].state = "absent" /\ sink[d][k].stage = "idle"
            /\ message[d] = {} /\ \A n \in Execution : run[d][k][n].stage = "none"
        BY DEF HandoffInit, PerAttempt, NoHandoff, NoRun
      <3>2. QED
        BY <3>1 DEF Owner, OwnerOK
    <2>3. QED
      BY <2>1, <2>2 DEF OwnerInv
  <1>2. HandoffInv /\ SerialInv /\ OwnerInv /\ [HandoffNext]_systemVars
          => SerialInv' /\ OwnerInv'
    BY HandoffSteps, NextSerial, OwnerStep
  <1>3. CoreInv /\ HandoffInv /\ OwnerInv => WorkerHoldsLease
    <2> SUFFICES ASSUME CoreInv, HandoffInv, OwnerInv, NEW d \in Deliveries,
                        NEW k \in AttemptNumber, NEW n \in Execution,
                        run[d][k][n].stage = "running", now < run[d][k][n].cutoff
                 PROVE  /\ handoff[d][k].state = "executing"
                        /\ handoff[d][k].execution_token = n
                        /\ delivery[d].state = "leased"
                        /\ delivery[d].lease_token = k
                        /\ delivery[d].lease_expires_at > now
      BY DEF WorkerHoldsLease
    <2>1. Owner(d, k)
      BY DEF OwnerInv
    <2>2. QED
      BY <2>1, LiveRun
  <1>4. QED
    BY <1>1, <1>2, <1>3, HandoffInvariant, PTL DEF HandoffSpec
=============================================================================
