--------------------------- MODULE CommandLedger ---------------------------
(***************************************************************************)
(* Inbound command idempotency (idempotency/store.py and command.py): a    *)
(* CommandContext owns one transaction that takes an advisory lock on the  *)
(* command identity, acquires or replays the command row, runs the body    *)
(* with its writes and its emitted events, completes the row and commits.  *)
(* prune_commands deletes expired rows in bounded batches beside it.       *)
(*                                                                         *)
(* Units of work that are not commands share the sessions: both publish    *)
(* through EventPublication.                                               *)
(***************************************************************************)
EXTENDS EventPublication, FiniteSets

CONSTANTS
  Identities,   \* tenant, route, method and key digest
  LockOf,       \* the 64 bit advisory key of an identity; two may collide
  Forms,        \* subject and request fingerprint
  Responses,    \* captured responses
  Ttls,         \* retention intervals a request may ask for
  Pruners,      \* maintenance sessions
  PruneBatch,   \* rows per pruning transaction
  CutoffLead,   \* how far ahead of the database clock a cutoff may lie
  MaxTime       \* bound of the clock

ASSUME CommandAssumption ==
  /\ LockOf \in [Identities -> Identities]
  /\ Ttls \subseteq Nat \ {0}
  /\ PruneBatch \in Nat \ {0}
  /\ CutoffLead \in Nat /\ MaxTime \in Nat
  /\ None \notin Identities \cup Forms \cup Responses \cup DedupeKeys \cup Contents

VARIABLES
  now,          \* clock_timestamp() of the database
  command,      \* the committed rows of fastapi_effects.commands
  context,      \* the CommandContext of each session
  pruner,       \* the rows each pruning transaction has locked
  executed,     \* history: per identity, the committed executions
  reply         \* the answer a request is given in this step, if any

commandVars == <<now, command, context, pruner, executed>>
vars == <<pubVars, commandVars, reply>>

\* The ledger implements the promise under the identity on the clock, the
\* history of executions and the answers: rows, locks and pruning are hidden.
Promise == INSTANCE IdempotentCommands
  WITH now <- now, executed <- executed, reply <- reply

CommandState == {"in_progress", "completed", "superseded"}

CommandRow ==
  [identity : Identities, generation : Nat \ {0}, is_current : BOOLEAN,
   form : Forms, state : CommandState, response : Responses \cup {None},
   created_at : Nat, expires_at : Nat]

\* waiting for the advisory lock; holding it; executing a new command;
\* replaying.  current: the row locked FOR UPDATE.  row: the row inserted.
Context ==
  [phase : {"idle", "waiting", "locked", "new", "replay"},
   identity : Identities \cup {None}, form : Forms \cup {None}, ttl : Ttls \cup {0},
   current : CommandRow \cup {None}, row : CommandRow \cup {None}]

Request(phase, i, f, ttl, current, row) ==
  [phase |-> phase, identity |-> i, form |-> f, ttl |-> ttl, current |-> current, row |-> row]

NoContext == Request("idle", None, None, 0, None, None)

Init ==
  /\ PubInit
  /\ now = 0
  /\ command = {}
  /\ context = [s \in Sessions |-> NoContext]
  /\ pruner = [p \in Pruners |-> {}]
  /\ executed = [i \in Identities |-> <<>>]
  /\ reply = None

Quiet == reply' = None

HoldsLock(s) == context[s].phase \in {"locked", "new", "replay"}

LockFree(s) ==
  \A t \in Sessions \ {s} : HoldsLock(t) =>
    LockOf[context[t].identity] # LockOf[context[s].identity]

\* Rows locked by a pruning transaction, and by a command's FOR UPDATE.
PrunerLocked == UNION {pruner[p] : p \in Pruners}
CommandLocked == {context[s].current : s \in Sessions} \ {None}

\* What SELECT ... is_current ... FOR UPDATE finds.  It waits for a pruner that
\* has locked the row.
Current(i) ==
  LET found == {r \in command : r.identity = i /\ r.is_current}
  IN IF found = {} THEN {None} ELSE found

Expired(row) == row.expires_at <= now

Failed(s) == [kind |-> "failed", identity |-> context[s].identity, form |-> context[s].form]

-----------------------------------------------------------------------------
(* CommandContext.__aenter__ and CommandStore.acquire *)

Ask(s, i, f, ttl) ==
  /\ Enter(s)
  /\ context[s].phase = "idle"
  /\ context' = [context EXCEPT ![s] = Request("waiting", i, f, ttl, None, None)]
  /\ Quiet
  /\ UNCHANGED <<now, command, pruner, executed>>

AcquireLock(s) ==
  /\ context[s].phase = "waiting"
  /\ LockFree(s)
  /\ context' = [context EXCEPT ![s].phase = "locked"]
  /\ Quiet
  /\ UNCHANGED <<pubVars, now, command, pruner, executed>>

NextGeneration(current) == IF current = None THEN 1 ELSE current.generation + 1

Generations(i, g) == {r \in command : r.identity = i /\ r.generation = g}

NewRow(c, generation) ==
  [identity |-> c.identity, generation |-> generation, is_current |-> TRUE,
   form |-> c.form, state |-> "in_progress", response |-> None,
   created_at |-> now, expires_at |-> now + c.ttl]

Completed(row, response) == [row EXCEPT !.state = "completed", !.response = response]

Superseded(row) == [row EXCEPT !.state = "superseded", !.is_current = FALSE]

\* The trigger guard_command_mutation lets an UPDATE through: what identifies a
\* command never changes, a state only moves on, history and a stored response
\* are immutable.
guard_command_mutation(old, new) ==
  /\ \A field \in {"identity", "generation", "form", "created_at", "expires_at"} :
       new[field] = old[field]
  /\ \/ new.state = old.state
     \/ old.state = "in_progress" /\ new.state \in {"completed", "superseded"}
     \/ old.state = "completed" /\ new.state = "superseded"
  /\ old.state = "superseded" => new = old
  /\ old.state = "completed" => new.response = old.response

\* No row, or an expired one: it is superseded and a new generation inserted.
\* The insert waits while a pruner has locked a row of that generation.
AcquireNew(s) ==
  /\ context[s].phase = "locked"
  /\ \E current \in Current(context[s].identity) :
       /\ current # None => Expired(current) /\ current \notin PrunerLocked
       /\ current # None => guard_command_mutation(current, Superseded(current))
       /\ Generations(context[s].identity, NextGeneration(current)) = {}
       /\ context' = [context EXCEPT ![s] =
            Request("new", @.identity, @.form, @.ttl, current, NewRow(@, NextGeneration(current)))]
  /\ Quiet
  /\ UNCHANGED <<pubVars, now, command, pruner, executed>>

\* The generation is taken by a retained row: the unique constraint fails.
AcquireFails(s) ==
  /\ context[s].phase = "locked"
  /\ \E current \in Current(context[s].identity) :
       /\ current # None => Expired(current) /\ current \notin PrunerLocked
       /\ \E r \in Generations(context[s].identity, NextGeneration(current)) :
            r \notin PrunerLocked
  /\ Rollback(s)
  /\ reply' = Failed(s)
  /\ context' = [context EXCEPT ![s] = NoContext]
  /\ UNCHANGED <<now, command, pruner, executed>>

\* CommandConflict and CommandInProgress.
AcquireRefused(s) ==
  /\ context[s].phase = "locked"
  /\ \E current \in Current(context[s].identity) \ ({None} \cup PrunerLocked) :
       /\ ~Expired(current)
       /\ current.form # context[s].form \/ current.state # "completed"
  /\ Rollback(s)
  /\ reply' = [Failed(s) EXCEPT !.kind = "refused"]
  /\ context' = [context EXCEPT ![s] = NoContext]
  /\ UNCHANGED <<now, command, pruner, executed>>

AcquireReplay(s) ==
  /\ context[s].phase = "locked"
  /\ \E current \in Current(context[s].identity) \ ({None} \cup PrunerLocked) :
       /\ ~Expired(current)
       /\ current.form = context[s].form
       /\ current.state = "completed"
       /\ context' = [context EXCEPT ![s] =
            Request("replay", @.identity, @.form, @.ttl, current, None)]
       /\ reply' = [kind |-> "replayed", identity |-> current.identity,
                     form |-> current.form, response |-> current.response]
  /\ UNCHANGED <<pubVars, now, command, pruner, executed>>

-----------------------------------------------------------------------------
(* The body, complete() and CommandContext.__aexit__ *)

\* A replayed command cannot emit; a new one may, before and after complete().
CommandEmit(s) ==
  /\ context[s].phase = "new"
  /\ Emit(s, [identity |-> context[s].identity, created_at |-> context[s].row.created_at])
  /\ Quiet /\ UNCHANGED commandVars

\* The row that complete() locks is the current command, still in progress.
Completable(row) == row.state = "in_progress" /\ row.is_current

Complete(s, response) ==
  /\ context[s].phase = "new"
  /\ uow[s].conflict = None
  /\ Completable(context[s].row)
  /\ guard_command_mutation(context[s].row, Completed(context[s].row, response))
  /\ context' = [context EXCEPT ![s].row = Completed(@, response)]
  /\ Quiet
  /\ UNCHANGED <<pubVars, now, command, pruner, executed>>

\* What the history keeps of a committed row.
ExecutionOf(row) ==
  [form |-> row.form, response |-> row.response,
   from |-> row.created_at, until |-> row.expires_at]

\* The block ends normally with a completed command: everything commits.
ExitNew(s) ==
  LET row == context[s].row IN
  /\ context[s].phase = "new"
  /\ row.state = "completed"
  /\ Commit(s)
  /\ command' = (command \ {context[s].current}) \cup {row}
       \cup {Superseded(r) : r \in {context[s].current} \ {None}}
  /\ executed' = [executed EXCEPT ![row.identity] = Append(@, ExecutionOf(row))]
  /\ reply' = [kind |-> "executed", identity |-> row.identity, form |-> row.form,
                response |-> row.response]
  /\ context' = [context EXCEPT ![s] = NoContext]
  /\ UNCHANGED <<now, pruner>>

ExitReplay(s) ==
  /\ context[s].phase = "replay"
  /\ Commit(s)
  /\ context' = [context EXCEPT ![s] = NoContext]
  /\ Quiet
  /\ UNCHANGED <<now, command, pruner, executed>>

\* Mutant of ExitFailed: the missing complete() is reported after the commit.
ExitFailedCommits(s) ==
  /\ context[s].phase # "idle"
  /\ Commit(s)
  /\ reply' = Failed(s)
  /\ context' = [context EXCEPT ![s] = NoContext]
  /\ UNCHANGED <<now, command, pruner, executed>>

\* An exception, an exit without complete(), a lost connection or a crash.
ExitFailed(s) ==
  /\ context[s].phase # "idle"
  /\ Rollback(s)
  /\ reply' = Failed(s)
  /\ context' = [context EXCEPT ![s] = NoContext]
  /\ UNCHANGED <<now, command, pruner, executed>>

-----------------------------------------------------------------------------
(* FastAPIEffectsUnitOfWork without a command *)

UnitOfWorkStep(s) ==
  /\ context[s].phase = "idle"
  /\ Enter(s) \/ Emit(s, None) \/ Commit(s) \/ Rollback(s)
  /\ Quiet /\ UNCHANGED commandVars

-----------------------------------------------------------------------------
(* prune_commands *)

\* Mutant of Prunable: every terminal row may go.
PrunableUnexpired(cutoff) ==
  {r \in command : r.state \in {"completed", "superseded"}} \ (PrunerLocked \cup CommandLocked)

Prunable(cutoff) ==
  {r \in command : r.state \in {"completed", "superseded"} /\ r.expires_at <= cutoff}
    \ (PrunerLocked \cup CommandLocked)

\* The oldest rows that nobody has locked (ORDER BY, LIMIT, SKIP LOCKED).
PruneLock(p, cutoff, batch) ==
  /\ pruner[p] = {}
  /\ cutoff <= now + CutoffLead
  /\ batch # {} /\ batch \subseteq Prunable(cutoff)
  /\ Cardinality(batch) <= PruneBatch
  /\ Cardinality(batch) < PruneBatch => batch = Prunable(cutoff)
  /\ \A r \in batch, q \in Prunable(cutoff) \ batch : r.expires_at <= q.expires_at
  /\ pruner' = [pruner EXCEPT ![p] = batch]
  /\ Quiet
  /\ UNCHANGED <<pubVars, now, command, context, executed>>

PruneCommit(p) ==
  /\ pruner[p] # {}
  /\ command' = command \ pruner[p]
  /\ pruner' = [pruner EXCEPT ![p] = {}]
  /\ Quiet
  /\ UNCHANGED <<pubVars, now, context, executed>>

PruneAbort(p) ==
  /\ pruner[p] # {}
  /\ pruner' = [pruner EXCEPT ![p] = {}]
  /\ Quiet
  /\ UNCHANGED <<pubVars, now, command, context, executed>>

Tick ==
  /\ now < MaxTime
  /\ now' = now + 1
  /\ Quiet
  /\ UNCHANGED <<pubVars, command, context, pruner, executed>>

CommandStep(s) ==
  \/ \E i \in Identities, f \in Forms, ttl \in Ttls : Ask(s, i, f, ttl)
  \/ AcquireLock(s)
  \/ AcquireNew(s)
  \/ AcquireFails(s)
  \/ AcquireRefused(s)
  \/ AcquireReplay(s)
  \/ CommandEmit(s)
  \/ \E r \in Responses : Complete(s, r)
  \/ ExitNew(s)
  \/ ExitReplay(s)
  \/ ExitFailed(s)

Next ==
  \/ \E s \in Sessions : CommandStep(s) \/ UnitOfWorkStep(s)
  \/ \E p \in Pruners :
       \/ \E cutoff \in 0 .. MaxTime + CutoffLead, batch \in SUBSET command :
            PruneLock(p, cutoff, batch)
       \/ PruneCommit(p)
       \/ PruneAbort(p)
  \/ Retention /\ Quiet /\ UNCHANGED commandVars
  \/ Tick

Spec == Init /\ [][Next]_vars

-----------------------------------------------------------------------------
Origin == {None} \cup [identity : Identities, created_at : Nat]

ASSUME NoneAssumption ==
  /\ None \notin CommandRow
  /\ None \notin EventRow(Origin)
  /\ None \notin [key : DedupeKeys, content : Contents]

\* Every variable keeps the shape of its rows.
CommandTypeOK ==
  /\ event \in [EventIds -> {None} \cup EventRow(Origin)]
  /\ uow \in [Sessions -> UnitOfWork]
  /\ now \in Nat
  /\ command \subseteq CommandRow
  /\ context \in [Sessions -> Context]
  /\ pruner \in [Pruners -> SUBSET command]
  /\ executed \in [Identities -> Seq(Promise!Execution)]
  /\ reply \in {None} \cup Promise!Answer

\* The rows of an identity are records of its executions: a generation occurs
\* once, the current row is the latest execution, every other one has been
\* superseded, and nothing durable is in progress (acquire and complete in
\* store.py under the advisory lock, with prune_commands beside them).
RowsAreExecutions ==
  \A r \in command :
    /\ r.state = (IF r.is_current THEN "completed" ELSE "superseded")
    /\ \E k \in DOMAIN executed[r.identity] :
         /\ executed[r.identity][k] = ExecutionOf(r)
         /\ r.is_current <=> k = Len(executed[r.identity])
    /\ \A q \in command \ {r} : q.identity = r.identity =>
         /\ q.generation # r.generation
         /\ ~(q.is_current /\ r.is_current)

\* The store keeps the promise of IdempotentCommands: one execution per
\* retention window whatever duplicates, rollbacks and pruning do, replays of
\* the stored response only, refusals only of another form.
KeepsPromise == Promise!PromiseSpec

\* Effect intent is atomic with its command: an event published by a command is
\* durable only if that execution is (CommandContext.emit and __aexit__).
IntentNeedsExecution ==
  \A e \in EventIds :
    event[e] # None /\ event[e].status # "pending" /\ event[e].origin # None =>
      \E k \in DOMAIN executed[event[e].origin.identity] :
        executed[event[e].origin.identity][k].from = event[e].origin.created_at

\* What is durable hangs together: every row records an execution, and every
\* event of a command stands beside the execution that published it.
DurableTogether == RowsAreExecutions /\ IntentNeedsExecution

\* An event that emit() has returned has the content asked for and is durable,
\* or will be if the transaction commits, unless retention deletes it: a dedupe
\* hit never rests on another transaction that may still roll back
\* (RuntimeRepository.publish).
EmitIsBacked ==
  \A s \in Sessions : \A x \in uow[s].returned :
    /\ event[x.event] # None
    /\ event[x.event].status = "pending" => event[x.event].by = s
    /\ event[x.event].content = x.content

\* A dedupe key names one event, and the event keeps its original deliveries: a
\* repeated emit() adds none although the routes have changed since, and
\* retention takes webhook deliveries only.
OneDeliverySet ==
  \A e \in EventIds : event[e] # None /\ event[e].status # "pruned" =>
    /\ event[e].deliveries \subseteq event[e].original
    /\ \A r \in event[e].original \ event[e].deliveries : r.destination_kind = "webhook"
    /\ \A f \in EventIds \ {e} :
         event[f] # None /\ event[f].key = event[e].key =>
           event[e].key = None \/ event[f].status = "pruned"

\* "Expiry permits a new generation on the next request" (command-idempotency.md):
\* when an identity has no live row, no retained row holds the generation that
\* acquire is about to insert.
ExpiryPermitsNewGeneration ==
  \A i \in Identities : \A current \in Current(i) :
    (current # None => Expired(current)) =>
      Generations(i, NextGeneration(current)) \subseteq PrunerLocked
=============================================================================
