------------------------- MODULE CommandLedgerProofs -------------------------
(***************************************************************************)
(* Theorems about CommandLedger for any number of sessions, identities,    *)
(* colliding lock keys and overlapping prunes whose cutoffs are not ahead  *)
(* of the database clock: the rows record the executions, the ledger       *)
(* implements IdempotentCommands, and effect intent is atomic.             *)
(***************************************************************************)
EXTENDS CommandLedger, TLAPS

CommandTypes ==
  /\ now \in Nat
  /\ command \subseteq CommandRow
  /\ context \in [Sessions -> Context]
  /\ pruner \in [Pruners -> SUBSET command]
  /\ executed \in [Identities -> Seq(Promise!Execution)]

\* One session at a time works on an identity; a row is locked once; what a
\* pruner has locked has expired.
LocksOK ==
  /\ \A s, t \in Sessions : s # t /\ HoldsLock(s) /\ HoldsLock(t) =>
       context[s].identity # context[t].identity
  /\ \A p, q \in Pruners : p # q => pruner[p] \cap pruner[q] = {}
  /\ \A p \in Pruners, s \in Sessions : context[s].current \notin pruner[p]
  /\ \A p \in Pruners : \A r \in pruner[p] : r.expires_at <= now

\* Windows follow one another, and a live one still has its row.
WindowsOK ==
  \A i \in Identities :
    /\ \A k \in DOMAIN executed[i] : executed[i][k].from <= now
    /\ \A k, j \in DOMAIN executed[i] : k < j => executed[i][k].until <= executed[i][j].from
    /\ (executed[i] # <<>> /\ now < executed[i][Len(executed[i])].until) =>
         \E r \in command : r.identity = i /\ r.is_current

\* The row of an open command follows every execution of its identity.
RowOK(c) ==
  /\ c.row \in CommandRow
  /\ c.row.identity = c.identity
  /\ c.row.form = c.form
  /\ c.row.is_current
  /\ c.row.created_at <= now
  /\ c.row.expires_at = c.row.created_at + c.ttl
  /\ \/ c.row.state = "in_progress"
     \/ c.row.state = "completed" /\ c.row.response \in Responses
  /\ c.current = None => \A r \in command : r.identity = c.identity => ~r.is_current
  /\ \A r \in command : r.identity = c.identity => r.generation # c.row.generation
  /\ \A k \in DOMAIN executed[c.identity] : executed[c.identity][k].until <= c.row.created_at

ContextOK(c) ==
  /\ c.phase # "idle" => c.identity \in Identities /\ c.form \in Forms /\ c.ttl \in Ttls
  /\ c.current # None =>
       /\ c.phase \in {"new", "replay"}
       /\ c.current \in command
       /\ c.current.identity = c.identity
       /\ c.current.is_current
  /\ c.phase = "new" => RowOK(c)

CommandInv ==
  /\ CommandTypes
  /\ LocksOK
  /\ WindowsOK
  /\ RowsAreExecutions
  /\ \A s \in Sessions : ContextOK(context[s])

-----------------------------------------------------------------------------
\* The current row of an identity is its latest execution.
LEMMA CurrentIsLatest ==
  ASSUME CommandInv, NEW r \in command, r.is_current
  PROVE  /\ r.identity \in Identities
         /\ r.state = "completed"
         /\ Len(executed[r.identity]) \in DOMAIN executed[r.identity]
         /\ executed[r.identity][Len(executed[r.identity])] = ExecutionOf(r)
         /\ r.form \in Forms /\ r.response \in Responses
  <1>1. r \in CommandRow /\ r.identity \in Identities
    BY DEF CommandInv, CommandTypes, CommandRow
  <1>2. executed[r.identity] \in Seq(Promise!Execution)
    BY <1>1 DEF CommandInv, CommandTypes
  <1>3. r.state = "completed"
    BY DEF CommandInv, RowsAreExecutions
  <1>4. /\ Len(executed[r.identity]) \in DOMAIN executed[r.identity]
        /\ executed[r.identity][Len(executed[r.identity])] = ExecutionOf(r)
    BY DEF CommandInv, RowsAreExecutions
  <1>5. ExecutionOf(r) \in Promise!Execution
    BY <1>2, <1>4
  <1>6. r.form \in Forms /\ r.response \in Responses
    BY <1>5 DEF ExecutionOf, Promise!Execution
  <1>7. QED
    BY <1>1, <1>3, <1>4, <1>6

\* When acquisition finds no row, or an expired one, every window has closed.
LEMMA WindowsClosed ==
  ASSUME CommandInv, NEW i \in Identities, NEW current \in Current(i),
         current # None => Expired(current)
  PROVE  \A k \in DOMAIN executed[i] : executed[i][k].until <= now
  <1> DEFINE n == Len(executed[i])
  <1>1. executed[i] \in Seq(Promise!Execution) /\ now \in Nat
    BY DEF CommandInv, CommandTypes
  <1>2. \A k \in DOMAIN executed[i] : executed[i][k].from \in Nat /\ executed[i][k].until \in Nat
    <2>1. \A k \in DOMAIN executed[i] : executed[i][k] \in Promise!Execution
      BY <1>1
    <2>2. QED
      BY <2>1 DEF Promise!Execution
  <1>3. executed[i] # <<>> => executed[i][n].until <= now
    <2>1. CASE current = None
      <3>1. \A r \in command : r.identity = i => ~r.is_current
        BY <2>1, NoneAssumption DEF Current, CommandInv, CommandTypes
      <3>2. QED
        BY <1>1, <1>2, <3>1 DEF CommandInv, WindowsOK
    <2>2. CASE current # None
      <3>1. current \in command /\ current.identity = i /\ current.is_current
        BY <2>2 DEF Current
      <3>2. executed[i][n].until = current.expires_at
        <4>1. executed[i][n] = ExecutionOf(current)
          BY <3>1, CurrentIsLatest
        <4>2. QED
          BY <4>1 DEF ExecutionOf
      <3>3. QED
        BY <2>2, <3>2 DEF Expired
    <2>3. QED
      BY <2>1, <2>2
  <1>4. ASSUME NEW k \in DOMAIN executed[i] PROVE executed[i][k].until <= now
    <2>1. executed[i] # <<>> /\ n \in DOMAIN executed[i] /\ k \in 1 .. n /\ n \in Nat
      BY <1>1
    <2>2. CASE k = n
      BY <1>3, <2>1, <2>2
    <2>3. CASE k < n
      BY <1>1, <1>2, <2>1, <2>3 DEF CommandInv, WindowsOK
    <2>4. QED
      BY <2>1, <2>2, <2>3
  <1>5. QED
    BY <1>4

-----------------------------------------------------------------------------
\* A step that replaces the context of one session keeps the invariant if the
\* new context is sound and shares neither identity nor row with another.
LEMMA ContextReplaced ==
  ASSUME CommandInv, NEW s \in Sessions, NEW c \in Context,
         context' = [context EXCEPT ![s] = c],
         UNCHANGED <<now, command, pruner, executed>>,
         ContextOK(c),
         c.phase \in {"locked", "new", "replay"} =>
           \A t \in Sessions \ {s} : HoldsLock(t) => context[t].identity # c.identity,
         \A p \in Pruners : c.current \notin pruner[p]
  PROVE  CommandInv'
  <1>0. context'[s] = c /\ \A t \in Sessions \ {s} : context'[t] = context[t]
    BY DEF CommandInv, CommandTypes
  <1>1. CommandTypes'
    BY DEF CommandInv, CommandTypes
  <1>2. LocksOK'
    BY <1>0 DEF CommandInv, LocksOK, HoldsLock
  <1>3. WindowsOK'
    BY DEF CommandInv, WindowsOK
  <1>4. RowsAreExecutions'
    BY DEF CommandInv, RowsAreExecutions
  <1>5. ASSUME NEW t \in Sessions PROVE ContextOK(context[t])'
    BY <1>0 DEF CommandInv, ContextOK, RowOK
  <1>6. QED
    BY <1>1, <1>2, <1>3, <1>4, <1>5 DEF CommandInv

\* A session without a command is sound.
LEMMA NoContextOK ==
  /\ NoContext \in Context
  /\ NoContext.current = None
  /\ NoContext.phase = "idle"
  BY DEF NoContext, Context, Request

\* Ending a request, one way or another, keeps the invariant.
LEMMA RequestEnds ==
  ASSUME CommandInv, NEW s \in Sessions,
         context' = [context EXCEPT ![s] = NoContext],
         UNCHANGED <<now, command, pruner, executed>>
  PROVE  CommandInv'
  <1>1. \A p \in Pruners : None \notin pruner[p]
    BY NoneAssumption DEF CommandInv, CommandTypes
  <1>2. ContextOK(NoContext)
    BY NoContextOK DEF ContextOK
  <1>3. QED
    BY <1>1, <1>2, NoContextOK, ContextReplaced

\* What the type says of a context.
LEMMA ContextFields ==
  ASSUME CommandInv, NEW s \in Sessions, context[s].phase # "idle"
  PROVE  /\ context[s] \in Context
         /\ context[s].identity \in Identities
         /\ context[s].form \in Forms
         /\ context[s].ttl \in Ttls
         /\ context[s].phase \in {"waiting", "locked"} => context[s].current = None
         /\ \A p \in Pruners : None \notin pruner[p] /\ context[s].current \notin pruner[p]
  <1>1. context[s] \in Context /\ ContextOK(context[s])
    BY DEF CommandInv, CommandTypes
  <1>2. \A p \in Pruners : None \notin pruner[p] /\ context[s].current \notin pruner[p]
    BY NoneAssumption DEF CommandInv, CommandTypes, LocksOK
  <1>3. QED
    BY <1>1, <1>2 DEF ContextOK

-----------------------------------------------------------------------------
\* A request arrives.
LEMMA AskStep ==
  ASSUME CommandInv, NEW s \in Sessions, NEW i \in Identities, NEW f \in Forms,
         NEW ttl \in Ttls, Ask(s, i, f, ttl)
  PROVE  CommandInv'
  <1> DEFINE c == Request("waiting", i, f, ttl, None, None)
  <1>1. c \in Context
    BY DEF Context, Request
  <1>2. context' = [context EXCEPT ![s] = c] /\ UNCHANGED <<now, command, pruner, executed>>
    BY DEF Ask
  <1>3. ContextOK(c)
    BY DEF ContextOK, Request
  <1>4. \A p \in Pruners : c.current \notin pruner[p]
    BY NoneAssumption DEF CommandInv, CommandTypes, Request
  <1>5. c.phase \notin {"locked", "new", "replay"}
    BY DEF Request
  <1> HIDE DEF c
  <1>6. QED
    BY <1>1, <1>2, <1>3, <1>4, <1>5, ContextReplaced

\* The advisory lock is granted.
LEMMA LockStep ==
  ASSUME CommandInv, NEW s \in Sessions, AcquireLock(s)
  PROVE  CommandInv'
  <1> DEFINE c == [context[s] EXCEPT !.phase = "locked"]
  <1>1. context[s].phase = "waiting"
    BY DEF AcquireLock
  <1>2. /\ c \in Context /\ c.phase = "locked"
        /\ c.identity = context[s].identity /\ c.current = None
        /\ c.form = context[s].form /\ c.ttl = context[s].ttl
    BY <1>1, ContextFields DEF Context
  <1>3. context' = [context EXCEPT ![s] = c] /\ UNCHANGED <<now, command, pruner, executed>>
    BY DEF AcquireLock
  <1>4. ContextOK(c)
    BY <1>1, <1>2, ContextFields DEF ContextOK
  <1>5. \A t \in Sessions \ {s} : HoldsLock(t) => context[t].identity # c.identity
    BY <1>2 DEF AcquireLock, LockFree
  <1>6. \A p \in Pruners : c.current \notin pruner[p]
    BY <1>1, <1>2, ContextFields
  <1> HIDE DEF c
  <1>7. QED
    BY <1>2, <1>3, <1>4, <1>5, <1>6, ContextReplaced

\* A session that goes on under its lock stays alone with its identity.
LEMMA LockKept ==
  ASSUME CommandInv, NEW s \in Sessions, HoldsLock(s)
  PROVE  \A t \in Sessions \ {s} : HoldsLock(t) => context[t].identity # context[s].identity
  BY DEF CommandInv, LocksOK

\* A row that acquisition found is durable, current and of the identity.
LEMMA FoundRow ==
  ASSUME CommandInv, NEW i \in Identities, NEW r \in Current(i)
  PROVE  /\ r # None => r \in command /\ r.identity = i /\ r.is_current /\ r \in CommandRow
         /\ r = None => \A q \in command : q.identity = i => ~q.is_current
  BY NoneAssumption DEF Current, CommandInv, CommandTypes

\* A new generation is inserted.
LEMMA NewStep ==
  ASSUME CommandInv, NEW s \in Sessions, AcquireNew(s)
  PROVE  CommandInv'
  <1> DEFINE i == context[s].identity
  <1>1. context[s].phase = "locked"
    BY DEF AcquireNew
  <1>2. PICK current \in Current(i) :
          /\ current # None => Expired(current) /\ current \notin PrunerLocked
          /\ Generations(i, NextGeneration(current)) = {}
          /\ context' = [context EXCEPT ![s] =
               Request("new", i, context[s].form, context[s].ttl, current,
                       NewRow(context[s], NextGeneration(current)))]
    BY DEF AcquireNew
  <1> DEFINE row == NewRow(context[s], NextGeneration(current))
             c == Request("new", i, context[s].form, context[s].ttl, current, row)
  <1>3. /\ context[s] \in Context /\ i \in Identities /\ context[s].form \in Forms
        /\ context[s].ttl \in Ttls /\ now \in Nat /\ context[s].ttl \in Nat
    BY <1>1, ContextFields, CommandAssumption DEF CommandInv, CommandTypes
  <1>4. NextGeneration(current) \in Nat \ {0}
    BY <1>3, FoundRow DEF NextGeneration, CommandRow
  <1>5. row \in CommandRow
    BY <1>3, <1>4 DEF CommandRow, CommandState, NewRow
  <1>6. current \in CommandRow \cup {None}
    BY <1>3, FoundRow
  <1>7. c \in Context
    BY <1>3, <1>5, <1>6 DEF Context, Request
  <1>8. context' = [context EXCEPT ![s] = c]
    BY <1>2
  <1>9. RowOK(c)
    <2>1. \A k \in DOMAIN executed[i] : executed[i][k].until <= now
      BY <1>2, <1>3, WindowsClosed
    <2>2. current = None => \A r \in command : r.identity = i => ~r.is_current
      BY <1>3, FoundRow
    <2>3. \A r \in command : r.identity = i => r.generation # NextGeneration(current)
      BY <1>2 DEF Generations
    <2>4. now <= now
      BY <1>3
    <2>5. QED
      BY <1>5, <2>1, <2>2, <2>3, <2>4 DEF RowOK, Request, NewRow
  <1>10. ContextOK(c)
    BY <1>3, <1>9, FoundRow DEF ContextOK, Request
  <1>11. \A p \in Pruners : c.current \notin pruner[p]
    BY <1>1, <1>2, ContextFields DEF PrunerLocked, Request
  <1>12. \A t \in Sessions \ {s} : HoldsLock(t) => context[t].identity # c.identity
    BY <1>1, LockKept DEF HoldsLock, Request
  <1>13. UNCHANGED <<now, command, pruner, executed>>
    BY DEF AcquireNew
  <1> HIDE DEF c
  <1>14. QED
    BY <1>7, <1>8, <1>10, <1>11, <1>12, <1>13, ContextReplaced

\* A completed command is found.
LEMMA ReplayStep ==
  ASSUME CommandInv, NEW s \in Sessions, AcquireReplay(s)
  PROVE  CommandInv'
  <1> DEFINE i == context[s].identity
  <1>1. context[s].phase = "locked"
    BY DEF AcquireReplay
  <1>2. PICK current \in Current(i) :
          /\ current # None /\ current \notin PrunerLocked
          /\ context' = [context EXCEPT ![s] =
               Request("replay", i, context[s].form, context[s].ttl, current, None)]
    BY DEF AcquireReplay
  <1> DEFINE c == Request("replay", i, context[s].form, context[s].ttl, current, None)
  <1>3. i \in Identities /\ context[s].form \in Forms /\ context[s].ttl \in Ttls
    BY <1>1, ContextFields
  <1>4. current \in command /\ current.identity = i /\ current.is_current /\ current \in CommandRow
    BY <1>2, <1>3, FoundRow
  <1>5. c \in Context
    BY <1>3, <1>4 DEF Context, Request
  <1>6. ContextOK(c)
    BY <1>3, <1>4 DEF ContextOK, Request
  <1>7. \A p \in Pruners : c.current \notin pruner[p]
    BY <1>2 DEF PrunerLocked, Request
  <1>8. \A t \in Sessions \ {s} : HoldsLock(t) => context[t].identity # c.identity
    BY <1>1, LockKept DEF HoldsLock, Request
  <1>9. context' = [context EXCEPT ![s] = c] /\ UNCHANGED <<now, command, pruner, executed>>
    BY <1>2 DEF AcquireReplay
  <1> HIDE DEF c
  <1>10. QED
    BY <1>5, <1>6, <1>7, <1>8, <1>9, ContextReplaced

\* What complete() writes.
LEMMA CompletedRow ==
  ASSUME NEW row \in CommandRow, NEW response \in Responses
  PROVE  /\ Completed(row, response) \in CommandRow
         /\ Completed(row, response).identity = row.identity
         /\ Completed(row, response).generation = row.generation
         /\ Completed(row, response).is_current = row.is_current
         /\ Completed(row, response).form = row.form
         /\ Completed(row, response).state = "completed"
         /\ Completed(row, response).response = response
         /\ Completed(row, response).created_at = row.created_at
         /\ Completed(row, response).expires_at = row.expires_at
  <1> DEFINE half == [row EXCEPT !.state = "completed"]
             full == [half EXCEPT !.response = response]
  <1>1. /\ half \in CommandRow
        /\ half.identity = row.identity /\ half.generation = row.generation
        /\ half.is_current = row.is_current /\ half.form = row.form
        /\ half.state = "completed" /\ half.created_at = row.created_at
        /\ half.expires_at = row.expires_at
    BY DEF CommandRow, CommandState
  <1>2. Completed(row, response) = full
    BY Zenon DEF Completed
  <1> HIDE DEF half
  <1>3. /\ full \in CommandRow
        /\ full.identity = half.identity /\ full.generation = half.generation
        /\ full.is_current = half.is_current /\ full.form = half.form
        /\ full.state = half.state /\ full.created_at = half.created_at
        /\ full.expires_at = half.expires_at /\ full.response = response
    BY <1>1 DEF CommandRow
  <1> HIDE DEF full
  <1>4. QED
    BY <1>1, <1>2, <1>3

\* complete() changes state and response of the open row only.
LEMMA CompleteStep ==
  ASSUME CommandInv, NEW s \in Sessions, NEW response \in Responses, Complete(s, response)
  PROVE  CommandInv'
  <1> DEFINE done == Completed(context[s].row, response)
             c == [context[s] EXCEPT !.row = done]
  <1>1. context[s].phase = "new" /\ context[s] \in Context
    BY ContextFields DEF Complete, Completable
  <1>2. RowOK(context[s]) /\ context[s].row \in CommandRow /\ ContextOK(context[s])
    BY <1>1 DEF CommandInv, ContextOK, RowOK
  <1>3. /\ done \in CommandRow /\ done.identity = context[s].row.identity
        /\ done.generation = context[s].row.generation
        /\ done.is_current = context[s].row.is_current
        /\ done.form = context[s].row.form
        /\ done.state = "completed" /\ done.response = response
        /\ done.created_at = context[s].row.created_at
        /\ done.expires_at = context[s].row.expires_at
    BY <1>2, CompletedRow
  <1>4. context' = [context EXCEPT ![s] = c] /\ UNCHANGED <<now, command, pruner, executed>>
    BY DEF Complete, Completable
  <1> HIDE DEF done
  <1>5. /\ c \in Context /\ c.phase = "new" /\ c.identity = context[s].identity
        /\ c.form = context[s].form /\ c.ttl = context[s].ttl
        /\ c.current = context[s].current /\ c.row = done
    BY <1>1, <1>3 DEF Context
  <1> HIDE DEF c
  <1>6. ContextOK(c)
    BY <1>1, <1>2, <1>3, <1>5 DEF ContextOK, RowOK
  <1>7. \A p \in Pruners : c.current \notin pruner[p]
    BY <1>1, <1>5, ContextFields
  <1>8. \A t \in Sessions \ {s} : HoldsLock(t) => context[t].identity # c.identity
    BY <1>1, <1>5, LockKept DEF HoldsLock
  <1>9. QED
    BY <1>4, <1>5, <1>6, <1>7, <1>8, ContextReplaced

\* What superseding writes.
LEMMA SupersededRow ==
  ASSUME NEW row \in CommandRow
  PROVE  /\ Superseded(row) \in CommandRow
         /\ Superseded(row).identity = row.identity
         /\ Superseded(row).generation = row.generation
         /\ Superseded(row).is_current = FALSE
         /\ Superseded(row).state = "superseded"
         /\ ExecutionOf(Superseded(row)) = ExecutionOf(row)
  <1> DEFINE half == [row EXCEPT !.state = "superseded"]
             full == [half EXCEPT !.is_current = FALSE]
  <1>1. /\ half \in CommandRow
        /\ half.identity = row.identity /\ half.generation = row.generation
        /\ half.form = row.form /\ half.response = row.response
        /\ half.state = "superseded" /\ half.created_at = row.created_at
        /\ half.expires_at = row.expires_at
    BY DEF CommandRow, CommandState
  <1>2. Superseded(row) = full
    BY Zenon DEF Superseded
  <1> HIDE DEF half
  <1>3. /\ full \in CommandRow
        /\ full.identity = half.identity /\ full.generation = half.generation
        /\ full.form = half.form /\ full.response = half.response
        /\ full.state = half.state /\ full.created_at = half.created_at
        /\ full.expires_at = half.expires_at /\ full.is_current = FALSE
    BY <1>1 DEF CommandRow
  <1> HIDE DEF full
  <1>4. ExecutionOf(full) = ExecutionOf(row)
    BY <1>1, <1>3 DEF ExecutionOf
  <1>5. QED
    BY <1>1, <1>2, <1>3, <1>4

\* A command commits: its row becomes the current one and the latest execution.
LEMMA ExitStep ==
  ASSUME CommandInv, NEW s \in Sessions, ExitNew(s)
  PROVE  CommandInv'
  <1> DEFINE c == context[s]
             i == c.identity
             row == c.row
             cur == c.current
             n == Len(executed[i])
             old == {Superseded(r) : r \in {cur} \ {None}}
  <1>1. c.phase = "new" /\ row.state = "completed" /\ HoldsLock(s)
    BY DEF ExitNew, HoldsLock
  <1>2. /\ i \in Identities /\ row \in CommandRow /\ row.identity = i /\ row.is_current
        /\ row.created_at <= now /\ row.response \in Responses
        /\ cur = None => \A r \in command : r.identity = i => ~r.is_current
        /\ \A r \in command : r.identity = i => r.generation # row.generation
        /\ \A k \in DOMAIN executed[i] : executed[i][k].until <= row.created_at
    BY <1>1 DEF CommandInv, ContextOK, RowOK
  <1>3. cur # None => cur \in command /\ cur.identity = i /\ cur.is_current /\ cur \in CommandRow
    BY DEF CommandInv, ContextOK, CommandTypes
  <1>4. ASSUME NEW r \in old
        PROVE  /\ cur # None /\ r \in CommandRow /\ r.identity = i
               /\ r.generation = cur.generation
               /\ r.is_current = FALSE /\ r.state = "superseded"
               /\ ExecutionOf(r) = ExecutionOf(cur)
    <2>1. cur # None /\ r = Superseded(cur)
      OBVIOUS
    <2>2. cur \in CommandRow /\ cur.identity = i
      BY <1>3, <2>1
    <2> HIDE DEF cur
    <2>3. QED
      BY <2>1, <2>2, SupersededRow
  <1>5. command' = (command \ {cur}) \cup {row} \cup old
    BY DEF ExitNew
  <1>6. executed' = [executed EXCEPT ![i] = Append(executed[i], ExecutionOf(row))]
    BY <1>2 DEF ExitNew
  <1>7. context' = [context EXCEPT ![s] = NoContext] /\ UNCHANGED <<now, pruner>>
    BY DEF ExitNew
  <1>8. /\ executed \in [Identities -> Seq(Promise!Execution)] /\ now \in Nat
        /\ executed[i] \in Seq(Promise!Execution) /\ command \subseteq CommandRow
        /\ context \in [Sessions -> Context]
    BY <1>2 DEF CommandInv, CommandTypes
  <1>9. ExecutionOf(row) \in Promise!Execution
    BY <1>2 DEF ExecutionOf, Promise!Execution, CommandRow
  <1>10. /\ n \in Nat /\ DOMAIN executed[i] = 1 .. n
         /\ executed' \in [Identities -> Seq(Promise!Execution)]
         /\ DOMAIN executed'[i] = 1 .. n + 1 /\ Len(executed'[i]) = n + 1
         /\ executed'[i][n + 1] = ExecutionOf(row)
         /\ \A k \in 1 .. n : executed'[i][k] = executed[i][k]
         /\ \A j \in Identities \ {i} : executed'[j] = executed[j]
    BY <1>2, <1>6, <1>8, <1>9
  <1> HIDE DEF old
  <1>11. CommandTypes'
    <2>1. \A p \in Pruners : pruner[p] \subseteq command \ {cur}
      BY DEF CommandInv, CommandTypes, LocksOK
    <2>2. pruner' \in [Pruners -> SUBSET command']
      BY <1>5, <1>7, <2>1 DEF CommandInv, CommandTypes
    <2>3. command' \subseteq CommandRow
      BY <1>2, <1>4, <1>5, <1>8
    <2>4. context' \in [Sessions -> Context]
      BY <1>7, <1>8, NoContextOK
    <2>5. QED
      BY <1>7, <1>8, <1>10, <2>2, <2>3, <2>4 DEF CommandTypes
  <1>12. LocksOK'
    <2>1. \A p \in Pruners : None \notin pruner[p]
      BY NoneAssumption DEF CommandInv, CommandTypes
    <2>2. \A t \in Sessions : context'[t] = IF t = s THEN NoContext ELSE context[t]
      BY <1>7, <1>8
    <2>3. QED
      BY <1>7, <2>1, <2>2, NoContextOK DEF CommandInv, LocksOK, HoldsLock
  <1>13. WindowsOK'
    <2> SUFFICES ASSUME NEW j \in Identities
                 PROVE  /\ \A k \in DOMAIN executed'[j] : executed'[j][k].from <= now
                        /\ \A k, l \in DOMAIN executed'[j] :
                             k < l => executed'[j][k].until <= executed'[j][l].from
                        /\ (executed'[j] # <<>> /\ now < executed'[j][Len(executed'[j])].until) =>
                             \E r \in command' : r.identity = j /\ r.is_current
      BY <1>7 DEF WindowsOK
    <2>1. CASE j = i
      <3>1. ExecutionOf(row).from = row.created_at
        BY DEF ExecutionOf
      <3>2. \A k \in 1 .. n : executed[i][k].from <= now /\ executed[i][k].until <= row.created_at
        BY <1>2, <1>10 DEF CommandInv, WindowsOK
      <3>3. \A k, l \in 1 .. n : k < l => executed[i][k].until <= executed[i][l].from
        BY <1>2, <1>10 DEF CommandInv, WindowsOK
      <3>4. \A k \in DOMAIN executed'[i] : executed'[i][k].from <= now
        <4>1. \A k \in DOMAIN executed'[i] : k \in 1 .. n \/ k = n + 1
          BY <1>10
        <4>2. QED
          BY <1>2, <1>10, <3>1, <3>2, <4>1
      <3>5. \A k, l \in DOMAIN executed'[i] : k < l => executed'[i][k].until <= executed'[i][l].from
        <4>1. \A k, l \in DOMAIN executed'[i] :
                k < l => k \in 1 .. n /\ (l \in 1 .. n \/ l = n + 1)
          BY <1>10
        <4>2. QED
          BY <1>10, <3>1, <3>2, <3>3, <4>1
      <3>6. row \in command' /\ row.identity = i /\ row.is_current
        BY <1>2, <1>5
      <3>7. QED
        BY <2>1, <3>4, <3>5, <3>6
    <2>2. CASE j # i
      <3>1. executed'[j] = executed[j]
        BY <1>10, <2>2
      <3>2. \A r \in command : r.identity = j => r \in command'
        BY <1>3, <1>5, <1>8, <2>2, NoneAssumption
      <3>3. QED
        BY <3>1, <3>2 DEF CommandInv, WindowsOK
    <2>3. QED
      BY <2>1, <2>2
  <1>14. RowsAreExecutions'
    <2>1. ASSUME NEW r \in command'
          PROVE  r.state = (IF r.is_current THEN "completed" ELSE "superseded")
      BY <1>1, <1>2, <1>4, <1>5, <2>1 DEF CommandInv, RowsAreExecutions
    <2>2. ASSUME NEW r \in command', r.identity # i
          PROVE  r \in command
      BY <1>2, <1>4, <1>5, <2>2
    <2>3. \A r \in command \ {cur} : r.identity = i => ~r.is_current
      BY <1>2, <1>3 DEF CommandInv, RowsAreExecutions
    <2>6. ASSUME NEW q \in command, q.identity = i
          PROVE  \E k \in 1 .. n : executed[i][k] = ExecutionOf(q)
      <3>1. PICK k \in DOMAIN executed[q.identity] : executed[q.identity][k] = ExecutionOf(q)
        BY DEF CommandInv, RowsAreExecutions
      <3>2. k \in 1 .. n
        BY <1>10, <2>6, <3>1
      <3>3. QED
        BY <2>6, <3>1, <3>2
    <2>4. ASSUME NEW r \in command'
          PROVE  \E k \in DOMAIN executed'[r.identity] :
                   /\ executed'[r.identity][k] = ExecutionOf(r)
                   /\ r.is_current <=> k = Len(executed'[r.identity])
      <3>1. CASE r.identity # i
        <4>1. r \in command /\ r.identity \in Identities \ {i}
          BY <1>8, <2>2, <3>1 DEF CommandRow
        <4>2. executed'[r.identity] = executed[r.identity]
          BY <1>10, <4>1
        <4>3. QED
          BY <4>1, <4>2 DEF CommandInv, RowsAreExecutions
      <3>2. CASE r = row
        BY <1>2, <1>10, <3>2
      <3>3. CASE r \in command \ {cur} /\ r.identity = i
        <4>1. PICK k \in 1 .. n : executed[i][k] = ExecutionOf(r)
          BY <2>6, <3>3
        <4>2. k \in DOMAIN executed'[i] /\ executed'[i][k] = ExecutionOf(r) /\ k # Len(executed'[i])
          BY <1>10, <4>1
        <4>3. QED
          BY <2>3, <3>3, <4>2
      <3>4. CASE r \in old
        <4>1. cur \in command /\ cur.identity = i
          BY <1>3, <1>4, <3>4
        <4>2. PICK k \in 1 .. n : executed[i][k] = ExecutionOf(cur)
          BY <2>6, <4>1
        <4>3. k \in DOMAIN executed'[i] /\ executed'[i][k] = ExecutionOf(r) /\ k # Len(executed'[i])
          <5>1. ExecutionOf(r) = ExecutionOf(cur)
            BY <1>4, <3>4
          <5>2. QED
            BY <1>10, <4>2, <5>1
        <4>4. QED
          BY <1>4, <3>4, <4>3
      <3>5. QED
        BY <1>5, <3>1, <3>2, <3>3, <3>4
    <2>5. ASSUME NEW r \in command', NEW q \in command', q # r, q.identity = r.identity
          PROVE  q.generation # r.generation /\ ~(q.is_current /\ r.is_current)
      <3>1. CASE r.identity # i
        BY <2>2, <2>5, <3>1 DEF CommandInv, RowsAreExecutions
      <3>2. CASE r.identity = i
        <4>1. \A a \in command \ {cur} : a.identity = i =>
                /\ ~a.is_current
                /\ a.generation # row.generation
                /\ cur # None => a.generation # cur.generation
          BY <1>2, <1>3, <2>3 DEF CommandInv, RowsAreExecutions
        <4>2. \A a, b \in command \ {cur} : a.identity = i /\ b.identity = i /\ a # b =>
                a.generation # b.generation
          BY DEF CommandInv, RowsAreExecutions
        <4>3. cur # None => cur.generation # row.generation
          BY <1>2, <1>3
        <4>4. \A a, b \in old : a = b
          BY DEF old
        <4>5. QED
          BY <1>4, <1>5, <2>5, <3>2, <4>1, <4>2, <4>3, <4>4
      <3>3. QED
        BY <3>1, <3>2
    <2>7. QED
      BY <2>1, <2>4, <2>5 DEF RowsAreExecutions
  <1>15. ASSUME NEW t \in Sessions PROVE ContextOK(context[t])'
    <2>1. CASE t = s
      BY <1>7, <1>8, <2>1, NoContextOK DEF ContextOK
    <2>2. CASE t # s
      <3>1. context'[t] = context[t] /\ ContextOK(context[t]) /\ context[t] \in Context
        BY <1>7, <1>8, <2>2 DEF CommandInv
      <3>2. CASE HoldsLock(t)
        <4>1. context[t].identity # i
          BY <1>1, <2>2, <3>2, LockKept
        <4>2. \A r : r.identity = context[t].identity => (r \in command' <=> r \in command)
          <5>1. cur \in command => cur.identity = i
            BY <1>3, <1>8, NoneAssumption
          <5> HIDE DEF cur, row, i
          <5>2. QED
            BY <1>2, <1>4, <1>5, <4>1, <5>1
        <4>3. context[t].identity \in Identities
          BY <3>1, <3>2 DEF ContextOK, HoldsLock
        <4>4. executed'[context[t].identity] = executed[context[t].identity]
          BY <1>10, <4>1, <4>3
        <4>5. QED
          BY <1>7, <3>1, <4>2, <4>4 DEF ContextOK, RowOK
      <3>3. CASE ~HoldsLock(t)
        BY <3>1, <3>3 DEF ContextOK, HoldsLock, Context
      <3>4. QED
        BY <3>2, <3>3
    <2>3. QED
      BY <2>1, <2>2
  <1>16. QED
    BY <1>11, <1>12, <1>13, <1>14, <1>15 DEF CommandInv

-----------------------------------------------------------------------------
\* A pruner locks rows that have expired and that nobody else has locked.
LEMMA PruneLockStep ==
  ASSUME CutoffLead = 0, CommandInv, NEW p \in Pruners, NEW cutoff \in Nat,
         NEW batch \in SUBSET command, PruneLock(p, cutoff, batch)
  PROVE  CommandInv'
  <1>1. /\ pruner' = [pruner EXCEPT ![p] = batch]
        /\ UNCHANGED <<now, command, context, executed>>
    BY DEF PruneLock
  <1>2. now \in Nat /\ command \subseteq CommandRow /\ pruner \in [Pruners -> SUBSET command]
    BY DEF CommandInv, CommandTypes
  <1>3. \A r \in batch : r \in command /\ r.expires_at <= cutoff
                        /\ r \notin PrunerLocked /\ r \notin CommandLocked
    BY DEF PruneLock, Prunable
  <1>4. cutoff <= now
    BY <1>2 DEF PruneLock
  <1>5. \A r \in batch : r.expires_at <= now
    BY <1>2, <1>3, <1>4 DEF CommandRow
  <1>6. \A q \in Pruners : pruner[q] \cap batch = {}
    BY <1>3 DEF PrunerLocked
  <1>7. \A t \in Sessions : context[t].current \notin batch
    BY <1>2, <1>3, NoneAssumption DEF CommandLocked
  <1>8. \A q \in Pruners : pruner'[q] = IF q = p THEN batch ELSE pruner[q]
    BY <1>1, <1>2
  <1>9. CommandTypes'
    BY <1>1, <1>2 DEF CommandInv, CommandTypes
  <1>10. LocksOK'
    BY <1>1, <1>5, <1>6, <1>7, <1>8 DEF CommandInv, LocksOK, HoldsLock
  <1>11. QED
    BY <1>1, <1>9, <1>10 DEF CommandInv, WindowsOK, RowsAreExecutions, ContextOK, RowOK

\* A pruning transaction ends, and the rows in gone, all of them locked by it,
\* are deleted.
LEMMA PruneEndStep ==
  ASSUME CommandInv, NEW p \in Pruners, NEW gone \in SUBSET pruner[p],
         command' = command \ gone,
         pruner' = [pruner EXCEPT ![p] = {}],
         UNCHANGED <<now, context, executed>>
  PROVE  CommandInv'
  <1>1. now \in Nat /\ command \subseteq CommandRow /\ pruner \in [Pruners -> SUBSET command]
    BY DEF CommandInv, CommandTypes
  <1>2. \A q \in Pruners : pruner'[q] = IF q = p THEN {} ELSE pruner[q]
    BY <1>1
  <1>3. \A q \in Pruners \ {p} : pruner[q] \cap gone = {}
    BY DEF CommandInv, LocksOK
  <1>4. \A r \in gone : r.expires_at <= now
    BY DEF CommandInv, LocksOK
  <1>5. \A t \in Sessions : context[t].current \notin gone
    BY DEF CommandInv, LocksOK
  <1>6. CommandTypes'
    <2>1. pruner' \in [Pruners -> SUBSET command']
      BY <1>1, <1>2, <1>3
    <2>2. QED
      BY <1>1, <2>1 DEF CommandInv, CommandTypes
  <1>7. LocksOK'
    BY <1>2 DEF CommandInv, LocksOK, HoldsLock
  <1>8. WindowsOK'
    <2> SUFFICES ASSUME NEW i \in Identities, executed[i] # <<>>,
                        now < executed[i][Len(executed[i])].until
                 PROVE  \E r \in command' : r.identity = i /\ r.is_current
      BY DEF CommandInv, WindowsOK
    <2>1. PICK r \in command : r.identity = i /\ r.is_current
      BY DEF CommandInv, WindowsOK
    <2>2. executed[i][Len(executed[i])] = ExecutionOf(r)
      BY <2>1, CurrentIsLatest
    <2>3. now < r.expires_at /\ r.expires_at \in Nat
      BY <1>1, <2>2 DEF ExecutionOf, CommandRow
    <2>4. r \notin gone
      BY <1>1, <1>4, <2>3
    <2>5. QED
      BY <2>1, <2>4
  <1>9. RowsAreExecutions'
    BY DEF CommandInv, RowsAreExecutions
  <1>10. ASSUME NEW t \in Sessions PROVE ContextOK(context[t])'
    BY <1>5 DEF CommandInv, ContextOK, RowOK
  <1>11. QED
    BY <1>6, <1>7, <1>8, <1>9, <1>10 DEF CommandInv

\* Time passes.
LEMMA TickStep ==
  ASSUME CommandInv, Tick
  PROVE  CommandInv'
  <1>1. now \in Nat /\ now' = now + 1 /\ UNCHANGED <<command, context, pruner, executed>>
    BY DEF CommandInv, CommandTypes, Tick
  <1>2. command \subseteq CommandRow /\ \A i \in Identities : executed[i] \in Seq(Promise!Execution)
    BY DEF CommandInv, CommandTypes
  <1>3. \A i \in Identities : \A k \in DOMAIN executed[i] :
          executed[i][k].from \in Nat /\ executed[i][k].until \in Nat
    <2>1. \A i \in Identities : \A k \in DOMAIN executed[i] : executed[i][k] \in Promise!Execution
      BY <1>2
    <2>2. QED
      BY <2>1 DEF Promise!Execution
  <1>4. CommandTypes'
    BY <1>1 DEF CommandInv, CommandTypes
  <1>5. LocksOK'
    <2>1. \A p \in Pruners : \A r \in pruner[p] : r.expires_at \in Nat /\ r.expires_at <= now
      BY <1>2 DEF CommandInv, CommandTypes, LocksOK, CommandRow
    <2>2. QED
      BY <1>1, <2>1 DEF CommandInv, LocksOK, HoldsLock
  <1>6. WindowsOK'
    <2>1. \A i \in Identities : executed[i] # <<>> =>
            Len(executed[i]) \in DOMAIN executed[i]
      BY <1>2
    <2>2. QED
      BY <1>1, <1>3, <2>1 DEF CommandInv, WindowsOK
  <1>7. RowsAreExecutions'
    BY <1>1 DEF CommandInv, RowsAreExecutions
  <1>8. ASSUME NEW t \in Sessions PROVE ContextOK(context[t])'
    BY <1>1 DEF CommandInv, ContextOK, RowOK, CommandRow
  <1>9. QED
    BY <1>4, <1>5, <1>6, <1>7, <1>8 DEF CommandInv

\* The invariant mentions only the variables of commands.
LEMMA CommandVarsKept ==
  ASSUME CommandInv, UNCHANGED commandVars
  PROVE  CommandInv'
  BY DEF CommandInv, commandVars, CommandTypes, LocksOK, HoldsLock, WindowsOK,
         RowsAreExecutions, ContextOK, RowOK

\* Every step keeps the invariant.
LEMMA CommandInvStep ==
  ASSUME CutoffLead = 0, CommandInv, [Next]_vars
  PROVE  CommandInv'
  <1>1. ASSUME NEW s \in Sessions, CommandStep(s)
        PROVE  CommandInv'
    <2>1. CASE \E i \in Identities, f \in Forms, ttl \in Ttls : Ask(s, i, f, ttl)
      BY <2>1, AskStep
    <2>2. CASE AcquireFails(s) \/ AcquireRefused(s) \/ ExitReplay(s) \/ ExitFailed(s)
      BY <2>2, RequestEnds DEF AcquireFails, AcquireRefused, ExitReplay, ExitFailed
    <2>3. CASE CommandEmit(s)
      BY <2>3, CommandVarsKept DEF CommandEmit
    <2>4. CASE \E r \in Responses : Complete(s, r)
      BY <2>4, CompleteStep
    <2>5. QED
      BY <1>1, <2>1, <2>2, <2>3, <2>4, LockStep, NewStep, ReplayStep, ExitStep DEF CommandStep
  <1>2. ASSUME NEW s \in Sessions, UnitOfWorkStep(s)
        PROVE  CommandInv'
    BY <1>2, CommandVarsKept DEF UnitOfWorkStep
  <1>3. ASSUME NEW p \in Pruners, NEW cutoff \in 0 .. MaxTime + CutoffLead,
               NEW batch \in SUBSET command, PruneLock(p, cutoff, batch)
        PROVE  CommandInv'
    BY <1>3, PruneLockStep, CommandAssumption
  <1>4. ASSUME NEW p \in Pruners, PruneCommit(p) \/ PruneAbort(p)
        PROVE  CommandInv'
    <2>1. CASE PruneCommit(p)
      BY <2>1, PruneEndStep DEF PruneCommit
    <2>2. CASE PruneAbort(p)
      <3>1. command' = command \ {} /\ {} \in SUBSET pruner[p]
        BY <2>2 DEF PruneAbort
      <3>2. QED
        BY <2>2, <3>1, PruneEndStep DEF PruneAbort
    <2>3. QED
      BY <1>4, <2>1, <2>2
  <1>5. CASE UNCHANGED commandVars
    BY <1>5, CommandVarsKept
  <1>6. CASE UNCHANGED vars
    BY <1>6, CommandVarsKept DEF vars
  <1>7. QED
    BY <1>1, <1>2, <1>3, <1>4, <1>5, <1>6, TickStep DEF Next

\* The ledger starts without rows, requests and executions.
LEMMA CommandInvInit == Init => CommandInv
  <1> SUFFICES ASSUME Init PROVE CommandInv
    OBVIOUS
  <1>1. CommandTypes
    BY NoContextOK DEF Init, CommandTypes
  <1>2. \A s \in Sessions : context[s] = NoContext
    BY DEF Init
  <1>3. LocksOK
    BY <1>2, NoContextOK DEF Init, LocksOK, HoldsLock
  <1>4. WindowsOK
    BY DEF Init, WindowsOK
  <1>5. RowsAreExecutions
    BY DEF Init, RowsAreExecutions
  <1>6. \A s \in Sessions : ContextOK(context[s])
    BY <1>2, NoContextOK DEF ContextOK
  <1>7. QED
    BY <1>1, <1>3, <1>4, <1>5, <1>6 DEF CommandInv

\* While no cutoff is ahead of the database clock, CommandInv is an invariant.
LEMMA CommandInvariant ==
  ASSUME CutoffLead = 0
  PROVE  Spec => []CommandInv
  <1>1. CommandInv /\ [Next]_vars => CommandInv'
    BY CommandInvStep
  <1>2. QED
    BY <1>1, CommandInvInit, PTL DEF Spec

\* The retained rows of an identity are records of its committed executions, the
\* current one of the latest; no generation occurs twice and nothing durable is
\* in progress, for any number of requests, colliding locks and pruners.
THEOREM RowsRecordExecutions ==
  ASSUME CutoffLead = 0
  PROVE  Spec => []RowsAreExecutions
  <1>1. CommandInv => RowsAreExecutions
    BY DEF CommandInv
  <1>2. QED
    BY <1>1, CommandInvariant, PTL

-----------------------------------------------------------------------------
\* The commit of a command is an execution whose window follows all others.
LEMMA ExitExecutes ==
  ASSUME CommandInv, NEW s \in Sessions, ExitNew(s)
  PROVE  Promise!Executes
  <1> DEFINE c == context[s]
             i == c.identity
             row == c.row
  <1>1. c.phase = "new" /\ row.state = "completed"
    BY DEF ExitNew
  <1>2. /\ i \in Identities /\ c.form \in Forms /\ c.ttl \in Ttls
        /\ row \in CommandRow /\ row.identity = i /\ row.form = c.form
        /\ row.created_at <= now /\ row.expires_at = row.created_at + c.ttl
        /\ row.response \in Responses
        /\ \A k \in DOMAIN executed[i] : executed[i][k].until <= row.created_at
    BY <1>1 DEF CommandInv, ContextOK, RowOK
  <1>3. row.created_at \in 0 .. now
    BY <1>2 DEF CommandRow, CommandInv, CommandTypes
  <1>4. ExecutionOf(row) = [form |-> c.form, response |-> row.response,
                            from |-> row.created_at, until |-> row.created_at + c.ttl]
    BY <1>2 DEF ExecutionOf
  <1>5. executed' = [executed EXCEPT ![i] = Append(executed[i],
          [form |-> c.form, response |-> row.response,
           from |-> row.created_at, until |-> row.created_at + c.ttl])]
    BY <1>2, <1>4 DEF ExitNew
  <1>6. reply' = [kind |-> "executed", identity |-> i, form |-> c.form,
                  response |-> row.response] /\ UNCHANGED now
    BY <1>2 DEF ExitNew
  <1> HIDE DEF c, i, row
  <1>7. QED
    BY <1>2, <1>3, <1>5, <1>6 DEF Promise!Executes

\* A current row that has not expired is the live execution.
LEMMA CurrentIsLive ==
  ASSUME CommandInv, NEW i \in Identities, NEW r \in Current(i) \ {None}, ~Expired(r)
  PROVE  /\ r.identity = i /\ r.state = "completed"
         /\ r.form \in Forms /\ r.response \in Responses
         /\ \E k \in Promise!Live(i) :
              executed[i][k].form = r.form /\ executed[i][k].response = r.response
  <1>1. r \in command /\ r.identity = i /\ r.is_current /\ r \in CommandRow
    BY FoundRow
  <1> DEFINE k == Len(executed[i])
  <1>2. k \in DOMAIN executed[i] /\ executed[i][k] = ExecutionOf(r)
    BY <1>1, CurrentIsLatest
  <1>3. now < r.expires_at
    BY <1>1 DEF Expired, CommandRow, CommandInv, CommandTypes
  <1>4. /\ executed[i][k].until = r.expires_at /\ executed[i][k].form = r.form
        /\ executed[i][k].response = r.response
    BY <1>2 DEF ExecutionOf
  <1>5. k \in Promise!Live(i)
    BY <1>2, <1>3, <1>4 DEF Promise!Live
  <1>6. QED
    BY <1>1, <1>4, <1>5, CurrentIsLatest

\* A replay answers with the live execution.
LEMMA ReplayReplays ==
  ASSUME CommandInv, NEW s \in Sessions, AcquireReplay(s)
  PROVE  Promise!Replays
  <1>1. context[s].identity \in Identities
    BY ContextFields DEF AcquireReplay
  <1>2. PICK r \in Current(context[s].identity) \ {None} :
          /\ ~Expired(r)
          /\ reply' = [kind |-> "replayed", identity |-> r.identity, form |-> r.form,
                       response |-> r.response]
    BY DEF AcquireReplay
  <1>3. r.identity = context[s].identity
    BY <1>1, <1>2, CurrentIsLive
  <1>4. PICK k \in Promise!Live(context[s].identity) :
          /\ executed[context[s].identity][k].form = r.form
          /\ executed[context[s].identity][k].response = r.response
    BY <1>1, <1>2, CurrentIsLive
  <1>5. UNCHANGED <<now, executed>>
    BY DEF AcquireReplay
  <1>6. QED
    BY <1>1, <1>2, <1>3, <1>4, <1>5 DEF Promise!Replays

\* A refusal has a live execution of another form.
LEMMA RefusalRefuses ==
  ASSUME CommandInv, NEW s \in Sessions, AcquireRefused(s)
  PROVE  Promise!Refuses
  <1>1. context[s].identity \in Identities /\ context[s].form \in Forms
    BY ContextFields DEF AcquireRefused
  <1>2. PICK r \in Current(context[s].identity) \ {None} :
          ~Expired(r) /\ (r.form # context[s].form \/ r.state # "completed")
    BY DEF AcquireRefused
  <1>3. r.form # context[s].form
    BY <1>1, <1>2, CurrentIsLive
  <1>4. PICK k \in Promise!Live(context[s].identity) :
          executed[context[s].identity][k].form = r.form
    BY <1>1, <1>2, CurrentIsLive
  <1>5. reply' = [kind |-> "refused", identity |-> context[s].identity,
                  form |-> context[s].form] /\ UNCHANGED <<now, executed>>
    BY DEF AcquireRefused, Failed
  <1>6. QED
    BY <1>1, <1>3, <1>4, <1>5 DEF Promise!Refuses

\* Every step of the ledger is a step of the promise, or invisible to it.
LEMMA PromiseStep ==
  ASSUME CommandInv, [Next]_vars
  PROVE  [Promise!PromiseNext]_Promise!promiseVars
  <1>1. ASSUME NEW s \in Sessions, AcquireFails(s) \/ ExitFailed(s)
        PROVE  Promise!Fails
    <2>1. context[s].phase # "idle"
      BY <1>1 DEF AcquireFails, ExitFailed
    <2>2. context[s].identity \in Identities /\ context[s].form \in Forms
      BY <2>1, ContextFields
    <2>3. QED
      BY <1>1, <2>2 DEF AcquireFails, ExitFailed, Failed, Promise!Fails
  <1>2. ASSUME NEW s \in Sessions, CommandStep(s)
        PROVE  Promise!PromiseNext
    <2>1. CASE ExitNew(s) \/ AcquireReplay(s) \/ AcquireRefused(s) \/ AcquireFails(s) \/ ExitFailed(s)
      BY <1>1, <2>1, ExitExecutes, ReplayReplays, RefusalRefuses DEF Promise!PromiseNext
    <2>2. CASE \E i \in Identities, f \in Forms, ttl \in Ttls : Ask(s, i, f, ttl)
      BY <2>2 DEF Ask, Quiet, Promise!Silence, Promise!PromiseNext
    <2>3. CASE AcquireLock(s) \/ AcquireNew(s) \/ CommandEmit(s) \/ ExitReplay(s)
      BY <2>3 DEF AcquireLock, AcquireNew, CommandEmit, ExitReplay, commandVars, Quiet,
                  Promise!Silence, Promise!PromiseNext
    <2>4. CASE \E r \in Responses : Complete(s, r)
      BY <2>4 DEF Complete, Quiet, Promise!Silence, Promise!PromiseNext
    <2>5. QED
      BY <1>2, <2>1, <2>2, <2>3, <2>4 DEF CommandStep
  <1>3. ASSUME NEW s \in Sessions, UnitOfWorkStep(s)
        PROVE  Promise!PromiseNext
    BY <1>3 DEF UnitOfWorkStep, commandVars, Quiet, Promise!Silence, Promise!PromiseNext
  <1>4. ASSUME NEW p \in Pruners, NEW cutoff \in 0 .. MaxTime + CutoffLead,
               NEW batch \in SUBSET command, PruneLock(p, cutoff, batch)
        PROVE  Promise!PromiseNext
    BY <1>4 DEF PruneLock, Quiet, Promise!Silence, Promise!PromiseNext
  <1>5. ASSUME NEW p \in Pruners, PruneCommit(p) \/ PruneAbort(p)
        PROVE  Promise!PromiseNext
    BY <1>5 DEF PruneCommit, PruneAbort, Quiet, Promise!Silence, Promise!PromiseNext
  <1>6. CASE Retention /\ Quiet /\ UNCHANGED commandVars
    BY <1>6 DEF commandVars, Quiet, Promise!Silence, Promise!PromiseNext
  <1>7. CASE Tick
    BY <1>7 DEF Tick, Quiet, Promise!Passes, Promise!PromiseNext
  <1>8. CASE UNCHANGED vars
    BY <1>8 DEF vars, commandVars, Promise!promiseVars
  <1>9. QED
    BY <1>2, <1>3, <1>4, <1>5, <1>6, <1>7, <1>8 DEF Next

\* The command ledger implements IdempotentCommands: within its window an
\* identity is executed once, replays give the stored response and refusals name
\* another form, whatever duplicates, rollbacks, expiry and overlapping prunes do.
THEOREM LedgerKeepsPromise ==
  ASSUME CutoffLead = 0
  PROVE  Spec => KeepsPromise
  <1>1. Init => Promise!PromiseInit
    BY DEF Init, Promise!PromiseInit
  <1>2. CommandInv /\ [Next]_vars => [Promise!PromiseNext]_Promise!promiseVars
    BY PromiseStep
  <1>3. QED
    BY <1>1, <1>2, CommandInvariant, PTL DEF Spec, KeepsPromise, Promise!PromiseSpec

-----------------------------------------------------------------------------
(* Publication.  CommandInv is needed only for the origin of a command's events. *)

\* A row that is not committed belongs to an open transaction.
PendingOK ==
  \A e \in EventIds : event[e] # None /\ event[e].status = "pending" =>
    event[e].by \in Sessions /\ uow[event[e].by].active

PubTypes ==
  /\ event \in [EventIds -> {None} \cup EventRow(Origin)]
  /\ uow \in [Sessions -> UnitOfWork]

PubInv == PubTypes /\ PendingOK /\ EmitIsBacked /\ OneDeliverySet

\* What the end of a transaction and retention write.
LEMMA CommittedRow ==
  ASSUME NEW row \in EventRow(Origin)
  PROVE  /\ Committed(row) \in EventRow(Origin)
         /\ Committed(row).status = "committed"
         /\ Committed(row).content = row.content /\ Committed(row).key = row.key
         /\ Committed(row).origin = row.origin
         /\ Committed(row).deliveries = row.deliveries
         /\ Committed(row).original = row.original
  <1> DEFINE half == [row EXCEPT !.status = "committed"]
             full == [half EXCEPT !.by = None]
  <1>1. /\ half \in EventRow(Origin) /\ half.status = "committed"
        /\ half.content = row.content /\ half.key = row.key /\ half.origin = row.origin
        /\ half.deliveries = row.deliveries /\ half.original = row.original
    BY DEF EventRow
  <1>2. Committed(row) = full
    BY Zenon DEF Committed
  <1> HIDE DEF half
  <1>3. /\ full \in EventRow(Origin) /\ full.status = half.status
        /\ full.content = half.content /\ full.key = half.key /\ full.origin = half.origin
        /\ full.deliveries = half.deliveries /\ full.original = half.original
    BY <1>1 DEF EventRow
  <1> HIDE DEF full
  <1>4. QED
    BY <1>1, <1>2, <1>3

LEMMA PrunedRow ==
  ASSUME NEW row \in EventRow(Origin)
  PROVE  /\ Pruned(row) \in EventRow(Origin)
         /\ Pruned(row).status = "pruned"
         /\ Pruned(row).content = row.content /\ Pruned(row).key = row.key
         /\ Pruned(row).origin = row.origin
  <1> DEFINE half == [row EXCEPT !.status = "pruned"]
             full == [half EXCEPT !.original = {}]
  <1>1. /\ half \in EventRow(Origin) /\ half.status = "pruned"
        /\ half.content = row.content /\ half.key = row.key /\ half.origin = row.origin
    BY DEF EventRow
  <1>2. Pruned(row) = full
    BY Zenon DEF Pruned
  <1> HIDE DEF half
  <1>3. /\ full \in EventRow(Origin) /\ full.status = half.status
        /\ full.content = half.content /\ full.key = half.key /\ full.origin = half.origin
    BY <1>1 DEF EventRow
  <1> HIDE DEF full
  <1>4. QED
    BY <1>1, <1>2, <1>3

\* A step that only replaces units of work.
LEMMA UnitReplaced ==
  ASSUME PubInv, NEW s \in Sessions, NEW u \in UnitOfWork,
         uow' = [uow EXCEPT ![s] = u], UNCHANGED event, u.active,
         \A x \in u.returned :
           /\ event[x.event] # None
           /\ event[x.event].status = "pending" => event[x.event].by = s
           /\ event[x.event].content = x.content
  PROVE  PubInv'
  <1>1. \A t \in Sessions : uow'[t] = IF t = s THEN u ELSE uow[t]
    BY DEF PubInv, PubTypes
  <1>2. PubTypes'
    BY DEF PubInv, PubTypes
  <1>3. PendingOK'
    BY <1>1 DEF PubInv, PendingOK
  <1>4. EmitIsBacked'
    <2> SUFFICES ASSUME NEW t \in Sessions, NEW y \in uow'[t].returned
                 PROVE  /\ event[y.event] # None
                        /\ event[y.event].status = "pending" => event[y.event].by = t
                        /\ event[y.event].content = y.content
      BY DEF EmitIsBacked
    <2>1. CASE t = s
      <3>1. y \in u.returned
        BY <1>1, <2>1
      <3>2. QED
        BY <2>1, <3>1
    <2>2. CASE t # s
      <3>1. y \in uow[t].returned
        BY <1>1, <2>2
      <3>2. QED
        BY <3>1 DEF PubInv, EmitIsBacked
    <2>3. QED
      BY <2>1, <2>2
  <1>5. OneDeliverySet'
    BY DEF PubInv, OneDeliverySet
  <1>6. QED
    BY <1>2, <1>3, <1>4, <1>5 DEF PubInv

\* A transaction begins.
LEMMA EnterStep ==
  ASSUME PubInv, NEW s \in Sessions, Enter(s)
  PROVE  PubInv'
  <1> DEFINE u == [active |-> TRUE, returned |-> {}, conflict |-> None]
  <1>1. u \in UnitOfWork /\ u.active /\ u.returned = {}
    BY DEF UnitOfWork
  <1>2. uow' = [uow EXCEPT ![s] = u] /\ UNCHANGED event
    BY DEF Enter
  <1> HIDE DEF u
  <1>3. QED
    BY <1>1, <1>2, UnitReplaced

\* An insert found its key taken.
LEMMA ConflictStep ==
  ASSUME PubInv, NEW s \in Sessions, NEW content \in Contents, NEW key \in DedupeKeys,
         NEW provided \in Provided, EmitConflict(s, content, key, provided)
  PROVE  PubInv'
  <1> DEFINE u == [uow[s] EXCEPT !.conflict = [key |-> key, content |-> content]]
  <1>1. uow[s] \in UnitOfWork /\ uow[s].active
    BY DEF PubInv, PubTypes, EmitConflict, CanEmit
  <1>2. u \in UnitOfWork /\ u.active = uow[s].active /\ u.returned = uow[s].returned
    BY <1>1 DEF UnitOfWork
  <1>3. uow' = [uow EXCEPT ![s] = u] /\ UNCHANGED event
    BY DEF EmitConflict
  <1> HIDE DEF u
  <1>4. \A x \in u.returned :
          /\ event[x.event] # None
          /\ event[x.event].status = "pending" => event[x.event].by = s
          /\ event[x.event].content = x.content
    BY <1>2 DEF PubInv, EmitIsBacked
  <1>5. QED
    BY <1>1, <1>2, <1>3, <1>4, UnitReplaced

\* The conflict is resolved with an event that this transaction can rely on.
LEMMA ResolveStep ==
  ASSUME PubInv, NEW s \in Sessions, EmitResolve(s)
  PROVE  PubInv'
  <1> DEFINE asked == uow[s].conflict
             hit == {e \in Holders(asked.key, s) : event[e].content = asked.content}
             more == {[event |-> e, content |-> asked.content] : e \in hit}
             u == [active |-> TRUE, conflict |-> None, returned |-> uow[s].returned \cup more]
  <1>1. uow[s] \in UnitOfWork /\ asked # None /\ asked.content \in Contents
    BY DEF PubInv, PubTypes, EmitResolve, UnitOfWork
  <1>2. \A e \in hit :
          /\ e \in EventIds /\ event[e] # None
          /\ event[e].status = "pending" => event[e].by = s
          /\ event[e].content = asked.content
    BY DEF Holders, Visible, Durable, Pending
  <1>3. uow' = [uow EXCEPT ![s] = u] /\ UNCHANGED event
    BY DEF EmitResolve
  <1> HIDE DEF asked, hit
  <1>4. \A x \in more :
          /\ x \in [event : EventIds, content : Contents]
          /\ event[x.event] # None
          /\ event[x.event].status = "pending" => event[x.event].by = s
          /\ event[x.event].content = x.content
    BY <1>1, <1>2
  <1> HIDE DEF more
  <1>5. u \in UnitOfWork /\ u.active /\ u.returned = uow[s].returned \cup more
    BY <1>1, <1>4 DEF UnitOfWork
  <1> HIDE DEF u
  <1>6. \A x \in u.returned :
          /\ event[x.event] # None
          /\ event[x.event].status = "pending" => event[x.event].by = s
          /\ event[x.event].content = x.content
    BY <1>4, <1>5 DEF PubInv, EmitIsBacked
  <1>7. QED
    BY <1>3, <1>5, <1>6, UnitReplaced

\* An event goes in with its deliveries.
LEMMA InsertStep ==
  ASSUME PubInv, NEW s \in Sessions, NEW e \in EventIds, NEW content \in Contents,
         NEW key \in DedupeKeys \cup {None}, NEW provided \in Provided,
         NEW origin \in Origin, EmitInsert(s, e, content, key, provided, origin)
  PROVE  PubInv'
  <1> DEFINE row == [status |-> "pending", by |-> s, content |-> content, key |-> key,
                     origin |-> origin, deliveries |-> Matched(content, provided),
                     original |-> Matched(content, provided)]
             x == [event |-> e, content |-> content]
  <1>1. /\ event \in [EventIds -> {None} \cup EventRow(Origin)]
        /\ uow \in [Sessions -> UnitOfWork] /\ uow[s] \in UnitOfWork /\ uow[s].active
        /\ event[e] = None
    BY DEF PubInv, PubTypes, EmitInsert, CanEmit
  <1>2. Matched(content, provided) \subseteq Deliverable
    BY DEF Deliverable
  <1>3. row \in EventRow(Origin)
    BY <1>2 DEF EventRow
  <1>4. row # None
    BY <1>3, NoneAssumption
  <1>5. /\ event' = [event EXCEPT ![e] = row]
        /\ uow' = [uow EXCEPT ![s].returned = @ \cup {x}]
    BY DEF EmitInsert
  <1>6. \A f \in EventIds : event'[f] = IF f = e THEN row ELSE event[f]
    BY <1>1, <1>5
  <1>7. /\ row.status = "pending" /\ row.by = s /\ row.content = content /\ row.key = key
        /\ row.deliveries = row.original
    OBVIOUS
  <1>8. x \in [event : EventIds, content : Contents] /\ x.event = e /\ x.content = content
    OBVIOUS
  <1> HIDE DEF row, x
  <1>9. /\ uow' \in [Sessions -> UnitOfWork]
        /\ \A t \in Sessions : uow'[t].active = uow[t].active
        /\ \A t \in Sessions : uow'[t].returned =
             IF t = s THEN uow[s].returned \cup {x} ELSE uow[t].returned
    BY <1>1, <1>5, <1>8 DEF UnitOfWork
  <1>10. PubTypes'
    BY <1>1, <1>3, <1>5, <1>9 DEF PubTypes
  <1>11. PendingOK'
    BY <1>1, <1>6, <1>7, <1>9 DEF PubInv, PendingOK
  <1>12. EmitIsBacked'
    <2> SUFFICES ASSUME NEW t \in Sessions, NEW y \in uow'[t].returned
                 PROVE  /\ event'[y.event] # None
                        /\ event'[y.event].status = "pending" => event'[y.event].by = t
                        /\ event'[y.event].content = y.content
      BY DEF EmitIsBacked
    <2>1. CASE t = s /\ y = x
      BY <1>4, <1>6, <1>7, <1>8, <2>1
    <2>2. CASE y \in uow[t].returned
      <3>1. y.event \in EventIds
        BY <1>1, <2>2 DEF UnitOfWork
      <3>2. /\ event[y.event] # None
            /\ event[y.event].status = "pending" => event[y.event].by = t
            /\ event[y.event].content = y.content
        BY <2>2 DEF PubInv, EmitIsBacked
      <3>3. QED
        BY <1>1, <1>6, <3>1, <3>2
    <2>3. QED
      BY <1>9, <2>1, <2>2
  <1>13. OneDeliverySet'
    <2>1. ASSUME NEW f \in EventIds, event[f] # None, event[f].key = key, key # None
          PROVE  event[f].status = "pruned"
      <3>1. event[f] \in EventRow(Origin)
        BY <1>1, <2>1
      <3>2. f \notin Holders(key, s) /\ f \notin InFlight(key, s)
        BY <2>1 DEF EmitInsert
      <3>3. QED
        BY <2>1, <3>1, <3>2 DEF Holders, InFlight, Visible, Durable, Pending, EventRow
    <2>2. QED
      BY <1>4, <1>6, <1>7, <2>1 DEF PubInv, OneDeliverySet
  <1>14. QED
    BY <1>10, <1>11, <1>12, <1>13 DEF PubInv

\* A transaction commits.
LEMMA CommitStep ==
  ASSUME PubInv, NEW s \in Sessions, Commit(s)
  PROVE  PubInv'
  <1>1. /\ event \in [EventIds -> {None} \cup EventRow(Origin)]
        /\ uow \in [Sessions -> UnitOfWork]
    BY DEF PubInv, PubTypes
  <1>2. Idle \in UnitOfWork /\ Idle.returned = {}
    BY DEF Idle, UnitOfWork
  <1>3. \A t \in Sessions : uow'[t] = IF t = s THEN Idle ELSE uow[t]
    BY <1>1 DEF Commit
  <1>4. ASSUME NEW e \in EventIds
        PROVE  /\ ~Pending(e, s) => event'[e] = event[e]
               /\ Pending(e, s) => event'[e] = Committed(event[e])
               /\ event'[e] \in {None} \cup EventRow(Origin)
               /\ event[e] = None <=> event'[e] = None
               /\ event[e] # None => /\ event'[e].content = event[e].content
                                     /\ event'[e].key = event[e].key
                                     /\ event'[e].deliveries = event[e].deliveries
                                     /\ event'[e].original = event[e].original
               /\ Pending(e, s) => event'[e].status = "committed"
               /\ event[e] # None => (event'[e].status = "pruned" <=> event[e].status = "pruned")
    <2>1. event'[e] = IF Pending(e, s) THEN Committed(event[e]) ELSE event[e]
      BY DEF Commit
    <2>2. CASE Pending(e, s)
      <3>1. event[e] \in EventRow(Origin) /\ event[e] # None /\ event[e].status = "pending"
        BY <1>1, <2>2 DEF Pending
      <3>2. Committed(event[e]) # None
        BY <3>1, CommittedRow, NoneAssumption
      <3>3. QED
        BY <2>1, <2>2, <3>1, <3>2, CommittedRow
    <2>3. CASE ~Pending(e, s)
      BY <1>1, <2>1, <2>3
    <2>4. QED
      BY <2>2, <2>3
  <1>5. PubTypes'
    <2>1. event' = [e \in EventIds |->
            IF Pending(e, s) THEN Committed(event[e]) ELSE event[e]]
      BY DEF Commit
    <2>2. event' \in [EventIds -> {None} \cup EventRow(Origin)]
      BY <1>4, <2>1, Zenon
    <2>3. uow' \in [Sessions -> UnitOfWork]
      BY <1>1, <1>2 DEF Commit
    <2>4. QED
      BY <2>2, <2>3 DEF PubTypes
  <1>6. PendingOK'
    <2> SUFFICES ASSUME NEW e \in EventIds, event'[e] # None, event'[e].status = "pending"
                 PROVE  event'[e].by \in Sessions /\ uow'[event'[e].by].active
      BY DEF PendingOK
    <2>1. ~Pending(e, s) /\ event'[e] = event[e]
      BY <1>4
    <2>2. event[e].by \in Sessions /\ uow[event[e].by].active /\ event[e].by # s
      BY <2>1 DEF PubInv, PendingOK, Pending
    <2>3. QED
      BY <1>3, <2>1, <2>2
  <1>7. EmitIsBacked'
    <2> SUFFICES ASSUME NEW t \in Sessions, NEW y \in uow'[t].returned
                 PROVE  /\ event'[y.event] # None
                        /\ event'[y.event].status = "pending" => event'[y.event].by = t
                        /\ event'[y.event].content = y.content
      BY DEF EmitIsBacked
    <2>1. t # s /\ y \in uow[t].returned
      BY <1>2, <1>3
    <2>2. y.event \in EventIds
      BY <1>1, <2>1 DEF UnitOfWork
    <2>3. /\ event[y.event] # None
          /\ event[y.event].status = "pending" => event[y.event].by = t
          /\ event[y.event].content = y.content
      BY <2>1 DEF PubInv, EmitIsBacked
    <2>4. QED
      BY <1>4, <2>1, <2>2, <2>3 DEF Pending
  <1>8. OneDeliverySet'
    BY <1>4 DEF PubInv, OneDeliverySet
  <1>9. QED
    BY <1>5, <1>6, <1>7, <1>8 DEF PubInv

\* A transaction rolls back: only its own rows vanish, and nobody else was
\* given one of them.
LEMMA RollbackStep ==
  ASSUME PubInv, NEW s \in Sessions, Rollback(s)
  PROVE  PubInv'
  <1>1. /\ event \in [EventIds -> {None} \cup EventRow(Origin)]
        /\ uow \in [Sessions -> UnitOfWork]
    BY DEF PubInv, PubTypes
  <1>2. Idle \in UnitOfWork /\ Idle.returned = {}
    BY DEF Idle, UnitOfWork
  <1>3. \A t \in Sessions : uow'[t] = IF t = s THEN Idle ELSE uow[t]
    BY <1>1 DEF Rollback
  <1>4. \A e \in EventIds : event'[e] = IF Pending(e, s) THEN None ELSE event[e]
    BY DEF Rollback
  <1>5. PubTypes'
    BY <1>1, <1>2 DEF PubTypes, Rollback
  <1>6. PendingOK'
    <2> SUFFICES ASSUME NEW e \in EventIds, event'[e] # None, event'[e].status = "pending"
                 PROVE  event'[e].by \in Sessions /\ uow'[event'[e].by].active
      BY DEF PendingOK
    <2>1. ~Pending(e, s) /\ event'[e] = event[e]
      BY <1>4
    <2>2. event[e].by \in Sessions /\ uow[event[e].by].active /\ event[e].by # s
      BY <2>1 DEF PubInv, PendingOK, Pending
    <2>3. QED
      BY <1>3, <2>1, <2>2
  <1>7. EmitIsBacked'
    <2> SUFFICES ASSUME NEW t \in Sessions, NEW y \in uow'[t].returned
                 PROVE  /\ event'[y.event] # None
                        /\ event'[y.event].status = "pending" => event'[y.event].by = t
                        /\ event'[y.event].content = y.content
      BY DEF EmitIsBacked
    <2>1. t # s /\ y \in uow[t].returned
      BY <1>2, <1>3
    <2>2. y.event \in EventIds
      BY <1>1, <2>1 DEF UnitOfWork
    <2>3. /\ event[y.event] # None
          /\ event[y.event].status = "pending" => event[y.event].by = t
          /\ event[y.event].content = y.content
      BY <2>1 DEF PubInv, EmitIsBacked
    <2>4. QED
      BY <1>4, <2>1, <2>2, <2>3 DEF Pending
  <1>8. OneDeliverySet'
    BY <1>4 DEF PubInv, OneDeliverySet
  <1>9. QED
    BY <1>5, <1>6, <1>7, <1>8 DEF PubInv

\* Retention shrinks the deliveries of a committed event or deletes the event.
LEMMA RetentionStep ==
  ASSUME PubInv, Retention
  PROVE  PubInv'
  <1>1. /\ event \in [EventIds -> {None} \cup EventRow(Origin)]
        /\ uow \in [Sessions -> UnitOfWork]
    BY DEF PubInv, PubTypes
  <1>2. PICK e \in EventIds : RetainDeliveries(e) \/ RetainEvent(e)
    BY DEF Retention
  <1>3. event[e] \in EventRow(Origin) /\ event[e] # None /\ event[e].status = "committed"
    BY <1>1, <1>2 DEF RetainDeliveries, RetainEvent, Durable
  <1>4. PICK row \in EventRow(Origin) :
          /\ event' = [event EXCEPT ![e] = row]
          /\ row.status # "pending" /\ row.content = event[e].content /\ row.key = event[e].key
          /\ \/ row.status = "pruned"
             \/ /\ row.status = "committed" /\ row.original = event[e].original
                /\ row.deliveries \subseteq event[e].deliveries
                /\ \A r \in event[e].deliveries \ row.deliveries : r.destination_kind = "webhook"
    <2>1. CASE RetainDeliveries(e)
      <3>1. PICK gone \in SUBSET {r \in event[e].deliveries : r.destination_kind = "webhook"} :
              event' = [event EXCEPT ![e].deliveries = @ \ gone]
        BY <2>1 DEF RetainDeliveries
      <3> DEFINE row == [event[e] EXCEPT !.deliveries = @ \ gone]
      <3>2. /\ row \in EventRow(Origin) /\ row.status = event[e].status
            /\ row.content = event[e].content /\ row.key = event[e].key
            /\ row.original = event[e].original /\ row.deliveries = event[e].deliveries \ gone
        BY <1>3 DEF EventRow
      <3>3. event' = [event EXCEPT ![e] = row]
        BY <3>1
      <3> HIDE DEF row
      <3>4. QED
        BY <1>3, <3>2, <3>3
    <2>2. CASE RetainEvent(e)
      <3>1. event' = [event EXCEPT ![e] = Pruned(event[e])]
        BY <2>2 DEF RetainEvent
      <3>2. QED
        BY <1>3, <3>1, PrunedRow
    <2>3. QED
      BY <1>2, <2>1, <2>2
  <1>5. row # None /\ UNCHANGED uow
    BY <1>2, <1>4, NoneAssumption DEF RetainDeliveries, RetainEvent
  <1>6. \A f \in EventIds : event'[f] = IF f = e THEN row ELSE event[f]
    BY <1>1, <1>4
  <1>7. PubTypes'
    BY <1>1, <1>4, <1>5 DEF PubTypes
  <1>8. PendingOK'
    BY <1>4, <1>5, <1>6 DEF PubInv, PendingOK
  <1>9. EmitIsBacked'
    <2> SUFFICES ASSUME NEW t \in Sessions, NEW y \in uow[t].returned
                 PROVE  /\ event'[y.event] # None
                        /\ event'[y.event].status = "pending" => event'[y.event].by = t
                        /\ event'[y.event].content = y.content
      BY <1>5 DEF EmitIsBacked
    <2>1. y.event \in EventIds
      BY <1>1 DEF UnitOfWork
    <2>2. /\ event[y.event] # None
          /\ event[y.event].status = "pending" => event[y.event].by = t
          /\ event[y.event].content = y.content
      BY DEF PubInv, EmitIsBacked
    <2>3. QED
      BY <1>4, <1>5, <1>6, <2>1, <2>2
  <1>10. OneDeliverySet'
    BY <1>3, <1>4, <1>5, <1>6 DEF PubInv, OneDeliverySet
  <1>11. QED
    BY <1>7, <1>8, <1>9, <1>10 DEF PubInv

\* Sessions that work on a command have a transaction, and the intent of an open
\* command carries its identity.
IntentInv ==
  /\ \A s \in Sessions : context[s].phase # "idle" => uow[s].active
  /\ \A e \in EventIds :
       event[e] # None /\ event[e].status = "pending" /\ event[e].origin # None =>
         /\ context[event[e].by].phase = "new"
         /\ event[e].origin = [identity |-> context[event[e].by].identity,
                               created_at |-> context[event[e].by].row.created_at]
  /\ IntentNeedsExecution

\* The origin that a command gives its events.
LEMMA CommandOrigin ==
  ASSUME CommandInv, NEW s \in Sessions, context[s].phase = "new"
  PROVE  [identity |-> context[s].identity, created_at |-> context[s].row.created_at] \in Origin
  <1>1. context[s].identity \in Identities /\ context[s].row \in CommandRow
    BY DEF CommandInv, ContextOK, RowOK
  <1>2. QED
    BY <1>1 DEF Origin, CommandRow

\* emit() keeps the publication invariant.
LEMMA EmitStep ==
  ASSUME PubInv, NEW s \in Sessions, NEW origin \in Origin, Emit(s, origin)
  PROVE  PubInv'
  BY InsertStep, ConflictStep, ResolveStep DEF Emit

\* A command goes on in its transaction: no intent changes its owner.
LEMMA IntentGoesOn ==
  ASSUME PubInv, IntentInv, NEW s \in Sessions, NEW c, context \in [Sessions -> Context],
         context' = [context EXCEPT ![s] = c], UNCHANGED <<event, executed>>,
         \A t \in Sessions : uow[t].active => uow'[t].active,
         uow'[s].active,
         context[s].phase = "new" => /\ c.phase = "new" /\ c.identity = context[s].identity
                                     /\ c.row.created_at = context[s].row.created_at
  PROVE  IntentInv'
  <1>1. \A t \in Sessions : context'[t] = IF t = s THEN c ELSE context[t]
    OBVIOUS
  <1>2. \A t \in Sessions : context'[t].phase # "idle" => uow'[t].active
    BY <1>1 DEF IntentInv
  <1>3. ASSUME NEW e \in EventIds, event[e] # None, event[e].status = "pending",
               event[e].origin # None
        PROVE  /\ context'[event[e].by].phase = "new"
               /\ event[e].origin = [identity |-> context'[event[e].by].identity,
                                     created_at |-> context'[event[e].by].row.created_at]
    <2>1. event[e].by \in Sessions
      BY <1>3 DEF PubInv, PendingOK
    <2>2. /\ context[event[e].by].phase = "new"
          /\ event[e].origin = [identity |-> context[event[e].by].identity,
                                created_at |-> context[event[e].by].row.created_at]
      BY <1>3 DEF IntentInv
    <2>3. QED
      BY <1>1, <2>1, <2>2
  <1>4. IntentNeedsExecution'
    BY DEF IntentInv, IntentNeedsExecution
  <1>5. QED
    BY <1>2, <1>3, <1>4 DEF IntentInv

\* A transaction that rolls back takes its intent with it.
LEMMA IntentRollsBack ==
  ASSUME PubInv, IntentInv, NEW s \in Sessions, Rollback(s), UNCHANGED executed,
         \A t \in Sessions \ {s} : context'[t] = context[t],
         context'[s].phase = "idle"
  PROVE  IntentInv'
  <1>1. \A t \in Sessions \ {s} : uow'[t] = uow[t]
    BY DEF PubInv, PubTypes, Rollback
  <1>2. \A e \in EventIds : event'[e] = IF Pending(e, s) THEN None ELSE event[e]
    BY DEF Rollback
  <1>3. \A t \in Sessions : context'[t].phase # "idle" => uow'[t].active
    BY <1>1 DEF IntentInv
  <1>4. ASSUME NEW e \in EventIds, event'[e] # None, event'[e].status = "pending",
               event'[e].origin # None
        PROVE  /\ context'[event'[e].by].phase = "new"
               /\ event'[e].origin = [identity |-> context'[event'[e].by].identity,
                                      created_at |-> context'[event'[e].by].row.created_at]
    <2>1. event'[e] = event[e] /\ ~Pending(e, s)
      BY <1>2, <1>4
    <2>2. event[e].by \in Sessions \ {s}
      BY <1>4, <2>1 DEF PubInv, PendingOK, Pending
    <2>3. QED
      BY <1>4, <2>1, <2>2 DEF IntentInv
  <1>5. IntentNeedsExecution'
    BY <1>2 DEF IntentInv, IntentNeedsExecution
  <1>6. QED
    BY <1>3, <1>4, <1>5 DEF IntentInv

\* A transaction that commits makes its intent durable with its execution.
LEMMA IntentCommits ==
  ASSUME PubInv, IntentInv, NEW s \in Sessions, Commit(s),
         \A t \in Sessions \ {s} : context'[t] = context[t],
         context'[s].phase = "idle",
         \A i \in Identities : \A k \in DOMAIN executed[i] :
           k \in DOMAIN executed'[i] /\ executed'[i][k] = executed[i][k],
         context[s].phase = "new" =>
           \E k \in DOMAIN executed'[context[s].identity] :
             executed'[context[s].identity][k].from = context[s].row.created_at
  PROVE  IntentInv'
  <1>1. \A t \in Sessions \ {s} : uow'[t] = uow[t]
    BY DEF PubInv, PubTypes, Commit
  <1>2. \A e \in EventIds : event'[e] = IF Pending(e, s) THEN Committed(event[e]) ELSE event[e]
    BY DEF Commit
  <1>3. \A t \in Sessions : context'[t].phase # "idle" => uow'[t].active
    BY <1>1 DEF IntentInv
  <1>4. ASSUME NEW e \in EventIds, Pending(e, s)
        PROVE  /\ event[e] \in EventRow(Origin) /\ event[e].by = s /\ event[e] # None
               /\ event[e].status = "pending"
               /\ event'[e].status = "committed" /\ event'[e].origin = event[e].origin
    <2>1. /\ event[e] \in EventRow(Origin) /\ event[e].by = s /\ event[e] # None
          /\ event[e].status = "pending"
      BY <1>4 DEF Pending, PubInv, PubTypes
    <2>2. QED
      BY <1>2, <1>4, <2>1, CommittedRow
  <1>5. ASSUME NEW e \in EventIds, event'[e] # None, event'[e].status = "pending",
               event'[e].origin # None
        PROVE  /\ context'[event'[e].by].phase = "new"
               /\ event'[e].origin = [identity |-> context'[event'[e].by].identity,
                                      created_at |-> context'[event'[e].by].row.created_at]
    <2>1. event'[e] = event[e] /\ ~Pending(e, s)
      BY <1>2, <1>4, <1>5
    <2>2. event[e].by \in Sessions \ {s}
      BY <1>5, <2>1 DEF PubInv, PendingOK, Pending
    <2>3. QED
      BY <1>5, <2>1, <2>2 DEF IntentInv
  <1>6. ASSUME NEW e \in EventIds, event'[e] # None, event'[e].status # "pending",
               event'[e].origin # None
        PROVE  \E k \in DOMAIN executed'[event'[e].origin.identity] :
                 executed'[event'[e].origin.identity][k].from = event'[e].origin.created_at
    <2>1. CASE Pending(e, s)
      <3>1. event'[e].origin = event[e].origin /\ event[e].origin # None
        BY <1>4, <1>6, <2>1
      <3>2. /\ context[s].phase = "new"
            /\ event[e].origin = [identity |-> context[s].identity,
                                  created_at |-> context[s].row.created_at]
        BY <1>4, <2>1, <3>1 DEF IntentInv
      <3>3. QED
        BY <3>1, <3>2
    <2>2. CASE ~Pending(e, s)
      <3>1. event'[e] = event[e] /\ event[e] \in EventRow(Origin)
        BY <1>2, <1>6, <2>2 DEF PubInv, PubTypes
      <3>2. event[e].origin.identity \in Identities
        BY <1>6, <3>1 DEF EventRow, Origin
      <3>3. PICK k \in DOMAIN executed[event[e].origin.identity] :
              executed[event[e].origin.identity][k].from = event[e].origin.created_at
        BY <1>6, <3>1 DEF IntentInv, IntentNeedsExecution
      <3>4. QED
        BY <3>1, <3>2, <3>3
    <2>3. QED
      BY <2>1, <2>2
  <1>7. QED
    BY <1>3, <1>5, <1>6 DEF IntentInv, IntentNeedsExecution

\* A step that writes one event row and leaves commands alone keeps the intent
\* if a pending row carries its command and a durable one was durable before.
LEMMA IntentRowWritten ==
  ASSUME PubInv, IntentInv, UNCHANGED <<context, executed>>,
         \A t \in Sessions : uow[t].active => uow'[t].active,
         NEW e \in EventIds, NEW row, event' = [event EXCEPT ![e] = row],
         row.status = "pending" /\ row.origin # None =>
           /\ context[row.by].phase = "new"
           /\ row.origin = [identity |-> context[row.by].identity,
                            created_at |-> context[row.by].row.created_at],
         row.status # "pending" =>
           event[e] # None /\ event[e].status # "pending" /\ event[e].origin = row.origin
  PROVE  IntentInv'
  <1>1. \A f \in EventIds : event'[f] = IF f = e THEN row ELSE event[f]
    BY DEF PubInv, PubTypes
  <1>2. \A t \in Sessions : context'[t].phase # "idle" => uow'[t].active
    BY DEF IntentInv
  <1>3. ASSUME NEW f \in EventIds, event'[f] # None, event'[f].status = "pending",
               event'[f].origin # None
        PROVE  /\ context'[event'[f].by].phase = "new"
               /\ event'[f].origin = [identity |-> context'[event'[f].by].identity,
                                      created_at |-> context'[event'[f].by].row.created_at]
    BY <1>1, <1>3 DEF IntentInv
  <1>4. IntentNeedsExecution'
    BY <1>1 DEF IntentInv, IntentNeedsExecution
  <1>5. QED
    BY <1>2, <1>3, <1>4 DEF IntentInv

\* A step that writes no event row.
LEMMA IntentKept ==
  ASSUME IntentInv, UNCHANGED <<event, context, executed>>,
         \A t \in Sessions : uow[t].active => uow'[t].active
  PROVE  IntentInv'
  BY DEF IntentInv, IntentNeedsExecution

\* emit() writes its row in the name of the command, if there is one.
LEMMA IntentEmits ==
  ASSUME PubInv, IntentInv, NEW s \in Sessions, NEW origin \in Origin, Emit(s, origin),
         UNCHANGED <<context, executed>>,
         origin # None =>
           /\ context[s].phase = "new"
           /\ origin = [identity |-> context[s].identity,
                        created_at |-> context[s].row.created_at]
  PROVE  IntentInv'
  <1>1. uow \in [Sessions -> UnitOfWork]
    BY DEF PubInv, PubTypes
  <1>2. ASSUME NEW e \in EventIds, NEW c \in Contents, NEW k \in DedupeKeys \cup {None},
               NEW p \in Provided, EmitInsert(s, e, c, k, p, origin)
        PROVE  IntentInv'
    <2> DEFINE row == [status |-> "pending", by |-> s, content |-> c, key |-> k,
                       origin |-> origin, deliveries |-> Matched(c, p),
                       original |-> Matched(c, p)]
    <2>1. event' = [event EXCEPT ![e] = row]
      BY <1>2 DEF EmitInsert
    <2>2. row.status = "pending" /\ row.by = s /\ row.origin = origin
      OBVIOUS
    <2>3. \A t \in Sessions : uow[t].active => uow'[t].active
      BY <1>1, <1>2 DEF EmitInsert, UnitOfWork
    <2> HIDE DEF row
    <2>4. QED
      BY <2>1, <2>2, <2>3, IntentRowWritten
  <1>3. ASSUME NEW c \in Contents, NEW k \in DedupeKeys, NEW p \in Provided,
               EmitConflict(s, c, k, p)
        PROVE  IntentInv'
    <2>1. \A t \in Sessions : uow[t].active => uow'[t].active
      BY <1>1, <1>3 DEF EmitConflict, UnitOfWork
    <2>2. QED
      BY <1>3, <2>1, IntentKept DEF EmitConflict
  <1>4. CASE EmitResolve(s)
    <2>1. \A t \in Sessions : uow[t].active => uow'[t].active
      BY <1>1, <1>4 DEF EmitResolve
    <2>2. QED
      BY <1>4, <2>1, IntentKept DEF EmitResolve
  <1>5. QED
    BY <1>2, <1>3, <1>4 DEF Emit

\* Retention changes durable rows only, and not where they come from.
LEMMA IntentRetained ==
  ASSUME PubInv, IntentInv, Retention, UNCHANGED <<context, executed>>
  PROVE  IntentInv'
  <1>1. PICK e \in EventIds : RetainDeliveries(e) \/ RetainEvent(e)
    BY DEF Retention
  <1>2. event[e] \in EventRow(Origin) /\ event[e] # None /\ event[e].status = "committed"
    BY <1>1 DEF RetainDeliveries, RetainEvent, Durable, PubInv, PubTypes
  <1>3. PICK row : /\ event' = [event EXCEPT ![e] = row]
                   /\ row.status # "pending" /\ row.origin = event[e].origin
    <2>1. CASE RetainDeliveries(e)
      <3>1. PICK gone : event' = [event EXCEPT ![e].deliveries = @ \ gone]
        BY <2>1 DEF RetainDeliveries
      <3> DEFINE row == [event[e] EXCEPT !.deliveries = @ \ gone]
      <3>2. row.status = event[e].status /\ row.origin = event[e].origin
        BY <1>2 DEF EventRow
      <3>3. event' = [event EXCEPT ![e] = row]
        BY <3>1
      <3> HIDE DEF row
      <3>4. QED
        BY <1>2, <3>2, <3>3
    <2>2. CASE RetainEvent(e)
      BY <1>2, <2>2, PrunedRow DEF RetainEvent
    <2>3. QED
      BY <1>1, <2>1, <2>2
  <1>4. UNCHANGED uow
    BY <1>1 DEF RetainDeliveries, RetainEvent
  <1>5. QED
    BY <1>2, <1>3, <1>4, IntentRowWritten

\* A session under its lock, or with an open command, has a transaction.
LEMMA IntentOfRequest ==
  ASSUME CommandInv, PubInv, IntentInv, NEW s \in Sessions, NEW c,
         context[s].phase # "idle",
         context' = [context EXCEPT ![s] = c], UNCHANGED <<pubVars, executed>>,
         context[s].phase = "new" => /\ c.phase = "new" /\ c.identity = context[s].identity
                                     /\ c.row.created_at = context[s].row.created_at
  PROVE  IntentInv'
  <1>1. uow[s].active /\ UNCHANGED <<event, uow>> /\ context \in [Sessions -> Context]
    BY DEF IntentInv, pubVars, CommandInv, CommandTypes
  <1>2. QED
    BY <1>1, IntentGoesOn

\* complete() leaves the identity and the creation time of its command alone.
LEMMA IntentOfComplete ==
  ASSUME CommandInv, PubInv, IntentInv, NEW s \in Sessions, NEW r \in Responses,
         Complete(s, r)
  PROVE  IntentInv'
  <1> DEFINE c == [context[s] EXCEPT !.row = Completed(@, r)]
  <1>1. context[s].phase = "new" /\ context[s] \in Context /\ context[s].row \in CommandRow
    BY DEF Complete, Completable, CommandInv, CommandTypes, ContextOK, RowOK
  <1>2. /\ c.phase = "new" /\ c.identity = context[s].identity
        /\ c.row = Completed(context[s].row, r)
    BY <1>1 DEF Context
  <1>3. c.row.created_at = context[s].row.created_at
    BY <1>1, <1>2, CompletedRow
  <1>4. context' = [context EXCEPT ![s] = c] /\ UNCHANGED <<pubVars, executed>>
    BY DEF Complete
  <1> HIDE DEF c
  <1>5. QED
    BY <1>1, <1>2, <1>3, <1>4, IntentOfRequest

\* A command commits its intent together with the record of its execution.
LEMMA IntentOfExit ==
  ASSUME CommandInv, PubInv, IntentInv, NEW s \in Sessions, ExitNew(s)
  PROVE  IntentInv'
  <1> DEFINE i == context[s].identity
             x == ExecutionOf(context[s].row)
  <1>1. /\ context[s].phase = "new" /\ i \in Identities /\ context[s].row.identity = i
        /\ context \in [Sessions -> Context]
    BY DEF ExitNew, CommandInv, CommandTypes, ContextOK, RowOK
  <1>2. /\ executed[i] \in Seq(Promise!Execution)
        /\ executed \in [Identities -> Seq(Promise!Execution)]
    BY <1>1 DEF CommandInv, CommandTypes
  <1>3. /\ executed'[i] = Append(executed[i], x)
        /\ \A j \in Identities \ {i} : executed'[j] = executed[j]
    BY <1>1, <1>2 DEF ExitNew
  <1>4. x.from = context[s].row.created_at
    BY DEF ExecutionOf
  <1>5. x \in Promise!Execution
    <2>1. /\ context[s].row \in CommandRow /\ context[s].row.response \in Responses
      BY DEF ExitNew, CommandInv, ContextOK, RowOK
    <2>2. QED
      BY <2>1 DEF ExecutionOf, Promise!Execution, CommandRow
  <1> HIDE DEF x
  <1> DEFINE n == Len(executed[i]) + 1
  <1>6. /\ n \in DOMAIN executed'[i] /\ executed'[i][n] = x
        /\ \A k \in DOMAIN executed[i] :
             k \in DOMAIN executed'[i] /\ executed'[i][k] = executed[i][k]
    <2>1. DOMAIN executed[i] = 1 .. Len(executed[i]) /\ Len(executed[i]) \in Nat
      BY <1>2
    <2>2. QED
      BY <1>2, <1>3, <1>5, <2>1
  <1>7. \A j \in Identities : \A k \in DOMAIN executed[j] :
          k \in DOMAIN executed'[j] /\ executed'[j][k] = executed[j][k]
    BY <1>3, <1>6
  <1>8. \E k \in DOMAIN executed'[i] : executed'[i][k].from = context[s].row.created_at
    BY <1>4, <1>6
  <1>9. /\ \A t \in Sessions \ {s} : context'[t] = context[t]
        /\ context'[s].phase = "idle" /\ Commit(s)
    BY <1>1, NoContextOK DEF ExitNew
  <1>10. QED
    BY <1>7, <1>8, <1>9, IntentCommits

\* Every step keeps what publication relies on.
LEMMA PubInvStep ==
  ASSUME CommandInv, PubInv, [Next]_vars
  PROVE  PubInv'
  <1>1. CASE UNCHANGED pubVars
    BY <1>1 DEF pubVars, PubInv, PubTypes, PendingOK, EmitIsBacked, OneDeliverySet
  <1>2. ASSUME NEW s \in Sessions, CommandStep(s)
        PROVE  PubInv'
    <2>1. CASE \E i \in Identities, f \in Forms, ttl \in Ttls : Ask(s, i, f, ttl)
      BY <2>1, EnterStep DEF Ask
    <2>2. CASE AcquireFails(s) \/ AcquireRefused(s) \/ ExitFailed(s)
      BY <2>2, RollbackStep DEF AcquireFails, AcquireRefused, ExitFailed
    <2>3. CASE ExitNew(s) \/ ExitReplay(s)
      BY <2>3, CommitStep DEF ExitNew, ExitReplay
    <2>4. CASE CommandEmit(s)
      BY <2>4, CommandOrigin, EmitStep DEF CommandEmit
    <2>5. CASE AcquireLock(s) \/ AcquireNew(s) \/ AcquireReplay(s)
      BY <1>1, <2>5 DEF AcquireLock, AcquireNew, AcquireReplay
    <2>6. CASE \E r \in Responses : Complete(s, r)
      BY <1>1, <2>6 DEF Complete
    <2>7. QED
      BY <1>2, <2>1, <2>2, <2>3, <2>4, <2>5, <2>6 DEF CommandStep
  <1>3. ASSUME NEW s \in Sessions, UnitOfWorkStep(s)
        PROVE  PubInv'
    <2>1. None \in Origin
      BY DEF Origin
    <2>2. QED
      BY <1>3, <2>1, EnterStep, EmitStep, CommitStep, RollbackStep DEF UnitOfWorkStep
  <1>4. ASSUME NEW p \in Pruners, NEW cutoff, NEW batch, PruneLock(p, cutoff, batch)
        PROVE  PubInv'
    BY <1>1, <1>4 DEF PruneLock
  <1>5. ASSUME NEW p \in Pruners, PruneCommit(p) \/ PruneAbort(p)
        PROVE  PubInv'
    BY <1>1, <1>5 DEF PruneCommit, PruneAbort
  <1>6. CASE Tick \/ UNCHANGED vars
    BY <1>1, <1>6 DEF Tick, vars
  <1>7. QED
    BY <1>2, <1>3, <1>4, <1>5, <1>6, RetentionStep DEF Next

\* Every step keeps what the atomicity of intent relies on.
LEMMA IntentStep ==
  ASSUME CommandInv, PubInv, IntentInv, [Next]_vars
  PROVE  IntentInv'
  <1>0. context \in [Sessions -> Context] /\ uow \in [Sessions -> UnitOfWork]
    BY DEF CommandInv, CommandTypes, PubInv, PubTypes
  <1>1. CASE UNCHANGED <<pubVars, context, executed>>
    BY <1>1, IntentKept DEF pubVars
  <1>2. ASSUME NEW s \in Sessions, NEW i \in Identities, NEW f \in Forms, NEW ttl \in Ttls,
               Ask(s, i, f, ttl)
        PROVE  IntentInv'
    <2>1. uow'[s].active /\ \A t \in Sessions : uow[t].active => uow'[t].active
      BY <1>0, <1>2 DEF Ask, Enter
    <2>2. context[s].phase = "idle" /\ UNCHANGED <<event, executed>>
      BY <1>2 DEF Ask, Enter
    <2>3. context' = [context EXCEPT ![s] = Request("waiting", i, f, ttl, None, None)]
      BY <1>2 DEF Ask
    <2>4. QED
      BY <1>0, <2>1, <2>2, <2>3, IntentGoesOn
  <1>3. ASSUME NEW s \in Sessions, AcquireLock(s) \/ AcquireNew(s) \/ AcquireReplay(s)
        PROVE  IntentInv'
    <2>1. context[s].phase \in {"waiting", "locked"} /\ UNCHANGED <<pubVars, executed>>
      BY <1>3 DEF AcquireLock, AcquireNew, AcquireReplay
    <2>2. PICK c : context' = [context EXCEPT ![s] = c]
      <3>1. CASE AcquireLock(s)
        BY <3>1 DEF AcquireLock
      <3>2. CASE AcquireNew(s)
        BY <3>2 DEF AcquireNew
      <3>3. CASE AcquireReplay(s)
        BY <3>3 DEF AcquireReplay
      <3>4. QED
        BY <1>3, <3>1, <3>2, <3>3
    <2>3. QED
      BY <2>1, <2>2, IntentOfRequest
  <1>4. ASSUME NEW s \in Sessions, AcquireFails(s) \/ AcquireRefused(s) \/ ExitFailed(s)
        PROVE  IntentInv'
    <2>1. Rollback(s) /\ UNCHANGED executed /\ context' = [context EXCEPT ![s] = NoContext]
      BY <1>4 DEF AcquireFails, AcquireRefused, ExitFailed
    <2>2. context'[s].phase = "idle" /\ \A t \in Sessions \ {s} : context'[t] = context[t]
      BY <1>0, <2>1, NoContextOK
    <2>3. QED
      BY <2>1, <2>2, IntentRollsBack
  <1>5. ASSUME NEW s \in Sessions, ExitReplay(s)
        PROVE  IntentInv'
    <2>1. Commit(s) /\ UNCHANGED executed /\ context' = [context EXCEPT ![s] = NoContext]
      BY <1>5 DEF ExitReplay
    <2>2. context'[s].phase = "idle" /\ \A t \in Sessions \ {s} : context'[t] = context[t]
      BY <1>0, <2>1, NoContextOK
    <2>3. context[s].phase # "new"
      BY <1>5 DEF ExitReplay
    <2>4. QED
      BY <2>1, <2>2, <2>3, IntentCommits
  <1>6. ASSUME NEW s \in Sessions, CommandEmit(s)
        PROVE  IntentInv'
    BY <1>6, CommandOrigin, IntentEmits DEF CommandEmit, commandVars
  <1>7. ASSUME NEW s \in Sessions, UnitOfWorkStep(s)
        PROVE  IntentInv'
    <2>1. context[s].phase = "idle" /\ UNCHANGED <<context, executed>> /\ None \in Origin
      BY <1>7 DEF UnitOfWorkStep, commandVars, Origin
    <2>2. CASE Enter(s)
      <3>1. \A t \in Sessions : uow[t].active => uow'[t].active
        BY <1>0, <2>2 DEF Enter
      <3>2. QED
        BY <2>1, <2>2, <3>1, IntentKept DEF Enter
    <2>3. CASE Emit(s, None)
      BY <2>1, <2>3, IntentEmits
    <2>4. CASE Commit(s)
      BY <2>1, <2>4, IntentCommits
    <2>5. CASE Rollback(s)
      BY <2>1, <2>5, IntentRollsBack
    <2>6. QED
      BY <1>7, <2>2, <2>3, <2>4, <2>5 DEF UnitOfWorkStep
  <1>8. ASSUME NEW p \in Pruners, NEW cutoff, NEW batch, PruneLock(p, cutoff, batch)
        PROVE  IntentInv'
    BY <1>1, <1>8 DEF PruneLock
  <1>9. ASSUME NEW p \in Pruners, PruneCommit(p) \/ PruneAbort(p)
        PROVE  IntentInv'
    BY <1>1, <1>9 DEF PruneCommit, PruneAbort
  <1>10. CASE Tick \/ UNCHANGED vars
    BY <1>1, <1>10 DEF Tick, vars, commandVars
  <1>11. CASE Retention /\ UNCHANGED commandVars
    BY <1>11, IntentRetained DEF commandVars
  <1>12. ASSUME NEW s \in Sessions, CommandStep(s)
         PROVE  IntentInv'
    BY <1>2, <1>3, <1>4, <1>5, <1>6, <1>12, IntentOfComplete, IntentOfExit DEF CommandStep
  <1>13. QED
    BY <1>7, <1>8, <1>9, <1>10, <1>11, <1>12 DEF Next

\* Nothing has been published at the start.
LEMMA PublicationInit == Init => PubInv /\ IntentInv
  <1> SUFFICES ASSUME Init PROVE PubInv /\ IntentInv
    OBVIOUS
  <1>1. Idle \in UnitOfWork /\ Idle.returned = {}
    BY DEF Idle, UnitOfWork
  <1>2. \A e \in EventIds : event[e] = None
    BY DEF Init, PubInit
  <1>3. \A s \in Sessions : uow[s] = Idle /\ context[s].phase = "idle"
    BY NoContextOK DEF Init, PubInit
  <1>4. PubTypes
    BY <1>1 DEF Init, PubInit, PubTypes
  <1>5. PubInv
    BY <1>1, <1>2, <1>3, <1>4 DEF PubInv, PendingOK, EmitIsBacked, OneDeliverySet
  <1>6. IntentInv
    BY <1>2, <1>3 DEF IntentInv, IntentNeedsExecution
  <1>7. QED
    BY <1>5, <1>6

\* Replies have their type: they are those of the promise.
LEMMA ReplyTyped ==
  ASSUME CommandInv, CommandInv', reply \in {None} \cup Promise!Answer, [Next]_vars
  PROVE  reply' \in {None} \cup Promise!Answer
  <1>1. \A i \in Identities : \A k \in DOMAIN executed[i] : executed[i][k] \in Promise!Execution
    <2>1. \A i \in Identities : executed[i] \in Seq(Promise!Execution)
      BY DEF CommandInv, CommandTypes
    <2>2. QED
      BY <2>1
  <1>2. CASE Promise!Executes
    BY <1>2 DEF Promise!Executes, Promise!Answer
  <1>3. CASE Promise!Replays
    BY <1>1, <1>3 DEF Promise!Replays, Promise!Live, Promise!Answer, Promise!Execution
  <1>4. CASE Promise!Refuses \/ Promise!Fails
    BY <1>4 DEF Promise!Refuses, Promise!Fails, Promise!Answer
  <1>5. CASE Promise!Silence \/ Promise!Passes \/ UNCHANGED Promise!promiseVars
    BY <1>5 DEF Promise!Silence, Promise!Passes, Promise!promiseVars
  <1>6. QED
    BY <1>2, <1>3, <1>4, <1>5, PromiseStep DEF Promise!PromiseNext

\* The three invariants together, and the type of replies.
FullInv == CommandInv /\ PubInv /\ IntentInv /\ reply \in {None} \cup Promise!Answer

LEMMA FullInvariant ==
  ASSUME CutoffLead = 0
  PROVE  Spec => []FullInv
  <1>1. Init => FullInv
    <2>1. Init => reply = None
      BY DEF Init
    <2>2. QED
      BY <2>1, CommandInvInit, PublicationInit DEF FullInv
  <1>2. FullInv /\ [Next]_vars => FullInv'
    BY CommandInvStep, PubInvStep, IntentStep, ReplyTyped DEF FullInv
  <1>3. QED
    BY <1>1, <1>2, PTL DEF Spec

\* Every variable of the ledger and of publication keeps its shape.
THEOREM LedgerTyped ==
  ASSUME CutoffLead = 0
  PROVE  Spec => []CommandTypeOK
  <1>1. FullInv => CommandTypeOK
    BY DEF FullInv, CommandInv, CommandTypes, PubInv, PubTypes, CommandTypeOK
  <1>2. QED
    BY <1>1, FullInvariant, PTL

\* emit() never returns an event that rests on another open transaction or has
\* other content, for any number of concurrent transactions, rollbacks and
\* retention passes between the conflict and its resolution.
THEOREM EmittedEventsAreBacked ==
  ASSUME CutoffLead = 0
  PROVE  Spec => []EmitIsBacked
  <1>1. FullInv => EmitIsBacked
    BY DEF FullInv, PubInv
  <1>2. QED
    BY <1>1, FullInvariant, PTL

\* A dedupe key names one retained event, which keeps the deliveries it was
\* published with until retention takes its webhook deliveries.
THEOREM DedupeKeepsOneDeliverySet ==
  ASSUME CutoffLead = 0
  PROVE  Spec => []OneDeliverySet
  <1>1. FullInv => OneDeliverySet
    BY DEF FullInv, PubInv
  <1>2. QED
    BY <1>1, FullInvariant, PTL

\* A durable event that a command published has a durable execution: no rollback,
\* failure or replay leaves intent behind.
THEOREM IntentIsAtomic ==
  ASSUME CutoffLead = 0
  PROVE  Spec => []IntentNeedsExecution
  <1>1. FullInv => IntentNeedsExecution
    BY DEF FullInv, IntentInv
  <1>2. QED
    BY <1>1, FullInvariant, PTL

\* Rows, executions and published intent become durable together or not at all.
THEOREM DurableStateTogether ==
  ASSUME CutoffLead = 0
  PROVE  Spec => []DurableTogether
  <1>1. RowsAreExecutions /\ IntentNeedsExecution => DurableTogether
    BY DEF DurableTogether
  <1>2. QED
    BY <1>1, RowsRecordExecutions, IntentIsAtomic, PTL
=============================================================================
