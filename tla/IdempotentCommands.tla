------------------------- MODULE IdempotentCommands -------------------------
(***************************************************************************)
(* What inbound command idempotency promises (docs/adr/ADR-012): within    *)
(* its retention window an identity is executed once, every identical      *)
(* request is answered with the stored response, and a request of another  *)
(* subject or content is refused.  No locks, rows, generations or pruning. *)
(***************************************************************************)
EXTENDS Naturals, Sequences

CONSTANTS
  Identities, Forms, Responses, Ttls, MaxTime, None

VARIABLES
  now,          \* the database clock
  executed,     \* per identity, the executions that took effect, in order
  reply         \* the answer a request is given in this step, if any

promiseVars == <<now, executed, reply>>

Execution == [form : Forms, response : Responses, from : Nat, until : Nat]

Answer ==
  [kind : {"executed", "replayed"}, identity : Identities, form : Forms,
   response : Responses]
  \cup [kind : {"refused", "failed"}, identity : Identities, form : Forms]

PromiseInit ==
  /\ now = 0
  /\ executed = [i \in Identities |-> <<>>]
  /\ reply = None

\* The execution whose window is open.
Live(i) ==
  {k \in DOMAIN executed[i] : k = Len(executed[i]) /\ now < executed[i][k].until}

\* An execution begins after every earlier window has closed, and takes effect
\* when its transaction commits.
Executes ==
  \E i \in Identities, f \in Forms, r \in Responses, from \in 0 .. now, ttl \in Ttls :
    /\ \A k \in DOMAIN executed[i] : executed[i][k].until <= from
    /\ executed' = [executed EXCEPT ![i] = Append(@,
         [form |-> f, response |-> r, from |-> from, until |-> from + ttl])]
    /\ reply' = [kind |-> "executed", identity |-> i, form |-> f, response |-> r]
    /\ UNCHANGED now

Replays ==
  \E i \in Identities : \E k \in Live(i) :
    /\ reply' = [kind |-> "replayed", identity |-> i, form |-> executed[i][k].form,
                  response |-> executed[i][k].response]
    /\ UNCHANGED <<now, executed>>

\* A refusal needs a live execution of another form.
Refuses ==
  \E i \in Identities, f \in Forms : \E k \in Live(i) :
    /\ executed[i][k].form # f
    /\ reply' = [kind |-> "refused", identity |-> i, form |-> f]
    /\ UNCHANGED <<now, executed>>

\* A request may always fail, and then has no effect.
Fails ==
  \E i \in Identities, f \in Forms :
    /\ reply' = [kind |-> "failed", identity |-> i, form |-> f]
    /\ UNCHANGED <<now, executed>>

Silence == reply' = None /\ UNCHANGED <<now, executed>>

Passes == now < MaxTime /\ now' = now + 1 /\ reply' = None /\ UNCHANGED executed

PromiseNext == Executes \/ Replays \/ Refuses \/ Fails \/ Silence \/ Passes

PromiseSpec == PromiseInit /\ [][PromiseNext]_promiseVars
=============================================================================
