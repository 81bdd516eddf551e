--------------------------- MODULE WebhookSecrets ---------------------------
(***************************************************************************)
(* Webhook signing keys (webhooks/secrets.py): secret sets with versioned  *)
(* keys that are active, retiring until an instant, or revoked, and the    *)
(* retention of old versions (postgres/webhook_schema.py).  Key material,  *)
(* its encryption and its public encoding are opaque: a key is its version *)
(* number.                                                                 *)
(*                                                                         *)
(* Every operation locks the secret set row, and then the versions it      *)
(* changes, before it decides; one step each.                              *)
(***************************************************************************)
EXTENDS Naturals, FiniteSets

CONSTANTS
  SecretSets,   \* secret set identifiers
  Overlaps,     \* overlaps a rotation may ask for
  MaxTime,      \* bound of the clock
  None

ASSUME SecretAssumption ==
  /\ Overlaps \subseteq Nat \ {0}
  /\ MaxTime \in Nat
  /\ None \notin SecretSets \cup Nat

VARIABLES
  now,          \* the clock that managers and relays read
  secret_set,   \* the revision of each set, 0 while it does not exist
  secret,       \* the version rows of each set
  issued,       \* history: how many versions each set was given
  revoked,      \* history: the versions that were revoked
  overlap       \* history: the overlaps that rotations were granted

secretVars == <<secret_set, secret, issued, revoked, overlap>>

KeyState == {"active", "retiring", "revoked"}

KeyRow ==
  [version : Nat \ {0}, state : KeyState, retiring_until : Nat \cup {None},
   created_at : Nat]

SecretInit ==
  /\ now = 0
  /\ secret_set = [k \in SecretSets |-> 0]
  /\ secret = [k \in SecretSets |-> {}]
  /\ issued = [k \in SecretSets |-> 0]
  /\ revoked = [k \in SecretSets |-> {}]
  /\ overlap = [k \in SecretSets |-> {}]

Exists(k) == secret_set[k] > 0

NewKey(version) ==
  [version |-> version, state |-> "active", retiring_until |-> None, created_at |-> now]

\* The rows of a set in a state; rotate() looks for its one active row.
InState(k, state) == {r \in secret[k] : r.state = state}

CreateSecret(k) ==
  /\ ~Exists(k)
  /\ secret_set' = [secret_set EXCEPT ![k] = 1]
  /\ secret' = [secret EXCEPT ![k] = {NewKey(1)}]
  /\ issued' = [issued EXCEPT ![k] = 1]
  /\ UNCHANGED <<revoked, overlap>>

Granted(row, window) == [version |-> row.version, until |-> now + window]

Retiring(row, until) == [row EXCEPT !.state = "retiring", !.retiring_until = until]

\* Mutant of RotateSecret: the new version is numbered after the rows that are
\* left, of which retention may have removed some.
RotateSecretByCount(k, window) ==
  /\ Exists(k)
  /\ \E active \in InState(k, "active") :
       /\ secret' = [secret EXCEPT ![k] =
            (@ \ {active}) \cup {Retiring(active, now + window), NewKey(Cardinality(@) + 1)}]
       /\ overlap' = [overlap EXCEPT ![k] = @ \cup {Granted(active, window)}]
  /\ issued' = [issued EXCEPT ![k] = @ + 1]
  /\ secret_set' = [secret_set EXCEPT ![k] = @ + 1]
  /\ UNCHANGED revoked

\* Mutant of RotateSecret: rotation starts from the newest row, whatever its state.
RotateSecretAlways(k, window) ==
  /\ Exists(k)
  /\ \E newest \in secret[k] :
       /\ \A r \in secret[k] : r.version <= newest.version
       /\ secret' = [secret EXCEPT ![k] =
            (@ \ {newest}) \cup {Retiring(newest, now + window), NewKey(newest.version + 1)}]
       /\ overlap' = [overlap EXCEPT ![k] = @ \cup {Granted(newest, window)}]
  /\ issued' = [issued EXCEPT ![k] = @ + 1]
  /\ secret_set' = [secret_set EXCEPT ![k] = @ + 1]
  /\ UNCHANGED revoked

\* Refused when no version is active, which nothing but a new set repairs.
RotateSecret(k, window) ==
  /\ Exists(k)
  /\ \E active \in InState(k, "active") :
       /\ secret' = [secret EXCEPT ![k] =
            (@ \ {active}) \cup {Retiring(active, now + window), NewKey(active.version + 1)}]
       /\ overlap' = [overlap EXCEPT ![k] = @ \cup {Granted(active, window)}]
  /\ issued' = [issued EXCEPT ![k] = @ + 1]
  /\ secret_set' = [secret_set EXCEPT ![k] = @ + 1]
  /\ UNCHANGED revoked

Revoked(row) == [row EXCEPT !.state = "revoked", !.retiring_until = None]

RevokeSecret(k) ==
  /\ Exists(k)
  /\ \E row \in secret[k] :
       /\ secret' = [secret EXCEPT ![k] = (@ \ {row}) \cup {Revoked(row)}]
       /\ revoked' = [revoked EXCEPT ![k] = @ \cup {row.version}]
  /\ secret_set' = [secret_set EXCEPT ![k] = @ + 1]
  /\ UNCHANGED <<issued, overlap>>

\* Active versions, and retiring ones up to and including their instant.
eligible_for_signing(k) ==
  {r.version : r \in {q \in secret[k] :
     \/ q.state = "active"
     \/ q.state = "retiring" /\ q.retiring_until >= now}}

\* The last stage of prune_webhook_history: by age alone.
Prunable(k, cutoff) ==
  {r \in secret[k] : r.state \in {"retiring", "revoked"} /\ r.created_at < cutoff}

\* A batch takes the oldest and skips locked rows, so it may be any of them.
PruneSecrets(cutoff) ==
  /\ cutoff \in 0 .. now
  /\ \E k \in SecretSets : \E gone \in (SUBSET Prunable(k, cutoff)) \ {{}} :
       secret' = [secret EXCEPT ![k] = @ \ gone]
  /\ UNCHANGED <<secret_set, issued, revoked, overlap>>

-----------------------------------------------------------------------------
SecretTypeOK ==
  /\ now \in Nat
  /\ secret_set \in [SecretSets -> Nat]
  /\ secret \in [SecretSets -> SUBSET KeyRow]
  /\ issued \in [SecretSets -> Nat]
  /\ revoked \in [SecretSets -> SUBSET (Nat \ {0})]
  /\ overlap \in [SecretSets -> SUBSET [version : Nat \ {0}, until : Nat]]

\* The version that receivers were given last is the active one, unless it was
\* revoked, and no other is; no version number is given out twice, whatever
\* rotations, revocations and retention did before (rotate numbers a version
\* after the active row, secrets.py:172-185; retention deletes rows,
\* webhook_schema.py:207-226).
NewestKeySigns ==
  \A k \in SecretSets :
    /\ \A r \in secret[k] : r.version <= issued[k]
    /\ \A r, q \in secret[k] : r.version = q.version => r = q
    /\ \A r \in InState(k, "active") : r.version = issued[k]
    /\ Exists(k) /\ issued[k] \notin revoked[k] => InState(k, "active") # {}

\* A set that has no key left to sign with never has one again: rotation does not
\* revive it, so deliveries whose snapshot names it "remain unsignable"
\* (docs/operations/webhooks.md:44-46; secrets.py:168-185, 216-298).
UnsignableStays ==
  [][\A k \in SecretSets :
       Exists(k) /\ eligible_for_signing(k) = {} => eligible_for_signing(k)' = {}]_<<now, secretVars>>

\* "During overlap, outbound requests contain one v1 signature for each eligible
\* key" (docs/operations/webhook-secrets.md:15-16), and retention removes "expired
\* key versions" (docs/operations/webhooks.md:51-52): a version that a rotation retired
\* signs until the overlap it was granted ends, unless it is revoked.
OverlapSigns ==
  \A k \in SecretSets : \A g \in overlap[k] :
    now <= g.until /\ g.version \notin revoked[k] => g.version \in eligible_for_signing(k)
=============================================================================
