---------------------------- MODULE WebhookProofs ----------------------------
(***************************************************************************)
(* Proofs about WebhookDelivery, for every number of subscriptions,        *)
(* managers, secret sets and attempts: what the signing keys of a set and  *)
(* the head rows of subscriptions keep while managers, relays, publishing  *)
(* transactions and retention interleave, what the request of an attempt   *)
(* amounts to, and what a delivery's snapshot is signed with.              *)
(***************************************************************************)
EXTENDS WebhookDelivery, FiniteSetTheorems, TLAPS

-----------------------------------------------------------------------------
(* What a step may do to the keys and to the heads.                          *)

KeyStep ==
  \/ \E k \in SecretSets : CreateSecret(k) \/ RevokeSecret(k)
  \/ \E k \in SecretSets, window \in Overlaps : RotateSecret(k, window)
  \/ \E cutoff \in 0 .. now : PruneSecrets(cutoff)

LEMMA KeySteps ==
  ASSUME [Next]_vars
  PROVE  \/ KeyStep /\ UNCHANGED now
         \/ UNCHANGED secretVars /\ now' = now + 1
         \/ UNCHANGED <<now, secretVars>>
  <1>1. CASE Manage
    <2>0. UNCHANGED now BY <1>1 DEF Manage
    <2>1. CASE \E m \in Managers, s \in Subscriptions, k \in SecretSets,
                  types \in normalize_event_types, threshold \in Thresholds :
                 CreateSubscription(m, s, k, types, threshold)
      <3>1. \E k \in SecretSets : CreateSecret(k) \/ UNCHANGED secretVars
        BY <2>1 DEF CreateSubscription
      <3> QED BY <2>0, <3>1 DEF KeyStep
    <2>2. CASE \E m \in Managers, s \in Subscriptions, k \in SecretSets,
                  types \in normalize_event_types : UpdateSubscription(m, s, k, types)
      BY <2>0, <2>2 DEF UpdateSubscription
    <2>3. CASE \E m \in Managers, s \in Subscriptions : SetState(m, s, "disabled")
      BY <2>0, <2>3 DEF SetState
    <2>4. CASE \E k \in SecretSets : CreateSecret(k) \/ RevokeSecret(k)
      BY <2>0, <2>4 DEF KeyStep
    <2> QED BY <1>1, <2>1, <2>2, <2>3, <2>4 DEF Manage
  <1>2. CASE Operate BY <1>2 DEF Operate, KeyStep, SetState
  <1>3. CASE Inspect BY <1>3 DEF Inspect, GetSubscription
  <1>4. CASE PublishStep BY <1>4 DEF PublishStep
  <1>5. CASE \E a \in Attempts : Attempt(a) BY <1>5 DEF Attempt
  <1>6. CASE Health
    BY <1>6 DEF Health, RecordHealth, HealthUnrecorded, RecordSuccess, RecordFailure
  <1>7. CASE Retain BY <1>7 DEF Retain, KeyStep
  <1>8. CASE Tick BY <1>8 DEF Tick
  <1>9. CASE UNCHANGED vars BY <1>9 DEF vars
  <1> QED BY <1>1, <1>2, <1>3, <1>4, <1>5, <1>6, <1>7, <1>8, <1>9 DEF Next

-----------------------------------------------------------------------------
(* Signing keys.                                                             *)

\* A set that does not exist has no keys and no history; the versions of its rows
\* were issued, and a retiring row knows its instant.
KeyInv ==
  /\ now \in Nat
  /\ secret_set \in [SecretSets -> Nat]
  /\ secret \in [SecretSets -> SUBSET KeyRow]
  /\ issued \in [SecretSets -> Nat]
  /\ revoked \in [SecretSets -> SUBSET (Nat \ {0})]
  /\ \A k \in SecretSets :
       /\ ~Exists(k) => secret[k] = {}
       /\ \A r \in secret[k] : r.state = "retiring" => r.retiring_until \in Nat
  /\ NewestKeySigns

LEMMA KeyInit == Init => KeyInv
  BY SMT DEF Init, SubscriptionInit, SecretInit, KeyInv, NewestKeySigns, InState, Exists

\* The row that a new version begins as.
LEMMA NewKeyFields ==
  ASSUME KeyInv, NEW n \in Nat \ {0}
  PROVE  /\ NewKey(n) \in KeyRow /\ NewKey(n).version = n
         /\ NewKey(n).state = "active"
  BY DEF KeyInv, NewKey, KeyRow, KeyState

LEMMA RetiringFields ==
  ASSUME NEW row \in KeyRow, NEW until \in Nat
  PROVE  /\ Retiring(row, until) \in KeyRow /\ Retiring(row, until).version = row.version
         /\ Retiring(row, until).state = "retiring"
         /\ Retiring(row, until).retiring_until = until
  BY DEF Retiring, KeyRow, KeyState

LEMMA RevokedFields ==
  ASSUME NEW row \in KeyRow
  PROVE  /\ Revoked(row) \in KeyRow /\ Revoked(row).version = row.version
         /\ Revoked(row).state = "revoked"
  BY DEF Revoked, KeyRow, KeyState

\* What is to be shown of one set whose rows a step has replaced.
KeysOK(rows, n, exists, gone) ==
  /\ rows \subseteq KeyRow /\ n \in Nat /\ gone \subseteq Nat \ {0}
  /\ ~exists => rows = {}
  /\ \A r \in rows : r.state = "retiring" => r.retiring_until \in Nat
  /\ \A r \in rows : r.version <= n
  /\ \A r, q \in rows : r.version = q.version => r = q
  /\ \A r \in rows : r.state = "active" => r.version = n
  /\ exists /\ n \notin gone => \E r \in rows : r.state = "active"

LEMMA KeysByset ==
  KeyInv <=> /\ now \in Nat
             /\ secret_set \in [SecretSets -> Nat]
             /\ secret \in [SecretSets -> SUBSET KeyRow]
             /\ issued \in [SecretSets -> Nat]
             /\ revoked \in [SecretSets -> SUBSET (Nat \ {0})]
             /\ \A k \in SecretSets : KeysOK(secret[k], issued[k], secret_set[k] > 0, revoked[k])
  BY DEF KeyInv, KeysOK, NewestKeySigns, Exists, InState

LEMMA KeysBysetNext ==
  ASSUME /\ now' \in Nat
         /\ secret_set' \in [SecretSets -> Nat]
         /\ secret' \in [SecretSets -> SUBSET KeyRow]
         /\ issued' \in [SecretSets -> Nat]
         /\ revoked' \in [SecretSets -> SUBSET (Nat \ {0})],
         \A k \in SecretSets : KeysOK(secret'[k], issued'[k], secret_set'[k] > 0, revoked'[k])
  PROVE  KeyInv'
  BY DEF KeyInv, KeysOK, NewestKeySigns, Exists, InState

LEMMA KeysOfCreate ==
  ASSUME KeyInv, NEW k \in SecretSets, CreateSecret(k), UNCHANGED now PROVE KeyInv'
  <1>1. NewKey(1) \in KeyRow /\ NewKey(1).version = 1 /\ NewKey(1).state = "active"
    BY NewKeyFields
  <1>2. KeysOK({NewKey(1)}, 1, TRUE, revoked[k])
    BY <1>1, KeysByset DEF KeysOK, KeyInv
  <1>3. /\ secret_set' \in [SecretSets -> Nat] /\ secret' \in [SecretSets -> SUBSET KeyRow]
        /\ issued' \in [SecretSets -> Nat] /\ revoked' \in [SecretSets -> SUBSET (Nat \ {0})]
    BY <1>1 DEF CreateSecret, KeyInv
  <1>4. ASSUME NEW j \in SecretSets
        PROVE  KeysOK(secret'[j], issued'[j], secret_set'[j] > 0, revoked'[j])
    <2>1. CASE j = k
      <3>1. secret'[j] = {NewKey(1)} /\ issued'[j] = 1 /\ secret_set'[j] = 1
            /\ revoked'[j] = revoked[k]
        BY <2>1 DEF CreateSecret, KeyInv
      <3>2. (secret_set'[j] > 0) = TRUE BY <3>1
      <3> QED BY <1>2, <3>1, <3>2
    <2>2. CASE j # k
      <3>1. secret'[j] = secret[j] /\ issued'[j] = issued[j] /\ secret_set'[j] = secret_set[j]
            /\ revoked'[j] = revoked[j]
        BY <2>2 DEF CreateSecret, KeyInv
      <3> QED BY <3>1, KeysByset
    <2> QED BY <2>1, <2>2
  <1>5. now' \in Nat BY DEF KeyInv
  <1> QED BY <1>3, <1>4, <1>5, KeysBysetNext

LEMMA KeysOfRotate ==
  ASSUME KeyInv, NEW k \in SecretSets, NEW window \in Overlaps, RotateSecret(k, window),
         UNCHANGED now
  PROVE  KeyInv'
  <1>0. now + window \in Nat
    <2>1. now \in Nat /\ window \in Nat BY SecretAssumption DEF KeyInv
    <2> QED BY <2>1
  <1>1. KeysOK(secret[k], issued[k], TRUE, revoked[k])
    <2>1. KeysOK(secret[k], issued[k], secret_set[k] > 0, revoked[k]) BY KeysByset
    <2> QED BY <2>1 DEF RotateSecret, Exists, KeysOK
  <1>2. PICK active \in InState(k, "active") :
          secret' = [secret EXCEPT ![k] =
            (@ \ {active}) \cup {Retiring(active, now + window), NewKey(active.version + 1)}]
    BY DEF RotateSecret
  <1>3. active \in secret[k] /\ active.state = "active" /\ active \in KeyRow
        /\ active.version = issued[k]
    BY <1>1 DEF InState, KeysOK
  <1> DEFINE old == Retiring(active, now + window)
             new == NewKey(active.version + 1)
             rows == (secret[k] \ {active}) \cup {old, new}
  <1>4. /\ old \in KeyRow /\ old.version = issued[k] /\ old.state = "retiring"
        /\ old.retiring_until \in Nat
    BY <1>0, <1>3, RetiringFields
  <1>5. new \in KeyRow /\ new.version = issued[k] + 1 /\ new.state = "active"
    BY <1>3, NewKeyFields DEF KeyInv
  <1> HIDE DEF old, new
  <1>6. KeysOK(rows, issued[k] + 1, TRUE, revoked[k])
    <2>1. issued[k] \in Nat /\ rows \subseteq KeyRow BY <1>1, <1>4, <1>5 DEF KeysOK
    <2>2. \A r \in secret[k] : r.version \in Nat /\ r.version <= issued[k]
      BY <1>1 DEF KeysOK, KeyRow
    <2>3. \A r \in secret[k] \ {active} : r.version # issued[k] /\ r.state # "active"
      BY <1>1, <1>3 DEF KeysOK
    <2>4. \A r \in rows : r.version <= issued[k] + 1
      BY <1>4, <1>5, <2>1, <2>2
    <2>5. \A r, q \in rows : r.version = q.version => r = q
      BY <1>1, <1>4, <1>5, <2>1, <2>2, <2>3 DEF KeysOK
    <2>6. \A r \in rows : r.state = "active" => r.version = issued[k] + 1
      BY <1>4, <1>5, <2>3
    <2> QED BY <1>1, <1>4, <1>5, <2>1, <2>4, <2>5, <2>6 DEF KeysOK
  <1>7. /\ secret_set' \in [SecretSets -> Nat] /\ secret' \in [SecretSets -> SUBSET KeyRow]
        /\ issued' \in [SecretSets -> Nat] /\ revoked' \in [SecretSets -> SUBSET (Nat \ {0})]
    BY <1>2, <1>6 DEF RotateSecret, KeyInv, KeysOK, old, new
  <1>8. ASSUME NEW j \in SecretSets
        PROVE  KeysOK(secret'[j], issued'[j], secret_set'[j] > 0, revoked'[j])
    <2>1. CASE j = k
      <3>1. secret'[j] = rows /\ issued'[j] = issued[k] + 1 /\ secret_set'[j] = secret_set[k] + 1
            /\ revoked'[j] = revoked[k]
        BY <1>2, <2>1 DEF RotateSecret, KeyInv, old, new
      <3>2. (secret_set'[j] > 0) = TRUE BY <3>1 DEF KeyInv
      <3> QED BY <1>6, <3>1, <3>2
    <2>2. CASE j # k
      <3>1. secret'[j] = secret[j] /\ issued'[j] = issued[j] /\ secret_set'[j] = secret_set[j]
            /\ revoked'[j] = revoked[j]
        BY <1>2, <2>2 DEF RotateSecret, KeyInv
      <3> QED BY <3>1, KeysByset
    <2> QED BY <2>1, <2>2
  <1>9. now' \in Nat BY DEF KeyInv
  <1> QED BY <1>7, <1>8, <1>9, KeysBysetNext

LEMMA KeysOfRevoke ==
  ASSUME KeyInv, NEW k \in SecretSets, RevokeSecret(k), UNCHANGED now
  PROVE  KeyInv'
  <1>1. PICK row \in secret[k] :
          /\ secret' = [secret EXCEPT ![k] = (@ \ {row}) \cup {Revoked(row)}]
          /\ revoked' = [revoked EXCEPT ![k] = @ \cup {row.version}]
    BY DEF RevokeSecret
  <1>2. KeysOK(secret[k], issued[k], TRUE, revoked[k])
    <2>1. KeysOK(secret[k], issued[k], secret_set[k] > 0, revoked[k]) BY KeysByset
    <2> QED BY <2>1 DEF RevokeSecret, Exists, KeysOK
  <1>3. row \in KeyRow /\ row.version \in Nat \ {0} BY <1>2 DEF KeysOK, KeyRow
  <1> DEFINE gone == Revoked(row)
             rows == (secret[k] \ {row}) \cup {gone}
  <1>4. gone \in KeyRow /\ gone.version = row.version /\ gone.state = "revoked"
    BY <1>3, RevokedFields
  <1> HIDE DEF gone
  <1>5. KeysOK(rows, issued[k], TRUE, revoked[k] \cup {row.version})
    <2>1. \A r, q \in rows : r.version = q.version => r = q
      BY <1>2, <1>4 DEF KeysOK
    <2>2. issued[k] \notin revoked[k] \cup {row.version} => \E r \in rows : r.state = "active"
      BY <1>2 DEF KeysOK
    <2> QED BY <1>2, <1>3, <1>4, <2>1, <2>2 DEF KeysOK
  <1>6. /\ secret_set' \in [SecretSets -> Nat] /\ secret' \in [SecretSets -> SUBSET KeyRow]
        /\ issued' \in [SecretSets -> Nat] /\ revoked' \in [SecretSets -> SUBSET (Nat \ {0})]
    BY <1>1, <1>3, <1>4 DEF RevokeSecret, KeyInv, gone
  <1>7. ASSUME NEW j \in SecretSets
        PROVE  KeysOK(secret'[j], issued'[j], secret_set'[j] > 0, revoked'[j])
    <2>1. CASE j = k
      <3>1. secret'[j] = rows /\ issued'[j] = issued[k] /\ secret_set'[j] = secret_set[k] + 1
            /\ revoked'[j] = revoked[k] \cup {row.version}
        BY <1>1, <2>1 DEF RevokeSecret, KeyInv, gone
      <3>2. (secret_set'[j] > 0) = TRUE BY <3>1 DEF KeyInv
      <3> QED BY <1>5, <3>1, <3>2
    <2>2. CASE j # k
      <3>1. secret'[j] = secret[j] /\ issued'[j] = issued[j] /\ secret_set'[j] = secret_set[j]
            /\ revoked'[j] = revoked[j]
        BY <1>1, <2>2 DEF RevokeSecret, KeyInv
      <3> QED BY <3>1, KeysByset
    <2> QED BY <2>1, <2>2
  <1>8. now' \in Nat BY DEF KeyInv
  <1> QED BY <1>6, <1>7, <1>8, KeysBysetNext

LEMMA KeysOfPrune ==
  ASSUME KeyInv, NEW cutoff \in 0 .. now, PruneSecrets(cutoff), UNCHANGED now
  PROVE  KeyInv'
  <1>0. PICK k \in SecretSets : \E gone \in SUBSET Prunable(k, cutoff) :
          secret' = [secret EXCEPT ![k] = @ \ gone]
    BY DEF PruneSecrets
  <1>1. PICK gone \in SUBSET Prunable(k, cutoff) : secret' = [secret EXCEPT ![k] = @ \ gone]
    BY <1>0
  <1>2. \A r \in gone : r.state # "active" BY <1>1 DEF Prunable
  <1>3. /\ secret_set' \in [SecretSets -> Nat] /\ secret' \in [SecretSets -> SUBSET KeyRow]
        /\ issued' \in [SecretSets -> Nat] /\ revoked' \in [SecretSets -> SUBSET (Nat \ {0})]
    BY <1>1 DEF PruneSecrets, KeyInv
  <1>4. ASSUME NEW j \in SecretSets
        PROVE  KeysOK(secret'[j], issued'[j], secret_set'[j] > 0, revoked'[j])
    <2>1. KeysOK(secret[j], issued[j], secret_set[j] > 0, revoked[j]) BY KeysByset
    <2>2. secret'[j] \subseteq secret[j] /\ \A r \in secret[j] \ secret'[j] : r.state # "active"
      BY <1>1, <1>2 DEF KeyInv
    <2>3. issued'[j] = issued[j] /\ secret_set'[j] = secret_set[j] /\ revoked'[j] = revoked[j]
      BY DEF PruneSecrets
    <2> QED BY <2>1, <2>2, <2>3 DEF KeysOK
  <1>5. now' \in Nat BY DEF KeyInv
  <1> QED BY <1>3, <1>4, <1>5, KeysBysetNext

LEMMA KeyNext == KeyInv /\ [Next]_vars => KeyInv'
  <1> SUFFICES ASSUME KeyInv, [Next]_vars PROVE KeyInv'
    OBVIOUS
  <1>1. CASE KeyStep /\ UNCHANGED now
    BY <1>1, KeysOfCreate, KeysOfRotate, KeysOfRevoke, KeysOfPrune DEF KeyStep
  <1>2. CASE UNCHANGED secretVars /\ now' = now + 1
    BY <1>2 DEF secretVars, KeyInv, NewestKeySigns, Exists, InState
  <1>3. CASE UNCHANGED <<now, secretVars>>
    BY <1>3 DEF secretVars, KeyInv, NewestKeySigns, Exists, InState
  <1> QED BY <1>1, <1>2, <1>3, KeySteps

LEMMA KeysHold == Spec => []KeyInv
  BY KeyInit, KeyNext, PTL DEF Spec

\* However rotations, revocations and retention interleave, a set is signed with
\* the version that its receivers were given last, or with none once that version
\* was revoked, and no version number is given out again (secrets.py:159-214,
\* webhook_schema.py:207-226).
THEOREM NewestVersionSigns == Spec => []NewestKeySigns
  <1>1. KeyInv => NewestKeySigns BY DEF KeyInv
  <1> QED BY <1>1, KeysHold, PTL

-----------------------------------------------------------------------------
(* What a step does to the keys that may sign.                               *)

\* A row signs now.
Signs(r, t) == r.state = "active" \/ (r.state = "retiring" /\ r.retiring_until >= t)

LEMMA Unsignable ==
  ASSUME NEW k \in SecretSets
  PROVE  /\ (eligible_for_signing(k) = {}) <=> (\A r \in secret[k] : ~Signs(r, now))
         /\ ((eligible_for_signing(k))' = {}) <=> (\A r \in secret'[k] : ~Signs(r, now'))
  BY DEF eligible_for_signing, Signs

LEMMA UnsignableStep ==
  ASSUME KeyInv, [Next]_vars, NEW k \in SecretSets, Exists(k), eligible_for_signing(k) = {}
  PROVE  eligible_for_signing(k)' = {}
  <1>1. \A r \in secret[k] : ~Signs(r, now) BY Unsignable
  <1> SUFFICES \A r \in secret'[k] : ~Signs(r, now')
    BY Unsignable
  <1>2. CASE KeyStep /\ UNCHANGED now
    <2>1. CASE \E j \in SecretSets : CreateSecret(j)
      <3>1. PICK j \in SecretSets : CreateSecret(j) BY <2>1
      <3>2. secret'[k] = secret[k] BY <3>1 DEF CreateSecret, KeyInv
      <3> QED BY <1>1, <1>2, <3>2
    <2>2. CASE \E j \in SecretSets : RevokeSecret(j)
      <3>1. PICK j \in SecretSets : RevokeSecret(j) BY <2>2
      <3>2. PICK row \in secret[j] :
              secret' = [secret EXCEPT ![j] = (@ \ {row}) \cup {Revoked(row)}]
        BY <3>1 DEF RevokeSecret
      <3>3. ~Signs(Revoked(row), now')
        <4>1. row \in KeyRow BY DEF KeyInv
        <4> QED BY <4>1, RevokedFields DEF Signs
      <3>4. \A r \in secret'[k] : r \in secret[k] \/ r = Revoked(row)
        BY <3>2 DEF KeyInv
      <3> QED BY <1>1, <1>2, <3>3, <3>4
    <2>3. CASE \E j \in SecretSets, window \in Overlaps : RotateSecret(j, window)
      <3>1. PICK j \in SecretSets, window \in Overlaps : RotateSecret(j, window) BY <2>3
      <3>2. PICK active \in InState(j, "active") :
              secret' = [secret EXCEPT ![j] =
                (@ \ {active}) \cup {Retiring(active, now + window), NewKey(active.version + 1)}]
        BY <3>1 DEF RotateSecret
      <3>3. active \in secret[j] /\ Signs(active, now) BY DEF InState, Signs
      <3>4. j # k BY <1>1, <3>3
      <3>5. secret'[k] = secret[k] BY <3>2, <3>4 DEF KeyInv
      <3> QED BY <1>1, <1>2, <3>5
    <2>4. CASE \E cutoff \in 0 .. now : PruneSecrets(cutoff)
      <3>1. secret'[k] \subseteq secret[k] BY <2>4 DEF PruneSecrets, KeyInv
      <3> QED BY <1>1, <1>2, <3>1
    <2> QED BY <1>2, <2>1, <2>2, <2>3, <2>4 DEF KeyStep
  <1>3. CASE UNCHANGED secretVars /\ now' = now + 1
    <2>1. \A r \in secret[k] : r.state = "retiring" => r.retiring_until \in Nat
      BY DEF KeyInv
    <2> QED BY <1>1, <1>3, <2>1 DEF Signs, secretVars, KeyInv
  <1>4. CASE UNCHANGED <<now, secretVars>>
    BY <1>1, <1>4 DEF secretVars
  <1> QED BY <1>2, <1>3, <1>4, KeySteps

\* A secret set that has lost its last eligible key never signs again: rotate has
\* no active row to start from, so the deliveries whose snapshot names the set
\* stay unsignable (secrets.py:168-185, 216-298).
THEOREM UnsignableForGood == Spec => UnsignableStays
  <1>1. KeyInv /\ [Next]_vars =>
          [\A k \in SecretSets :
             Exists(k) /\ eligible_for_signing(k) = {} => eligible_for_signing(k)' = {}]_<<now, secretVars>>
    BY UnsignableStep
  <1> QED BY <1>1, KeysHold, PTL DEF Spec, UnsignableStays

-----------------------------------------------------------------------------
(* Subscription heads.                                                       *)

HeadSame == UNCHANGED <<head, version, seen, auto_paused, activated>>

HeadStep ==
  \/ \E m \in Managers, s \in Subscriptions :
       \/ \E k \in SecretSets, types \in normalize_event_types, threshold \in Thresholds :
            CreateSubscription(m, s, k, types, threshold)
       \/ \E k \in SecretSets, types \in normalize_event_types : UpdateSubscription(m, s, k, types)
       \/ \E state \in SubscriptionState : SetState(m, s, state)
       \/ GetSubscription(m, s)
  \/ \E s : RecordSuccess(s) \/ RecordFailure(s)

LEMMA HeadSteps ==
  ASSUME [Next]_vars PROVE HeadStep \/ HeadSame
  <1>1. CASE Manage
    <2>1. CASE \E m \in Managers, s \in Subscriptions, k \in SecretSets,
                  types \in normalize_event_types, threshold \in Thresholds :
                 CreateSubscription(m, s, k, types, threshold)
      BY <2>1 DEF HeadStep
    <2>2. CASE \E m \in Managers, s \in Subscriptions, k \in SecretSets,
                  types \in normalize_event_types : UpdateSubscription(m, s, k, types)
      BY <2>2 DEF HeadStep
    <2>3. CASE \E m \in Managers, s \in Subscriptions : SetState(m, s, "disabled")
      BY <2>3 DEF HeadStep, SubscriptionState
    <2>4. CASE UNCHANGED subscriptionVars BY <2>4 DEF HeadSame, subscriptionVars
    <2> QED BY <1>1, <2>1, <2>2, <2>3, <2>4 DEF Manage
  <1>2. CASE Operate
    <2>1. CASE \E m \in Managers, s \in Subscriptions, state \in {"paused", "active"} :
                 SetState(m, s, state)
      BY <2>1 DEF HeadStep, SubscriptionState
    <2>2. CASE UNCHANGED subscriptionVars BY <2>2 DEF HeadSame, subscriptionVars
    <2> QED BY <1>2, <2>1, <2>2 DEF Operate
  <1>3. CASE Inspect BY <1>3 DEF Inspect, HeadStep
  <1>4. CASE PublishStep BY <1>4 DEF PublishStep, HeadSame, subscriptionVars
  <1>5. CASE \E a \in Attempts : Attempt(a) BY <1>5 DEF Attempt, HeadSame, subscriptionVars
  <1>6. CASE Health
    <2>1. PICK a \in Attempts : RecordHealth(a) \/ HealthUnrecorded(a) BY <1>6 DEF Health
    <2>2. CASE RecordHealth(a)
      <3>1. \E s : RecordSuccess(s) \/ RecordFailure(s) BY <2>2 DEF RecordHealth
      <3> QED BY <3>1 DEF HeadStep
    <2>3. CASE HealthUnrecorded(a)
      BY <2>3 DEF HealthUnrecorded, HeadSame, subscriptionVars
    <2> QED BY <2>1, <2>2, <2>3
  <1>7. CASE Retain BY <1>7 DEF Retain, HeadSame, subscriptionVars
  <1>8. CASE Tick BY <1>8 DEF Tick, HeadSame, subscriptionVars
  <1>9. CASE UNCHANGED vars BY <1>9 DEF vars, HeadSame, subscriptionVars
  <1> QED BY <1>1, <1>2, <1>3, <1>4, <1>5, <1>6, <1>7, <1>8, <1>9 DEF Next

\* What a manager was shown is the head at its revision, or an older one.
SeenOK(was, row) ==
  was # None => /\ row # None
                /\ was.revision <= row.revision
                /\ was.revision = row.revision => was = row

\* A subscription that does not exist was never active.
AuditOK(row, audits, times) ==
  /\ row = None => audits = 0
  /\ audits <= times
  /\ row # None /\ row.state = "active" => audits < times

HeadInv ==
  /\ head \in [Subscriptions -> HeadRow \cup {None}]
  /\ seen \in [Managers -> [Subscriptions -> HeadRow \cup {None}]]
  /\ auto_paused \in [Subscriptions -> Nat]
  /\ activated \in [Subscriptions -> Nat]
  /\ \A m \in Managers, s \in Subscriptions : SeenOK(seen[m][s], head[s])
  /\ \A s \in Subscriptions : AuditOK(head[s], auto_paused[s], activated[s])

LEMMA HeadInit == Init => HeadInv
  BY DEF Init, SubscriptionInit, HeadInv, SeenOK, AuditOK

\* The rows that the operations write.
LEMMA HeadRows ==
  ASSUME NEW row \in HeadRow
  PROVE  /\ NextVersion(row) \in HeadRow /\ NextVersion(row).revision = row.revision + 1
         /\ NextVersion(row).state = row.state
         /\ \A state \in SubscriptionState :
              /\ Moved(row, state) \in HeadRow /\ Moved(row, state).revision = row.revision + 1
              /\ Moved(row, state).state = state
         /\ Recovered(row) \in HeadRow /\ Recovered(row).revision = row.revision + 1
         /\ Recovered(row).state = row.state
         /\ Failed(row) \in HeadRow /\ Failed(row).revision = row.revision + 1
         /\ \/ Failed(row).state = row.state
            \/ row.state = "active" /\ Failed(row).state = "paused"
         /\ row.revision \in Nat
  <1>1. /\ row.current_version \in Nat \ {0} /\ row.revision \in Nat \ {0}
        /\ row.state \in SubscriptionState /\ row.failure_streak \in Nat
        /\ row.auto_pause_threshold \in Nat \ {0}
    BY DEF HeadRow
  <1> DEFINE up == row.revision + 1
             next == row.current_version + 1
             streak == row.failure_streak + 1
  <1>0. up \in Nat \ {0} /\ next \in Nat \ {0} /\ streak \in Nat /\ 0 \in Nat BY <1>1
  <1>7. /\ NextVersion(row) = [row EXCEPT !.current_version = next, !.revision = up]
        /\ \A state : Moved(row, state) = [row EXCEPT !.state = state, !.revision = up]
        /\ Recovered(row) = [row EXCEPT !.failure_streak = 0, !.revision = up]
    BY DEF NextVersion, Moved, Recovered
  <1>8. Failed(row) = [row EXCEPT !.failure_streak = streak, !.revision = up,
          !.state = IF row.state = "active" /\ streak >= row.auto_pause_threshold
                      THEN "paused" ELSE row.state]
    BY DEF Failed
  <1> HIDE DEF up, next, streak
  <1>2. /\ NextVersion(row) \in HeadRow /\ NextVersion(row).revision = up
        /\ NextVersion(row).state = row.state
    BY <1>0, <1>7 DEF HeadRow
  <1>3. ASSUME NEW state \in SubscriptionState
        PROVE  /\ Moved(row, state) \in HeadRow /\ Moved(row, state).revision = up
               /\ Moved(row, state).state = state
    <2>1. Moved(row, state) = [row EXCEPT !.state = state, !.revision = up] BY <1>7
    <2> QED BY <1>0, <2>1 DEF HeadRow
  <1>4. /\ Recovered(row) \in HeadRow /\ Recovered(row).revision = up
        /\ Recovered(row).state = row.state
    BY <1>0, <1>7 DEF HeadRow
  <1>5. PICK state \in SubscriptionState :
          /\ Failed(row) = [row EXCEPT !.failure_streak = streak, !.revision = up, !.state = state]
          /\ state = row.state \/ (row.state = "active" /\ state = "paused")
    BY <1>1, <1>8 DEF SubscriptionState
  <1>6. Failed(row) \in HeadRow /\ Failed(row).revision = up /\ Failed(row).state = state
    BY <1>0, <1>5 DEF HeadRow
  <1>9. up = row.revision + 1 /\ row.revision \in Nat BY <1>1 DEF up
  <1> QED BY <1>2, <1>3, <1>4, <1>5, <1>6, <1>9

\* A writer of one head that raises its revision, and shows the row to one manager
\* or to none, keeps what managers were shown.
LEMMA SeenKept ==
  ASSUME HeadInv, NEW s \in Subscriptions, NEW row \in HeadRow,
         head' = [head EXCEPT ![s] = row],
         head[s] = None \/ row = head[s] \/ row.revision = head[s].revision + 1,
         \/ seen' = seen
         \/ \E m \in Managers : seen' = [seen EXCEPT ![m][s] = head'[s]]
  PROVE  /\ head' \in [Subscriptions -> HeadRow \cup {None}]
         /\ seen' \in [Managers -> [Subscriptions -> HeadRow \cup {None}]]
         /\ head'[s] = row
         /\ \A j \in Subscriptions : j # s => head'[j] = head[j]
         /\ \A m \in Managers, j \in Subscriptions : SeenOK(seen'[m][j], head'[j])
  <1>1. /\ head' \in [Subscriptions -> HeadRow \cup {None}] /\ head'[s] = row
        /\ \A j \in Subscriptions : j # s => head'[j] = head[j]
    BY DEF HeadInv
  <1>2. /\ seen' \in [Managers -> [Subscriptions -> HeadRow \cup {None}]]
        /\ \A m \in Managers, j \in Subscriptions :
             seen'[m][j] = seen[m][j] \/ (j = s /\ seen'[m][j] = row)
    <2>1. CASE seen' = seen BY <2>1 DEF HeadInv
    <2>2. CASE \E m \in Managers : seen' = [seen EXCEPT ![m][s] = head'[s]]
      <3>1. PICK m \in Managers : seen' = [seen EXCEPT ![m] = [@ EXCEPT ![s] = row]]
        BY <1>1, <2>2
      <3>2. seen \in [Managers -> [Subscriptions -> HeadRow \cup {None}]] BY DEF HeadInv
      <3>3. [seen[m] EXCEPT ![s] = row] \in [Subscriptions -> HeadRow \cup {None}] BY <3>2
      <3>4. seen' \in [Managers -> [Subscriptions -> HeadRow \cup {None}]]
        BY <3>1, <3>2, <3>3
      <3>5. ASSUME NEW q \in Managers, NEW j \in Subscriptions
            PROVE  seen'[q][j] = seen[q][j] \/ (j = s /\ seen'[q][j] = row)
        <4>1. CASE q = m
          <5>1. seen'[q] = [seen[m] EXCEPT ![s] = row] BY <3>1, <3>2, <4>1
          <5> QED BY <3>2, <4>1, <5>1
        <4>2. CASE q # m BY <3>1, <3>2, <4>2
        <4> QED BY <4>1, <4>2
      <3> QED BY <3>4, <3>5
    <2> QED BY <2>1, <2>2
  <1>3. ASSUME NEW m \in Managers, NEW j \in Subscriptions
        PROVE  SeenOK(seen'[m][j], head'[j])
    <2>1. SeenOK(seen[m][j], head[j]) /\ head[j] \in HeadRow \cup {None}
          /\ seen[m][j] \in HeadRow \cup {None}
      BY DEF HeadInv
    <2>2. row.revision \in Nat /\ row # None BY NoneAssumption DEF HeadRow
    <2>3. CASE j # s /\ seen'[m][j] = seen[m][j] BY <1>1, <2>1, <2>3
    <2>4. CASE j = s /\ seen'[m][j] = row BY <1>1, <2>2, <2>4 DEF SeenOK
    <2>5. CASE j = s /\ seen'[m][j] = seen[m][j]
      <3>1. CASE seen[m][j] = None BY <2>5, <3>1 DEF SeenOK
      <3>2. CASE row = head[s] BY <1>1, <2>1, <2>5, <3>2
      <3>3. CASE seen[m][j] # None /\ row # head[s]
        <4>1. /\ head[s] \in HeadRow /\ seen[m][j] \in HeadRow
              /\ seen[m][j].revision <= head[s].revision
              /\ row.revision = head[s].revision + 1
          BY <2>1, <2>5, <3>3 DEF SeenOK
        <4>2. seen[m][j].revision \in Nat /\ head[s].revision \in Nat BY <4>1 DEF HeadRow
        <4> QED BY <1>1, <2>2, <2>5, <4>1, <4>2 DEF SeenOK
      <3> QED BY <3>1, <3>2, <3>3
    <2> QED BY <1>2, <2>3, <2>4, <2>5
  <1> QED BY <1>1, <1>2, <1>3

LEMMA HeadNextCreate ==
  ASSUME HeadInv, NEW m \in Managers, NEW s \in Subscriptions, NEW k \in SecretSets,
         NEW types \in normalize_event_types, NEW threshold \in Thresholds,
         CreateSubscription(m, s, k, types, threshold)
  PROVE  HeadInv'
  <1> DEFINE row == [current_version |-> 1, revision |-> 1, state |-> "active",
                     failure_streak |-> 0, auto_pause_threshold |-> threshold]
  <1>1. row \in HeadRow BY SubscriptionAssumption DEF HeadRow, SubscriptionState
  <1>2. /\ head[s] = None /\ head' = [head EXCEPT ![s] = row]
        /\ seen' = [seen EXCEPT ![m][s] = head'[s]]
        /\ activated' = [activated EXCEPT ![s] = 1] /\ auto_paused' = auto_paused
    BY DEF CreateSubscription, Shown
  <1> row.state = "active" OBVIOUS
  <1> HIDE DEF row
  <1>3. /\ head' \in [Subscriptions -> HeadRow \cup {None}]
        /\ seen' \in [Managers -> [Subscriptions -> HeadRow \cup {None}]]
        /\ head'[s] = row /\ \A j \in Subscriptions : j # s => head'[j] = head[j]
        /\ \A q \in Managers, j \in Subscriptions : SeenOK(seen'[q][j], head'[j])
    BY <1>1, <1>2, SeenKept
  <1>4. ASSUME NEW j \in Subscriptions PROVE AuditOK(head'[j], auto_paused'[j], activated'[j])
    <2>1. CASE j = s BY <1>1, <1>2, <1>3, <2>1, NoneAssumption DEF HeadInv, AuditOK
    <2>2. CASE j # s BY <1>2, <1>3, <2>2 DEF HeadInv
    <2> QED BY <2>1, <2>2
  <1>5. auto_paused' \in [Subscriptions -> Nat] /\ activated' \in [Subscriptions -> Nat]
    BY <1>2 DEF HeadInv
  <1> QED BY <1>3, <1>4, <1>5 DEF HeadInv

LEMMA HeadNextUpdate ==
  ASSUME HeadInv, NEW m \in Managers, NEW s \in Subscriptions, NEW k \in SecretSets,
         NEW types \in normalize_event_types, UpdateSubscription(m, s, k, types)
  PROVE  HeadInv'
  <1>1. head[s] \in HeadRow BY DEF UpdateSubscription, Expected, HeadInv
  <1> DEFINE row == NextVersion(head[s])
  <1>2. row \in HeadRow /\ row.revision = head[s].revision + 1 /\ row.state = head[s].state
    BY <1>1, HeadRows
  <1>3. /\ head' = [head EXCEPT ![s] = row] /\ seen' = [seen EXCEPT ![m][s] = head'[s]]
        /\ activated' = activated /\ auto_paused' = auto_paused
    BY DEF UpdateSubscription, Shown
  <1> HIDE DEF row
  <1>4. /\ head' \in [Subscriptions -> HeadRow \cup {None}]
        /\ seen' \in [Managers -> [Subscriptions -> HeadRow \cup {None}]]
        /\ head'[s] = row /\ \A j \in Subscriptions : j # s => head'[j] = head[j]
        /\ \A q \in Managers, j \in Subscriptions : SeenOK(seen'[q][j], head'[j])
    BY <1>2, <1>3, SeenKept
  <1>5. ASSUME NEW j \in Subscriptions PROVE AuditOK(head'[j], auto_paused'[j], activated'[j])
    <2>1. CASE j = s BY <1>1, <1>2, <1>3, <1>4, <2>1, NoneAssumption DEF HeadInv, AuditOK
    <2>2. CASE j # s BY <1>3, <1>4, <2>2 DEF HeadInv
    <2> QED BY <2>1, <2>2
  <1> QED BY <1>3, <1>4, <1>5 DEF HeadInv

LEMMA HeadNextState ==
  ASSUME HeadInv, NEW m \in Managers, NEW s \in Subscriptions, NEW state \in SubscriptionState,
         SetState(m, s, state)
  PROVE  HeadInv'
  <1>1. head[s] \in HeadRow BY DEF SetState, Expected, HeadInv
  <1> DEFINE row == Moved(head[s], state)
             times == activated[s] + (IF state = "active" /\ head[s].state # "active" THEN 1 ELSE 0)
  <1>2. row \in HeadRow /\ row.revision = head[s].revision + 1 /\ row.state = state
    BY <1>1, HeadRows
  <1>3. /\ head' = [head EXCEPT ![s] = row] /\ seen' = [seen EXCEPT ![m][s] = head'[s]]
        /\ activated' = [activated EXCEPT ![s] = times] /\ auto_paused' = auto_paused
    BY DEF SetState, Shown
  <1>4. /\ times \in Nat /\ activated[s] <= times
        /\ state = "active" /\ head[s].state # "active" => times = activated[s] + 1
    BY DEF HeadInv
  <1> HIDE DEF row, times
  <1>5. /\ head' \in [Subscriptions -> HeadRow \cup {None}]
        /\ seen' \in [Managers -> [Subscriptions -> HeadRow \cup {None}]]
        /\ head'[s] = row /\ \A j \in Subscriptions : j # s => head'[j] = head[j]
        /\ \A q \in Managers, j \in Subscriptions : SeenOK(seen'[q][j], head'[j])
    BY <1>2, <1>3, SeenKept
  <1>6. ASSUME NEW j \in Subscriptions PROVE AuditOK(head'[j], auto_paused'[j], activated'[j])
    <2>1. CASE j = s
      <3>1. auto_paused[s] \in Nat /\ activated[s] \in Nat /\ activated'[s] = times
        BY <1>3 DEF HeadInv
      <3>2. AuditOK(head[s], auto_paused[s], activated[s]) /\ head[s] # None
        BY <1>1, NoneAssumption DEF HeadInv
      <3>3. AuditOK(row, auto_paused[s], times)
        BY <1>2, <1>4, <3>1, <3>2, NoneAssumption DEF AuditOK
      <3> QED BY <1>3, <1>5, <2>1, <3>1, <3>3
    <2>2. CASE j # s BY <1>3, <1>5, <2>2 DEF HeadInv
    <2> QED BY <2>1, <2>2
  <1>7. auto_paused' \in [Subscriptions -> Nat] /\ activated' \in [Subscriptions -> Nat]
    BY <1>3, <1>4 DEF HeadInv
  <1> QED BY <1>5, <1>6, <1>7 DEF HeadInv

LEMMA HeadNextGet ==
  ASSUME HeadInv, NEW m \in Managers, NEW s \in Subscriptions, GetSubscription(m, s)
  PROVE  HeadInv'
  <1>1. head[s] \in HeadRow BY DEF GetSubscription, HeadInv
  <1>2. head' = [head EXCEPT ![s] = head[s]] /\ head'[s] = head[s]
    BY DEF GetSubscription, HeadInv
  <1>3. /\ seen' = [seen EXCEPT ![m][s] = head'[s]] /\ head' = head
        /\ activated' = activated /\ auto_paused' = auto_paused
    BY <1>2 DEF GetSubscription
  <1>4. /\ seen' \in [Managers -> [Subscriptions -> HeadRow \cup {None}]]
        /\ \A q \in Managers, j \in Subscriptions : SeenOK(seen'[q][j], head'[j])
    BY <1>1, <1>2, <1>3, SeenKept
  <1> QED BY <1>3, <1>4 DEF HeadInv

\* Health is accounted on the subscription that a delivery's route names.
LEMMA HeadNextHealth ==
  ASSUME HeadInv, NEW s, RecordSuccess(s) \/ RecordFailure(s)
  PROVE  HeadInv'
  <1>0. seen' = seen /\ activated' = activated BY DEF RecordSuccess, RecordFailure
  <1>1. CASE s \notin Subscriptions
    <2>1. head' = head /\ auto_paused' = auto_paused
      BY <1>1 DEF RecordSuccess, RecordFailure, HeadInv
    <2> QED BY <1>0, <2>1 DEF HeadInv
  <1>2. CASE s \in Subscriptions
    <2>1. head[s] \in HeadRow BY <1>2 DEF RecordSuccess, RecordFailure, HeadInv
    <2>2. CASE RecordSuccess(s)
      <3> DEFINE row == IF head[s].failure_streak = 0 THEN head[s] ELSE Recovered(head[s])
      <3>1. /\ row \in HeadRow
            /\ row = head[s] \/ row.revision = head[s].revision + 1
            /\ row.state = head[s].state
        BY <2>1, HeadRows
      <3>2. head' = [head EXCEPT ![s] = row] /\ auto_paused' = auto_paused
        BY <2>2 DEF RecordSuccess
      <3> HIDE DEF row
      <3>3. /\ head' \in [Subscriptions -> HeadRow \cup {None}]
            /\ head'[s] = row /\ \A j \in Subscriptions : j # s => head'[j] = head[j]
            /\ \A q \in Managers, j \in Subscriptions : SeenOK(seen'[q][j], head'[j])
        BY <1>0, <1>2, <3>1, <3>2, SeenKept
      <3>4. ASSUME NEW j \in Subscriptions
            PROVE  AuditOK(head'[j], auto_paused'[j], activated'[j])
        <4>1. CASE j = s
          BY <1>0, <2>1, <3>1, <3>2, <3>3, <4>1, NoneAssumption DEF HeadInv, AuditOK
        <4>2. CASE j # s BY <1>0, <3>2, <3>3, <4>2 DEF HeadInv
        <4> QED BY <4>1, <4>2
      <3> QED BY <1>0, <3>2, <3>3, <3>4 DEF HeadInv
    <2>3. CASE RecordFailure(s)
      <3> DEFINE row == Failed(head[s])
                 audits == auto_paused[s] + (IF row.state # head[s].state THEN 1 ELSE 0)
      <3>1. /\ row \in HeadRow /\ row.revision = head[s].revision + 1
            /\ row.state = head[s].state \/ (head[s].state = "active" /\ row.state = "paused")
        BY <2>1, HeadRows
      <3>2. head' = [head EXCEPT ![s] = row] /\ auto_paused' = [auto_paused EXCEPT ![s] = audits]
        BY <2>3 DEF RecordFailure
      <3> HIDE DEF row
      <3>3. /\ head' \in [Subscriptions -> HeadRow \cup {None}]
            /\ head'[s] = row /\ \A j \in Subscriptions : j # s => head'[j] = head[j]
            /\ \A q \in Managers, j \in Subscriptions : SeenOK(seen'[q][j], head'[j])
        BY <1>0, <1>2, <3>1, <3>2, SeenKept
      <3>4. /\ auto_paused[s] \in Nat /\ activated[s] \in Nat
            /\ AuditOK(head[s], auto_paused[s], activated[s]) /\ head[s] # None
        BY <1>2, <2>1, NoneAssumption DEF HeadInv
      <3>5. audits \in Nat /\ AuditOK(row, audits, activated[s])
        <4>1. CASE row.state = head[s].state
          <5>1. audits = auto_paused[s] BY <3>4, <4>1
          <5>2. row # None BY <3>1, NoneAssumption
          <5> HIDE DEF audits
          <5> QED BY <3>4, <4>1, <5>1, <5>2 DEF AuditOK
        <4>2. CASE row.state # head[s].state
          <5>1. audits = auto_paused[s] + 1 /\ head[s].state = "active" /\ row.state = "paused"
            BY <3>1, <4>2
          <5>2. row # None BY <3>1, NoneAssumption
          <5>3. auto_paused[s] < activated[s] BY <3>4, <5>1 DEF AuditOK
          <5>4. audits \in Nat /\ audits <= activated[s] BY <3>4, <5>1, <5>3
          <5> HIDE DEF audits
          <5> QED BY <5>1, <5>2, <5>4 DEF AuditOK
        <4> QED BY <4>1, <4>2
      <3> HIDE DEF audits
      <3>6. auto_paused' \in [Subscriptions -> Nat] /\ auto_paused'[s] = audits
            /\ \A j \in Subscriptions : j # s => auto_paused'[j] = auto_paused[j]
        BY <1>2, <3>2, <3>5 DEF HeadInv
      <3>7. ASSUME NEW j \in Subscriptions
            PROVE  AuditOK(head'[j], auto_paused'[j], activated'[j])
        <4>1. CASE j = s BY <1>0, <3>3, <3>5, <3>6, <4>1
        <4>2. CASE j # s BY <1>0, <3>3, <3>6, <4>2 DEF HeadInv
        <4> QED BY <4>1, <4>2
      <3> QED BY <1>0, <3>3, <3>6, <3>7 DEF HeadInv
    <2> QED BY <2>2, <2>3
  <1> QED BY <1>1, <1>2

LEMMA HeadNext == HeadInv /\ [Next]_vars => HeadInv'
  <1> SUFFICES ASSUME HeadInv, [Next]_vars PROVE HeadInv'
    OBVIOUS
  <1>1. CASE HeadStep
    BY <1>1, HeadNextCreate, HeadNextUpdate, HeadNextState, HeadNextGet, HeadNextHealth
       DEF HeadStep
  <1>2. CASE HeadSame BY <1>2 DEF HeadSame, HeadInv
  <1> QED BY <1>1, <1>2, HeadSteps

LEMMA HeadsHold == Spec => []HeadInv
  BY HeadInit, HeadNext, PTL DEF Spec

\* A revision that a manager's change is accepted under names the very row the
\* manager was shown, whatever other managers and relays did to the row since
\* (subscriptions.py:138, operations.py:79-88).
THEOREM AcceptedRevisionNamesHead == Spec => []RevisionNamesHead
  <1>1. HeadInv => RevisionNamesHead
    BY DEF HeadInv, SeenOK, RevisionNamesHead, Expected
  <1> QED BY <1>1, HeadsHold, PTL

\* Relays pause a subscription, and audit it, at most once for each time that it was
\* made active, for any number of relays that report failures at once
\* (operations.py:83-100).
THEOREM PauseAuditedOnce == Spec => []AuditedOncePerActivation
  <1>1. HeadInv => AuditedOncePerActivation
    BY DEF HeadInv, AuditOK, AuditedOncePerActivation
  <1> QED BY <1>1, HeadsHold, PTL

-----------------------------------------------------------------------------
(* The request of an attempt.                                                *)

\* What addresses are left may each take one more copy.
Budget(r) ==
  IF r.phase = "resolve"
    THEN r.left = {} /\ r.copies <= MaximumAddresses * r.redirects
    ELSE r.copies + Cardinality(r.left) <= MaximumAddresses * (r.redirects + 1)

\* A 2xx is known only while its connection closes and after the end.
Answered(r) ==
  /\ r.outcome = "success" => r.accepted
  /\ r.accepted => r.phase \in {"closing", "ended"} /\ r.outcome \in {"none", "success", "timeout"}
  /\ r.phase = "closing" => (r.accepted <=> r.status = "2xx")
  /\ r.phase # "ended" => r.outcome = "none"

RequestOK(r) ==
  /\ r \in Request
  /\ Answered(r)
  /\ r.contacted \cup r.left \subseteq Public
  /\ r.retry_after \in 0 .. MaximumDelay
  /\ Budget(r)

LEMMA LimitFacts ==
  ASSUME NEW n \in Nat
  PROVE  /\ MaximumAddresses \in Nat \ {0}
         /\ MaximumAddresses * n \in Nat
         /\ MaximumAddresses * (n + 1) = MaximumAddresses * n + MaximumAddresses
  BY TransportAssumption

\* Addresses that are left are finitely many.
LEMMA LeftFinite ==
  ASSUME NEW S \in SUBSET Addresses
  PROVE  /\ IsFiniteSet(S) /\ Cardinality(S) \in Nat
         /\ \A ip \in S : Cardinality(S \ {ip}) = Cardinality(S) - 1
  <1>1. IsFiniteSet(S)
    BY FS_Subset, TransportAssumption
  <1>2. QED
    BY <1>1, FS_CardinalityType, FS_RemoveElement

LEMMA EmptyCardinality == Cardinality({}) = 0
  BY FS_EmptySet

\* The copies of a request stay below one for each address of each redirect.
LEMMA BudgetBounds ==
  ASSUME NEW r, RequestOK(r)
  PROVE  /\ r.copies \in Nat /\ r.redirects \in Nat /\ Cardinality(r.left) \in Nat
         /\ MaximumAddresses * r.redirects \in Nat
         /\ MaximumAddresses * (r.redirects + 1) \in Nat
         /\ r.copies <= MaximumAddresses * (r.redirects + 1)
  <1>1. /\ r.copies \in Nat /\ r.redirects \in Nat /\ r.left \in SUBSET Addresses
    BY TransportAssumption DEF RequestOK, Request
  <1>2. Cardinality(r.left) \in Nat
    BY <1>1, LeftFinite
  <1>3. /\ MaximumAddresses \in Nat \ {0}
        /\ MaximumAddresses * r.redirects \in Nat
        /\ MaximumAddresses * (r.redirects + 1) = MaximumAddresses * r.redirects + MaximumAddresses
    BY <1>1, LimitFacts
  <1>4. QED
    BY <1>1, <1>2, <1>3 DEF RequestOK, Budget

LEMMA EmptyRequest == RequestOK(NoRequest)
  BY EmptyCardinality, LimitFacts, TransportAssumption
     DEF RequestOK, NoRequest, Request, Budget, Answered

\* A 2xx may be lost to the deadline, and nothing else is a success.
LEMMA RequestEnds ==
  ASSUME NEW r, RequestOK(r), r.phase # "ended",
         NEW outcome \in {"success", "retryable", "permanent", "timeout"},
         outcome = "success" => r.accepted,
         r.accepted => outcome \in {"success", "timeout"}
  PROVE  RequestOK(Ended(r, outcome))
  <1> DEFINE q == Ended(r, outcome)
  <1>1. r \in Request /\ 0 \in 0 .. MaximumInformational
    BY TransportAssumption DEF RequestOK
  <1>2. /\ q \in Request /\ q.phase = "ended" /\ q.left = {} /\ q.outcome = outcome
        /\ q.redirects = r.redirects /\ q.copies = r.copies /\ q.accepted = r.accepted
        /\ q.contacted = r.contacted /\ q.retry_after = r.retry_after
    BY <1>1 DEF Ended, Request
  <1> HIDE DEF q
  <1>3. Budget(q)
    BY <1>2, BudgetBounds, EmptyCardinality DEF Budget
  <1>4. Answered(q)
    BY <1>2 DEF Answered
  <1>5. RequestOK(q)
    BY <1>1, <1>2, <1>3, <1>4 DEF RequestOK, Request
  <1>6. QED
    BY <1>5 DEF q

\* Before its connection closes, a request has read no 2xx.
LEMMA Unanswered ==
  ASSUME NEW r, RequestOK(r), r.phase \notin {"closing", "ended"}
  PROVE  ~r.accepted
  BY DEF RequestOK, Answered

LEMMA ClosingOK ==
  ASSUME NEW r, RequestOK(r), r.phase = "response", NEW status \in Statuses
  PROVE  RequestOK(Closing(r, status))
  <1> DEFINE q == Closing(r, status)
             accepted == status = "2xx"
  <1>1. r \in Request /\ 0 \in 0 .. MaximumInformational /\ accepted \in BOOLEAN
    BY TransportAssumption DEF RequestOK
  <1>2. q = [r EXCEPT !.phase = "closing", !.informational = 0, !.status = status,
                      !.accepted = accepted]
    BY DEF Closing
  <1> HIDE DEF q, accepted
  <1>3. /\ q \in Request /\ q.phase = "closing" /\ q.left = r.left /\ q.outcome = r.outcome
        /\ q.redirects = r.redirects /\ q.copies = r.copies /\ q.accepted = accepted
        /\ q.status = status /\ q.contacted = r.contacted /\ q.retry_after = r.retry_after
    BY <1>1, <1>2 DEF Request
  <1>4. Answered(q)
    BY <1>3 DEF RequestOK, Answered, accepted
  <1>5. RequestOK(q)
    BY <1>3, <1>4 DEF RequestOK, Budget
  <1>6. QED
    BY <1>5 DEF q

LEMMA PassedOK ==
  ASSUME NEW r, RequestOK(r), r.phase = "closing", r.status = "failed"
  PROVE  RequestOK(Passed(r))
  <1>0. ~r.accepted
    BY DEF RequestOK, Answered
  <1>1. CASE r.left = {}
    BY <1>0, <1>1, RequestEnds DEF Passed
  <1>2. CASE r.left # {}
    <2> DEFINE q == [r EXCEPT !.phase = "connect", !.status = "none"]
    <2>1. r \in Request
      BY DEF RequestOK
    <2>2. /\ q \in Request /\ q.phase = "connect" /\ q.left = r.left /\ q.outcome = r.outcome
          /\ q.redirects = r.redirects /\ q.copies = r.copies /\ q.accepted = r.accepted
          /\ q.contacted = r.contacted /\ q.retry_after = r.retry_after
      BY <2>1 DEF Request
    <2> HIDE DEF q
    <2>3. Answered(q)
      BY <1>0, <2>2 DEF RequestOK, Answered
    <2>4. RequestOK(q)
      BY <2>2, <2>3 DEF RequestOK, Budget
    <2>5. QED
      BY <1>2, <2>4 DEF Passed, q
  <1>3. QED
    BY <1>1, <1>2

\* parse_retry_after answers with a delay the policy allows.
LEMMA RetryAfterBounds ==
  ASSUME NEW value \in Int, NEW remaining \in Int
  PROVE  parse_retry_after(value, remaining) \in 0 .. MaximumDelay
  BY TransportAssumption DEF parse_retry_after, Least, Greatest

LEMMA ResolveOK ==
  ASSUME NEW r, RequestOK(r), r.phase = "resolve",
         NEW answer \in SUBSET Addresses, NEW used \in SUBSET answer, Approved(answer),
         Cardinality(used) = Least(Cardinality(answer), MaximumAddresses)
  PROVE  RequestOK([r EXCEPT !.phase = "connect", !.left = used])
  <1> DEFINE q == [r EXCEPT !.phase = "connect", !.left = used]
  <1>1. r \in Request /\ used \in SUBSET Addresses /\ used \subseteq Public
    BY DEF RequestOK, Approved
  <1>2. /\ q \in Request /\ q.phase = "connect" /\ q.left = used /\ q.outcome = r.outcome
        /\ q.redirects = r.redirects /\ q.copies = r.copies /\ q.accepted = r.accepted
        /\ q.contacted = r.contacted /\ q.retry_after = r.retry_after
    BY <1>1 DEF Request
  <1> HIDE DEF q
  <1>3. Cardinality(used) <= MaximumAddresses /\ Cardinality(used) \in Nat
    <2>1. Cardinality(answer) \in Nat /\ Cardinality(used) \in Nat
      BY <1>1, LeftFinite
    <2>2. QED
      BY <2>1, TransportAssumption DEF Least
  <1>4. Budget(q)
    <2>1. r.redirects \in Nat /\ r.copies \in Nat
      BY BudgetBounds
    <2>2. r.copies <= MaximumAddresses * r.redirects
      BY DEF RequestOK, Budget
    <2> DEFINE spent == MaximumAddresses * r.redirects
    <2>3. spent \in Nat /\ MaximumAddresses * (r.redirects + 1) = spent + MaximumAddresses
          /\ MaximumAddresses \in Nat
      BY <2>1, LimitFacts
    <2>4. r.copies <= spent
      BY <2>2
    <2> HIDE DEF spent
    <2>5. r.copies + Cardinality(used) <= spent + MaximumAddresses
      BY <1>3, <2>1, <2>3, <2>4
    <2>6. r.copies + Cardinality(used) <= MaximumAddresses * (r.redirects + 1)
      BY <2>3, <2>5
    <2>7. QED
      BY <1>2, <2>6 DEF Budget
  <1>5. RequestOK(q)
    BY <1>1, <1>2, <1>4 DEF RequestOK, Answered
  <1>6. QED
    BY <1>5 DEF q

\* One address is used up by one copy at most.
LEMMA SendOK ==
  ASSUME NEW r, RequestOK(r), r.phase = "connect", NEW ip \in r.left, NEW arrived \in {0, 1}
  PROVE  RequestOK(Sent(r, ip)) /\ RequestOK(Broken(r, ip, arrived))
  <1> DEFINE q == Sent(r, ip)
             b == Broken(r, ip, arrived)
             c == Closing(r, "failed")
             left == r.left \ {ip}
  <1>1. r \in Request /\ r.left \in SUBSET Addresses /\ ip \in Public /\ left \in SUBSET Addresses
    BY DEF RequestOK, Request
  <1>2. ip \in Addresses /\ 0 \in 0 .. MaximumInformational /\ r.copies + 1 \in Nat
        /\ r.copies + arrived \in Nat
    BY <1>1, BudgetBounds, TransportAssumption
  <1>3. /\ q \in Request /\ q.phase = "response" /\ q.left = left /\ q.outcome = r.outcome
        /\ q.redirects = r.redirects /\ q.copies = r.copies + 1 /\ q.accepted = r.accepted
        /\ q.contacted = r.contacted \cup {ip} /\ q.retry_after = r.retry_after
    BY <1>1, <1>2 DEF Request, Sent
  <1>c. /\ c \in Request /\ c.phase = "closing" /\ c.outcome = r.outcome
        /\ c.redirects = r.redirects /\ c.accepted = FALSE /\ c.status = "failed"
        /\ c.contacted = r.contacted /\ c.retry_after = r.retry_after
    BY <1>1, <1>2 DEF Request, Closing, Statuses
  <1>b. b = [c EXCEPT !.left = left, !.copies = r.copies + arrived,
                      !.contacted = r.contacted \cup {ip}]
    BY DEF Broken
  <1> HIDE DEF q, b, c
  <1>4. /\ b \in Request /\ b.phase = "closing" /\ b.left = left /\ b.outcome = r.outcome
        /\ b.redirects = r.redirects /\ b.copies = r.copies + arrived
        /\ b.accepted = FALSE /\ b.status = "failed"
        /\ b.contacted = r.contacted \cup {ip} /\ b.retry_after = r.retry_after
    BY <1>1, <1>2, <1>c, <1>b DEF Request
  <1>5. Budget(q) /\ Budget(b)
    <2>1. Cardinality(left) = Cardinality(r.left) - 1 /\ Cardinality(r.left) \in Nat
      BY <1>1, LeftFinite
    <2>2. r.copies + Cardinality(r.left) <= MaximumAddresses * (r.redirects + 1)
      BY DEF RequestOK, Budget
    <2> DEFINE m == MaximumAddresses * (r.redirects + 1)
    <2>3. r.copies \in Nat /\ m \in Nat
      BY BudgetBounds
    <2> HIDE DEF m, left
    <2>4. /\ r.copies + 1 + Cardinality(left) <= m
          /\ r.copies + arrived + Cardinality(left) <= m
      BY <2>1, <2>2, <2>3 DEF m
    <2>5. QED
      BY <1>3, <1>4, <2>4 DEF Budget, m
  <1>6. RequestOK(q) /\ RequestOK(b)
    BY <1>1, <1>3, <1>4, <1>5 DEF RequestOK, Answered
  <1>7. QED
    BY <1>6 DEF q, b

LEMMA CountedOK ==
  ASSUME NEW r, RequestOK(r), r.phase = "response"
  PROVE  RequestOK(Counted(r))
  <1>1. CASE r.informational = MaximumInformational
    BY <1>1, ClosingOK DEF Counted, Statuses
  <1>2. CASE r.informational # MaximumInformational
    <2> DEFINE q == [r EXCEPT !.informational = r.informational + 1]
    <2>1. r \in Request /\ r.informational + 1 \in 0 .. MaximumInformational
      BY <1>2, TransportAssumption DEF RequestOK, Request
    <2>2. /\ q \in Request /\ q.phase = r.phase /\ q.left = r.left /\ q.outcome = r.outcome
          /\ q.redirects = r.redirects /\ q.copies = r.copies /\ q.accepted = r.accepted
          /\ q.contacted = r.contacted /\ q.retry_after = r.retry_after
      BY <2>1 DEF Request
    <2> HIDE DEF q
    <2>3. RequestOK(q)
      BY <2>2 DEF RequestOK, Budget, Answered
    <2>4. QED
      BY <1>2, <2>3 DEF Counted, q
  <1>3. QED
    BY <1>1, <1>2

\* A redirect begins the addresses anew and keeps the copies.
LEMMA RedirectedOK ==
  ASSUME NEW r, RequestOK(r), r.phase = "closing", r.status = "3xx", NEW usable \in BOOLEAN
  PROVE  RequestOK(Redirected(r, usable))
  <1>0. ~r.accepted
    BY DEF RequestOK, Answered
  <1>1. CASE usable /\ r.redirects < MaximumRedirects
    <2> DEFINE q == [r EXCEPT !.phase = "resolve", !.redirects = r.redirects + 1, !.left = {},
                              !.status = "none"]
    <2>1. r \in Request /\ r.redirects + 1 \in 0 .. MaximumRedirects
      BY <1>1, TransportAssumption DEF RequestOK, Request
    <2>2. /\ q \in Request /\ q.phase = "resolve" /\ q.left = {} /\ q.outcome = r.outcome
          /\ q.redirects = r.redirects + 1 /\ q.copies = r.copies /\ q.accepted = r.accepted
          /\ q.contacted = r.contacted /\ q.retry_after = r.retry_after
      BY <2>1 DEF Request
    <2> HIDE DEF q
    <2>3. Budget(q)
      BY <2>2, BudgetBounds DEF Budget
    <2>4. RequestOK(q)
      BY <1>0, <2>2, <2>3 DEF RequestOK, Answered
    <2>5. QED
      BY <1>1, <2>4 DEF Redirected, q
  <1>2. CASE ~(usable /\ r.redirects < MaximumRedirects)
    BY <1>0, <1>2, RequestEnds DEF Redirected
  <1>3. QED
    BY <1>1, <1>2

LEMMA RetryOK ==
  ASSUME NEW r, RequestOK(r), r.phase = "closing", r.status = "retry",
         NEW delay \in 0 .. MaximumDelay
  PROVE  RequestOK([Ended(r, "retryable") EXCEPT !.retry_after = delay])
  <1> DEFINE e == Ended(r, "retryable")
             q == [e EXCEPT !.retry_after = delay]
  <1>1. RequestOK(e) /\ e.phase = "ended" /\ e.outcome = "retryable"
    <2>1. r \in Request /\ ~r.accepted
      BY DEF RequestOK, Answered
    <2>2. QED
      BY <2>1, RequestEnds DEF Ended, Request
  <1> HIDE DEF e
  <1>2. e \in Request /\ delay \in Int
    BY <1>1, TransportAssumption DEF RequestOK
  <1>3. /\ q \in Request /\ q.phase = e.phase /\ q.left = e.left /\ q.outcome = e.outcome
        /\ q.redirects = e.redirects /\ q.copies = e.copies /\ q.accepted = e.accepted
        /\ q.contacted = e.contacted /\ q.retry_after = delay
    BY <1>2 DEF Request
  <1> HIDE DEF q
  <1>4. RequestOK(q)
    BY <1>1, <1>3 DEF RequestOK, Budget, Answered
  <1>5. QED
    BY <1>4 DEF q, e

LEMMA StartOK == RequestOK([NoRequest EXCEPT !.phase = "resolve"])
  <1> DEFINE q == [NoRequest EXCEPT !.phase = "resolve"]
  <1>1. /\ q \in Request /\ q.phase = "resolve" /\ q.left = {} /\ q.outcome = "none"
        /\ q.redirects = 0 /\ q.copies = 0 /\ q.accepted = FALSE
        /\ q.contacted = {} /\ q.retry_after = 0
    BY EmptyRequest DEF RequestOK, NoRequest, Request
  <1> HIDE DEF q
  <1>2. Budget(q)
    BY <1>1, LimitFacts DEF Budget
  <1>3. RequestOK(q)
    BY <1>1, <1>2, TransportAssumption DEF RequestOK, Answered
  <1>4. QED
    BY <1>3 DEF q

-----------------------------------------------------------------------------
(* One step of one attempt's request.                                        *)

\* The fields of an attempt of the sink, whatever is in them.
SinkShape(k) ==
  k \in [phase : {"idle", "keys", "sending"}, route : {k.route}, keys : {k.keys},
         barred : {k.barred}]

\* An attempt that has not begun to send has no request.
RequestInv ==
  /\ request \in [Attempts -> Request]
  /\ \A a \in Attempts : RequestOK(request[a])
  /\ sink \in [Attempts -> {sink[a] : a \in Attempts}]
  /\ \A a \in Attempts :
       /\ SinkShape(sink[a])
       /\ sink[a].phase # "sending" => request[a] = NoRequest

\* Every step of an attempt writes its own request only.
Rewrites(a) ==
  \E r : RequestOK(r) /\ request' = [request EXCEPT ![a] = r]

\* ... and its own row of the sink.
Writes(a, k) ==
  /\ Rewrites(a)
  /\ sink' = [sink EXCEPT ![a] = k]
  /\ SinkShape(k)
  /\ k.phase # "sending" => request'[a] = NoRequest

LEMMA RewriteKeeps ==
  ASSUME RequestInv, NEW a \in Attempts, NEW k, Writes(a, k)
  PROVE  RequestInv'
  <1>1. PICK r : RequestOK(r) /\ request' = [request EXCEPT ![a] = r]
    BY DEF Rewrites, Writes
  <1>2. r \in Request
    BY <1>1 DEF RequestOK
  <1>3. request' \in [Attempts -> Request]
    BY <1>1, <1>2 DEF RequestInv
  <1>4. ASSUME NEW b \in Attempts PROVE RequestOK(request'[b])
    BY <1>1, <1>4 DEF RequestInv
  <1>5. sink' \in [Attempts -> {sink'[b] : b \in Attempts}]
    BY DEF Writes, RequestInv
  <1>6. ASSUME NEW b \in Attempts
        PROVE  SinkShape(sink'[b]) /\ (sink'[b].phase # "sending" => request'[b] = NoRequest)
    <2>1. CASE b = a
      BY <2>1 DEF Writes, RequestInv
    <2>2. CASE b # a
      BY <1>1, <2>2 DEF Writes, RequestInv
    <2>3. QED
      BY <2>1, <2>2
  <1>7. QED
    BY <1>3, <1>4, <1>5, <1>6 DEF RequestInv, RequestOK, Budget, Answered, SinkShape

LEMMA EndsRewrites ==
  ASSUME RequestInv, NEW a \in Attempts, request[a].phase # "ended",
         NEW outcome \in {"success", "retryable", "permanent", "timeout"},
         outcome = "success" => request[a].accepted,
         request[a].accepted => outcome \in {"success", "timeout"}, Ends(a, outcome)
  PROVE  Rewrites(a)
  <1>1. RequestOK(Ended(request[a], outcome))
    BY RequestEnds DEF RequestInv
  <1>2. request' = [request EXCEPT ![a] = Ended(request[a], outcome)]
    BY DEF Ends, RequestInv
  <1>3. QED
    BY <1>1, <1>2 DEF Rewrites

LEMMA TransportRewrites ==
  ASSUME RequestInv, NEW a \in Attempts, NEW remaining \in Int, TransportStep(a, remaining)
  PROVE  Rewrites(a)
  <1> DEFINE r == request[a]
  <1>0. RequestOK(r) /\ r \in Request
    BY DEF RequestInv
  <1>1. CASE \/ EndpointInvalid(a) \/ ResolveFails(a) \/ Oversized(a) \/ AttemptTimesOut(a)
             \/ Respond2xx(a) \/ RespondOther(a)
    <2>1. Answered(r)
      BY <1>0 DEF RequestOK
    <2>2. CASE EndpointInvalid(a) \/ ResolveFails(a) \/ Oversized(a)
      BY <2>1, <2>2, EndsRewrites DEF EndpointInvalid, ResolveFails, Oversized, Answered
    <2>3. CASE AttemptTimesOut(a)
      BY <2>3, EndsRewrites DEF AttemptTimesOut, UnderWay
    <2>4. CASE Respond2xx(a) \/ RespondOther(a)
      BY <2>1, <2>4, EndsRewrites DEF Respond2xx, RespondOther, Closed, Answered
    <2>5. QED
      BY <1>1, <2>2, <2>3, <2>4
  <1>2. CASE Resolve(a)
    <2>0. PICK answer \in SUBSET Addresses : \E used \in SUBSET answer :
            /\ Cardinality(used) = Least(Cardinality(answer), MaximumAddresses)
            /\ IF Approved(answer)
                 THEN request' = [request EXCEPT ![a] =
                        [@ EXCEPT !.phase = "connect", !.left = used]]
                 ELSE Ends(a, "permanent")
      BY <1>2 DEF Resolve
    <2>1. PICK used \in SUBSET answer :
            /\ Cardinality(used) = Least(Cardinality(answer), MaximumAddresses)
            /\ IF Approved(answer)
                 THEN request' = [request EXCEPT ![a] =
                        [@ EXCEPT !.phase = "connect", !.left = used]]
                 ELSE Ends(a, "permanent")
      BY <2>0
    <2>2. r.phase = "resolve"
      BY <1>2 DEF Resolve
    <2>3. CASE Approved(answer)
      <3>1. RequestOK([r EXCEPT !.phase = "connect", !.left = used])
        BY <1>0, <2>1, <2>2, <2>3, ResolveOK
      <3>2. QED
        BY <2>1, <2>3, <3>1 DEF Rewrites, RequestInv
    <2>4. CASE ~Approved(answer)
      BY <1>0, <2>1, <2>2, <2>4, EndsRewrites, Unanswered
    <2>5. QED
      BY <2>3, <2>4
  <1>3. CASE Informational(a)
    <2>1. RequestOK(Counted(r)) /\ request' = [request EXCEPT ![a] = Counted(r)]
      BY <1>0, <1>3, CountedOK DEF Informational
    <2>2. QED
      BY <2>1 DEF Rewrites
  <1>4. CASE NextAddress(a)
    <2>1. RequestOK(Passed(r)) /\ request' = [request EXCEPT ![a] = Passed(r)]
      BY <1>0, <1>4, PassedOK DEF NextAddress, Closed
    <2>2. QED
      BY <2>1 DEF Rewrites
  <1>5. CASE \E ip \in Addresses : Send(a, ip) \/ SendFails(a, ip)
    <2>1. PICK ip \in Addresses : Send(a, ip) \/ SendFails(a, ip)
      BY <1>5
    <2>2. r.phase = "connect" /\ ip \in r.left
      BY <2>1 DEF Send, SendFails
    <2>3. CASE Send(a, ip)
      <3>1. RequestOK(Sent(r, ip)) /\ request' = [request EXCEPT ![a] = Sent(r, ip)]
        BY <1>0, <2>2, <2>3, SendOK DEF Send
      <3>2. QED
        BY <3>1 DEF Rewrites
    <2>4. CASE SendFails(a, ip)
      <3>1. PICK arrived \in {0, 1} :
              request' = [request EXCEPT ![a] = Broken(r, ip, arrived)]
        BY <2>4 DEF SendFails
      <3>2. RequestOK(Broken(r, ip, arrived))
        BY <1>0, <2>2, SendOK
      <3>3. QED
        BY <3>1, <3>2 DEF Rewrites
    <2>5. QED
      BY <2>1, <2>3, <2>4
  <1>6. CASE \E status \in Statuses : ReadResponse(a, status)
    <2>1. PICK status \in Statuses : ReadResponse(a, status)
      BY <1>6
    <2>2. RequestOK(Closing(r, status)) /\ request' = [request EXCEPT ![a] = Closing(r, status)]
      BY <1>0, <2>1, ClosingOK DEF ReadResponse
    <2>3. QED
      BY <2>2 DEF Rewrites
  <1>7. CASE \E value \in RetryAfters : RespondRetry(a, value, remaining)
    <2>1. PICK value \in RetryAfters : RespondRetry(a, value, remaining)
      BY <1>7
    <2> DEFINE delay == parse_retry_after(value, remaining)
    <2>2. delay \in 0 .. MaximumDelay
      BY <2>1, RetryAfterBounds, TransportAssumption
    <2>3. r.phase = "closing" /\ r.status = "retry"
          /\ request' = [request EXCEPT ![a] = [Ended(r, "retryable") EXCEPT !.retry_after = delay]]
      BY <2>1 DEF RespondRetry, Closed
    <2> HIDE DEF delay
    <2>4. RequestOK([Ended(r, "retryable") EXCEPT !.retry_after = delay])
      BY <1>0, <2>2, <2>3, RetryOK
    <2>5. QED
      BY <2>3, <2>4 DEF Rewrites
  <1>8. CASE \E usable \in BOOLEAN : Redirect(a, usable)
    <2>1. PICK usable \in BOOLEAN : Redirect(a, usable)
      BY <1>8
    <2>2. RequestOK(Redirected(r, usable))
          /\ request' = [request EXCEPT ![a] = Redirected(r, usable)]
      BY <1>0, <2>1, RedirectedOK DEF Redirect, Closed
    <2>3. QED
      BY <2>2 DEF Rewrites
  <1>9. QED
    BY <1>1, <1>2, <1>3, <1>4, <1>5, <1>6, <1>7, <1>8 DEF TransportStep

-----------------------------------------------------------------------------

LEMMA LeavesWrites ==
  ASSUME RequestInv, NEW a \in Attempts, Leaves(a)
  PROVE  \E k : Writes(a, k)
  <1>1. SinkShape(NoSink)
    BY DEF SinkShape, NoSink
  <1>2. Rewrites(a) /\ request'[a] = NoRequest
    BY EmptyRequest DEF Leaves, Rewrites, RequestInv
  <1>3. QED
    BY <1>1, <1>2 DEF Leaves, Writes

\* What the steps of one attempt write.
LEMMA AttemptWrites ==
  ASSUME RequestInv, NEW a \in Attempts, Attempt(a)
  PROVE  \E k : Writes(a, k)
  <1>0. RequestOK(request[a]) /\ request[a] \in Request /\ SinkShape(sink[a])
        /\ sink = [sink EXCEPT ![a] = sink[a]]
    BY DEF RequestInv
  <1>1. CASE \E e \in EventIds : \E route \in event[e].deliveries : BeginAttempt(a, e, route)
    <2>1. PICK e \in EventIds : \E route \in event[e].deliveries : BeginAttempt(a, e, route)
      BY <1>1
    <2>2. PICK route \in event[e].deliveries : BeginAttempt(a, e, route)
      BY <2>1
    <2>3. PICK late \in BOOLEAN :
            /\ sink' = [sink EXCEPT ![a] =
                 [phase |-> IF late THEN "sending" ELSE "keys", route |-> route,
                  keys |-> {}, barred |-> revoked[route.secret_set]]]
            /\ request' = [request EXCEPT ![a] =
                 IF late THEN Ended(NoRequest, "timeout") ELSE NoRequest]
      BY <2>2 DEF BeginAttempt
    <2> DEFINE k == [phase |-> IF late THEN "sending" ELSE "keys", route |-> route,
                     keys |-> {}, barred |-> revoked[route.secret_set]]
    <2>4. RequestOK(NoRequest) /\ RequestOK(Ended(NoRequest, "timeout"))
      BY EmptyRequest, RequestEnds DEF NoRequest
    <2>5. Rewrites(a)
      BY <2>3, <2>4 DEF Rewrites
    <2>6. SinkShape(k)
      BY DEF SinkShape
    <2>7. k.phase # "sending" => request'[a] = NoRequest
      BY <2>3 DEF RequestInv
    <2>8. QED
      BY <2>3, <2>5, <2>6, <2>7 DEF Writes
  <1>2. CASE LookUpKeys(a)
    <2> DEFINE found == eligible_for_signing(sink[a].route.secret_set)
               k == [sink[a] EXCEPT !.phase = "sending", !.keys = found]
    <2>1. request[a] = NoRequest /\ request[a].phase = "idle" /\ ~request[a].accepted
      BY <1>2 DEF LookUpKeys, RequestInv, NoRequest
    <2>2. sink' = [sink EXCEPT ![a] = k] /\ (Ends(a, "permanent") \/ StartRequest(a))
      BY <1>2 DEF LookUpKeys
    <2>3. Rewrites(a)
      BY <2>1, <2>2, EndsRewrites, StartOK DEF StartRequest, Rewrites
    <2>4. SinkShape(k) /\ k.phase = "sending"
      BY <1>0 DEF SinkShape
    <2>5. QED
      BY <2>2, <2>3, <2>4 DEF Writes
  <1>3. CASE LookUpTimesOut(a)
    <2> DEFINE k == [sink[a] EXCEPT !.phase = "sending"]
    <2>1. request[a] = NoRequest /\ request[a].phase = "idle" /\ ~request[a].accepted
      BY <1>3 DEF LookUpTimesOut, RequestInv, NoRequest
    <2>2. sink' = [sink EXCEPT ![a] = k] /\ Ends(a, "timeout")
      BY <1>3 DEF LookUpTimesOut
    <2>3. Rewrites(a)
      BY <2>1, <2>2, EndsRewrites
    <2>4. SinkShape(k) /\ k.phase = "sending"
      BY <1>0 DEF SinkShape
    <2>5. QED
      BY <2>2, <2>3, <2>4 DEF Writes
  <1>4. CASE Sending(a)
    <2>1. PICK remaining \in Remaining : TransportStep(a, remaining)
      BY <1>4 DEF Sending
    <2>2. remaining \in Int
      BY WebhookAssumption
    <2>3. Rewrites(a)
      BY <2>1, <2>2, TransportRewrites
    <2>4. sink' = [sink EXCEPT ![a] = sink[a]] /\ sink[a].phase = "sending"
      BY <1>0, <1>4 DEF Sending
    <2>5. QED
      BY <1>0, <2>3, <2>4 DEF Writes
  <1>5. CASE Vanish(a)
    BY <1>5, LeavesWrites DEF Vanish
  <1>6. QED
    BY <1>1, <1>2, <1>3, <1>4, <1>5 DEF Attempt

LEMMA RequestSteps ==
  ASSUME RequestInv, [Next]_vars
  PROVE  RequestInv'
  <1>1. CASE \E a \in Attempts : Attempt(a)
    BY <1>1, AttemptWrites, RewriteKeeps
  <1>2. CASE Health
    <2>1. PICK a \in Attempts : RecordHealth(a) \/ HealthUnrecorded(a)
      BY <1>2 DEF Health
    <2>2. Leaves(a)
      BY <2>1 DEF RecordHealth, HealthUnrecorded
    <2>3. QED
      BY <2>2, LeavesWrites, RewriteKeeps
  <1>3. CASE UNCHANGED <<request, sink>>
    BY <1>3 DEF RequestInv, RequestOK, Budget, Answered, SinkShape
  <1>4. QED
    BY <1>1, <1>2, <1>3
       DEF Next, Manage, Operate, Inspect, PublishStep, Retain, Tick, vars

LEMMA RequestInit == Init => RequestInv
  <1> SUFFICES ASSUME Init PROVE RequestInv
    OBVIOUS
  <1>1. NoRequest \in Request /\ SinkShape(NoSink)
    BY EmptyRequest DEF RequestOK, SinkShape, NoSink
  <1>2. QED
    BY <1>1, EmptyRequest DEF Init, TransportInit, RequestInv

LEMMA RequestsHold == Spec => []RequestInv
  BY RequestInit, RequestSteps, PTL DEF Spec

\* Whatever addresses, redirects, interim responses and timeouts an attempt goes
\* through: it succeeds only on a 2xx; after a 2xx was read it sends nothing more, and
\* it fails only by the aggregate deadline, which runs on while the connection
\* closes; it connects to approved addresses only; and the copies a receiver may get
\* stay below one for each address of each redirect (sink.py:106-202,
\* transport.py:165-235, http11.py:59-114).
THEOREM OutcomesAreReceivers == Spec => []OutcomeIsReceivers
  <1>1. RequestInv => OutcomeIsReceivers
    <2> SUFFICES ASSUME RequestInv, NEW a \in Attempts
                 PROVE  /\ request[a].outcome = "success" => request[a].accepted
                        /\ request[a].accepted =>
                             /\ request[a].phase \in {"closing", "ended"}
                             /\ request[a].outcome \in {"none", "success", "timeout"}
                        /\ request[a].contacted \cup request[a].left \subseteq Public
                        /\ request[a].copies <= MaximumAddresses * (request[a].redirects + 1)
                        /\ request[a].retry_after \in 0 .. MaximumDelay
      BY DEF OutcomeIsReceivers
    <2>1. RequestOK(request[a])
      BY DEF RequestInv
    <2>2. request[a].copies <= MaximumAddresses * (request[a].redirects + 1)
      BY <2>1, BudgetBounds
    <2>3. QED
      BY <2>1, <2>2 DEF RequestOK, Answered
  <1>2. QED
    BY <1>1, RequestsHold, PTL

-----------------------------------------------------------------------------
(* Revoked versions.                                                         *)

\* A version that was revoked was issued, and its row signs no more.
RevokedOK(rows, n, exists, gone) ==
  /\ \A v \in gone : v <= n
  /\ ~exists => gone = {} /\ n = 0
  /\ \A r \in rows : r.version \in gone => r.state = "revoked"

RevokedInv ==
  \A k \in SecretSets : RevokedOK(secret[k], issued[k], secret_set[k] > 0, revoked[k])

\* The history of a set only grows.
KeysGrow ==
  \A k \in SecretSets : revoked[k] \subseteq revoked'[k] /\ issued[k] <= issued'[k]

LEMMA RevokedInit == Init => RevokedInv
  BY DEF Init, SubscriptionInit, SecretInit, RevokedInv, RevokedOK

LEMMA RevokedOfCreate ==
  ASSUME KeyInv, RevokedInv, NEW j \in SecretSets, CreateSecret(j)
  PROVE  RevokedInv' /\ KeysGrow
  <1>1. ASSUME NEW k \in SecretSets
        PROVE  /\ RevokedOK(secret'[k], issued'[k], secret_set'[k] > 0, revoked'[k])
               /\ revoked[k] \subseteq revoked'[k] /\ issued[k] <= issued'[k]
    <2>0. /\ RevokedOK(secret[k], issued[k], secret_set[k] > 0, revoked[k])
          /\ KeysOK(secret[k], issued[k], secret_set[k] > 0, revoked[k])
          /\ issued[k] \in Nat
      BY KeysByset DEF RevokedInv, KeyInv
    <2>1. CASE k = j
      <3>1. revoked'[k] = {} /\ revoked[k] = {}
        BY <2>0, <2>1 DEF CreateSecret, Exists, RevokedOK
      <3>2. issued[k] = 0 /\ issued'[k] = 1
        BY <2>0, <2>1 DEF CreateSecret, Exists, RevokedOK, KeyInv
      <3>3. secret_set'[k] > 0
        BY <2>1 DEF CreateSecret, KeyInv
      <3>4. QED
        BY <3>1, <3>2, <3>3 DEF RevokedOK
    <2>2. CASE k # j
      BY <2>0, <2>2 DEF CreateSecret, KeyInv
    <2>3. QED
      BY <2>1, <2>2
  <1>2. QED
    BY <1>1 DEF RevokedInv, RevokedOK, KeysGrow

LEMMA RevokedOfRotate ==
  ASSUME KeyInv, RevokedInv, NEW j \in SecretSets, NEW window \in Overlaps, RotateSecret(j, window)
  PROVE  RevokedInv' /\ KeysGrow
  <1>0. now + window \in Nat
    <2>1. now \in Nat /\ window \in Nat BY SecretAssumption DEF KeyInv
    <2> QED BY <2>1
  <1>1. PICK active \in InState(j, "active") :
          secret' = [secret EXCEPT ![j] =
            (@ \ {active}) \cup {Retiring(active, now + window), NewKey(active.version + 1)}]
    BY DEF RotateSecret
  <1>2. ASSUME NEW k \in SecretSets
        PROVE  /\ RevokedOK(secret'[k], issued'[k], secret_set'[k] > 0, revoked'[k])
               /\ revoked[k] \subseteq revoked'[k] /\ issued[k] <= issued'[k]
    <2>0. /\ RevokedOK(secret[k], issued[k], secret_set[k] > 0, revoked[k])
          /\ KeysOK(secret[k], issued[k], secret_set[k] > 0, revoked[k])
          /\ issued[k] \in Nat
      BY KeysByset DEF RevokedInv, KeyInv
    <2>1. CASE k = j
      <3>1. /\ active \in secret[k] /\ active.state = "active" /\ active \in KeyRow
            /\ active.version = issued[k] /\ active.version \notin revoked[k]
        BY <2>0, <2>1 DEF InState, KeysOK, RevokedOK
      <3> DEFINE old == Retiring(active, now + window)
                 new == NewKey(active.version + 1)
      <3>2. old.version = issued[k]
        BY <1>0, <3>1, RetiringFields
      <3>3. new.version = issued[k] + 1
        BY <3>1 DEF NewKey
      <3>4. /\ revoked'[k] = revoked[k] /\ issued'[k] = issued[k] + 1
            /\ secret_set'[k] > 0
            /\ secret'[k] = (secret[k] \ {active}) \cup {old, new}
        BY <1>1, <2>1 DEF RotateSecret, KeyInv, Exists
      <3> HIDE DEF old, new
      <3>5. issued[k] + 1 \notin revoked[k]
        BY <2>0 DEF RevokedOK
      <3>6. \A v \in revoked'[k] : v <= issued'[k]
        BY <2>0, <3>4 DEF RevokedOK, KeyInv
      <3>7. \A r \in secret'[k] : r.version \in revoked'[k] => r.state = "revoked"
        BY <2>0, <3>1, <3>2, <3>3, <3>4, <3>5 DEF RevokedOK
      <3>8. QED
        BY <2>0, <3>4, <3>6, <3>7 DEF RevokedOK
    <2>2. CASE k # j
      BY <1>1, <2>0, <2>2 DEF RotateSecret, KeyInv
    <2>3. QED
      BY <2>1, <2>2
  <1>3. QED
    BY <1>2 DEF RevokedInv, RevokedOK, KeysGrow

LEMMA RevokedOfRevoke ==
  ASSUME KeyInv, RevokedInv, NEW j \in SecretSets, RevokeSecret(j)
  PROVE  RevokedInv' /\ KeysGrow
  <1>1. PICK row \in secret[j] :
          /\ secret' = [secret EXCEPT ![j] = (@ \ {row}) \cup {Revoked(row)}]
          /\ revoked' = [revoked EXCEPT ![j] = @ \cup {row.version}]
    BY DEF RevokeSecret
  <1>2. ASSUME NEW k \in SecretSets
        PROVE  /\ RevokedOK(secret'[k], issued'[k], secret_set'[k] > 0, revoked'[k])
               /\ revoked[k] \subseteq revoked'[k] /\ issued[k] <= issued'[k]
    <2>0. /\ RevokedOK(secret[k], issued[k], secret_set[k] > 0, revoked[k])
          /\ KeysOK(secret[k], issued[k], secret_set[k] > 0, revoked[k])
          /\ issued[k] \in Nat
      BY KeysByset DEF RevokedInv, KeyInv
    <2>1. CASE k = j
      <3>1. row \in KeyRow /\ row.version <= issued[k] /\ row \in secret[k]
        BY <2>0, <2>1 DEF KeysOK
      <3> DEFINE gone == Revoked(row)
      <3>2. gone.version = row.version /\ gone.state = "revoked"
        BY <3>1, RevokedFields
      <3> HIDE DEF gone
      <3>3. /\ revoked'[k] = revoked[k] \cup {row.version} /\ issued'[k] = issued[k]
            /\ secret_set'[k] > 0
            /\ secret'[k] = (secret[k] \ {row}) \cup {gone}
        BY <1>1, <2>1 DEF RevokeSecret, KeyInv, Exists, gone
      <3>4. \A r \in secret'[k] : r.version \in revoked'[k] => r.state = "revoked"
        BY <2>0, <3>1, <3>2, <3>3 DEF RevokedOK, KeysOK
      <3>5. QED
        BY <2>0, <3>1, <3>3, <3>4 DEF RevokedOK
    <2>2. CASE k # j
      BY <1>1, <2>0, <2>2 DEF RevokeSecret, KeyInv
    <2>3. QED
      BY <2>1, <2>2
  <1>3. QED
    BY <1>2 DEF RevokedInv, RevokedOK, KeysGrow

LEMMA RevokedOfPrune ==
  ASSUME KeyInv, RevokedInv, NEW cutoff \in 0 .. now, PruneSecrets(cutoff)
  PROVE  RevokedInv' /\ KeysGrow
  <1>1. \A k \in SecretSets : secret'[k] \subseteq secret[k]
    BY DEF PruneSecrets, KeyInv
  <1>2. \A k \in SecretSets : issued[k] \in Nat
    BY DEF KeyInv
  <1>3. QED
    BY <1>1, <1>2 DEF PruneSecrets, RevokedInv, RevokedOK, KeysGrow

LEMMA RevokedSteps ==
  ASSUME KeyInv, RevokedInv, [Next]_vars
  PROVE  RevokedInv' /\ KeysGrow
  <1>1. CASE KeyStep
    BY <1>1, RevokedOfCreate, RevokedOfRotate, RevokedOfRevoke, RevokedOfPrune DEF KeyStep
  <1>2. CASE UNCHANGED secretVars
    BY <1>2 DEF secretVars, RevokedInv, RevokedOK, KeysGrow, KeyInv
  <1>3. QED
    BY <1>1, <1>2, KeySteps

\* What may sign was issued and not revoked.
LEMMA EligibleKeys ==
  ASSUME KeyInv, RevokedInv, NEW k \in SecretSets
  PROVE  /\ eligible_for_signing(k) \cap revoked[k] = {}
         /\ \A v \in eligible_for_signing(k) : v <= issued[k]
  BY KeysByset DEF eligible_for_signing, RevokedInv, RevokedOK, KeysOK

-----------------------------------------------------------------------------
(* Subscription versions.                                                    *)

\* The head names the last of the version rows.
VersionInv ==
  /\ version \in [Subscriptions -> Seq(Version)]
  /\ \A s \in Subscriptions :
       /\ head[s] = None => version[s] = <<>>
       /\ head[s] # None => head[s].current_version = Len(version[s])

\* Version rows are immutable.
VersionsKept ==
  \A s \in Subscriptions :
    \A n \in 1 .. Len(version[s]) : n <= Len(version'[s]) /\ version'[s][n] = version[s][n]

LEMMA VersionInit == Init => VersionInv
  BY DEF Init, SubscriptionInit, VersionInv

LEMMA HeadVersions ==
  ASSUME NEW row \in HeadRow
  PROVE  /\ NextVersion(row).current_version = row.current_version + 1
         /\ \A state : Moved(row, state).current_version = row.current_version
         /\ Recovered(row).current_version = row.current_version
         /\ Failed(row).current_version = row.current_version
  BY DEF NextVersion, Moved, Recovered, Failed, HeadRow

\* A writer of one head that leaves its version and the version rows alone.
LEMMA VersionsSame ==
  ASSUME HeadInv, VersionInv, UNCHANGED version, NEW s, NEW row,
         head' = [head EXCEPT ![s] = row], row # None,
         s \in Subscriptions => head[s] # None /\ row.current_version = head[s].current_version
  PROVE  VersionInv' /\ VersionsKept
  <1>1. ASSUME NEW j \in Subscriptions
        PROVE  /\ head'[j] = None <=> head[j] = None
               /\ head[j] # None => head'[j].current_version = head[j].current_version
    BY DEF HeadInv
  <1>2. VersionInv'
    BY <1>1 DEF VersionInv
  <1>3. VersionsKept
    BY DEF VersionsKept, VersionInv
  <1>4. QED
    BY <1>2, <1>3

\* A writer that appends a version row, the first or the next.
LEMMA VersionAppended ==
  ASSUME HeadInv, VersionInv, NEW s \in Subscriptions, NEW row, NEW v \in Version,
         row # None, row.current_version = Len(version[s]) + 1,
         head' = [head EXCEPT ![s] = row],
         version' = [version EXCEPT ![s] = Append(version[s], v)]
  PROVE  VersionInv' /\ VersionsKept
  <1> DEFINE old == version[s]
  <1>1. old \in Seq(Version)
    BY DEF VersionInv
  <1> DEFINE new == Append(old, v)
  <1>2. /\ new \in Seq(Version) /\ Len(new) = Len(old) + 1
        /\ \A n \in 1 .. Len(old) : n <= Len(new) /\ new[n] = old[n]
    BY <1>1
  <1> HIDE DEF new
  <1>3. /\ version' \in [Subscriptions -> Seq(Version)] /\ version'[s] = new
        /\ \A j \in Subscriptions : j # s => version'[j] = version[j]
    BY <1>2 DEF VersionInv, new
  <1>4. head'[s] = row /\ \A j \in Subscriptions : j # s => head'[j] = head[j]
    BY DEF HeadInv
  <1> HIDE DEF old
  <1>5. VersionInv'
    BY <1>2, <1>3, <1>4 DEF VersionInv, old
  <1>6. ASSUME NEW j \in Subscriptions, NEW n \in 1 .. Len(version[j])
        PROVE  n <= Len(version'[j]) /\ version'[j][n] = version[j][n]
    <2>1. CASE j = s
      BY <1>2, <1>3, <2>1 DEF old
    <2>2. CASE j # s
      <3>1. version'[j] = version[j] /\ Len(version[j]) \in Nat
        BY <1>3, <2>2 DEF VersionInv
      <3>2. QED
        BY <3>1
    <2>3. QED
      BY <2>1, <2>2
  <1>7. QED
    BY <1>5, <1>6 DEF VersionsKept

LEMMA VersionSteps ==
  ASSUME HeadInv, VersionInv, [Next]_vars
  PROVE  VersionInv' /\ VersionsKept
  <1>0. CASE UNCHANGED <<head, version>>
    BY <1>0 DEF VersionInv, VersionsKept
  <1>1. ASSUME NEW m \in Managers, NEW s \in Subscriptions, NEW k \in SecretSets,
               NEW types \in normalize_event_types, NEW threshold \in Thresholds,
               CreateSubscription(m, s, k, types, threshold)
        PROVE  VersionInv' /\ VersionsKept
    <2> DEFINE row == [current_version |-> 1, revision |-> 1, state |-> "active",
                       failure_streak |-> 0, auto_pause_threshold |-> threshold]
               v == [event_types |-> types, secret_set |-> k]
    <2>1. row \in HeadRow /\ row.current_version = 1
      BY SubscriptionAssumption DEF HeadRow, SubscriptionState
    <2>2. v \in Version
      BY DEF normalize_event_types, Version
    <2>3. head[s] = None /\ head' = [head EXCEPT ![s] = row] /\ version' = [version EXCEPT ![s] = <<v>>]
      BY <1>1 DEF CreateSubscription
    <2> HIDE DEF row, v
    <2>4. version[s] = <<>> /\ Len(version[s]) = 0 /\ Append(version[s], v) = <<v>>
      <3>1. version[s] = <<>>
        BY <2>3 DEF VersionInv
      <3>2. Append(<<>>, v) = <<v>>
        OBVIOUS
      <3>3. QED
        BY <3>1, <3>2
    <2>5. row # None
      BY <2>1, NoneAssumption
    <2>6. row.current_version = Len(version[s]) + 1
          /\ version' = [version EXCEPT ![s] = Append(version[s], v)]
      BY <2>1, <2>3, <2>4
    <2>7. QED
      BY <2>2, <2>3, <2>5, <2>6, VersionAppended
  <1>2. ASSUME NEW m \in Managers, NEW s \in Subscriptions, NEW k \in SecretSets,
               NEW types \in normalize_event_types, UpdateSubscription(m, s, k, types)
        PROVE  VersionInv' /\ VersionsKept
    <2> DEFINE row == NextVersion(head[s])
               v == [event_types |-> types, secret_set |-> k]
    <2>1. head[s] \in HeadRow /\ head[s] # None
      BY <1>2 DEF UpdateSubscription, Expected, HeadInv
    <2>2. row \in HeadRow /\ row.current_version = head[s].current_version + 1
      BY <2>1, HeadRows, HeadVersions
    <2>3. v \in Version
      BY DEF normalize_event_types, Version
    <2>4. head' = [head EXCEPT ![s] = row] /\ version' = [version EXCEPT ![s] = Append(version[s], v)]
      BY <1>2 DEF UpdateSubscription
    <2> HIDE DEF row, v
    <2>5. row # None /\ row.current_version = Len(version[s]) + 1
      BY <2>1, <2>2, NoneAssumption DEF VersionInv
    <2>6. QED
      BY <2>3, <2>4, <2>5, VersionAppended
  <1>3. ASSUME NEW m \in Managers, NEW s \in Subscriptions, NEW state \in SubscriptionState,
               SetState(m, s, state)
        PROVE  VersionInv' /\ VersionsKept
    <2>1. head[s] \in HeadRow /\ head[s] # None
      BY <1>3 DEF SetState, Expected, HeadInv
    <2>2. /\ Moved(head[s], state) \in HeadRow
          /\ Moved(head[s], state).current_version = head[s].current_version
      BY <2>1, HeadRows, HeadVersions
    <2>3. head' = [head EXCEPT ![s] = Moved(head[s], state)] /\ UNCHANGED version
      BY <1>3 DEF SetState
    <2>4. QED
      BY <2>1, <2>2, <2>3, VersionsSame, NoneAssumption
  <1>4. ASSUME NEW s, RecordSuccess(s) \/ RecordFailure(s)
        PROVE  VersionInv' /\ VersionsKept
    <2>1. CASE s \notin Subscriptions
      <3>1. head' = head /\ version' = version
        BY <1>4, <2>1 DEF RecordSuccess, RecordFailure, HeadInv
      <3>2. QED
        BY <1>0, <3>1
    <2>2. CASE s \in Subscriptions
      <3>1. head[s] \in HeadRow /\ head[s] # None
        BY <1>4, <2>2 DEF RecordSuccess, RecordFailure, HeadInv
      <3>2. PICK row \in {head[s], Recovered(head[s]), Failed(head[s])} :
              head' = [head EXCEPT ![s] = row] /\ UNCHANGED version
        BY <1>4 DEF RecordSuccess, RecordFailure
      <3>3. row \in HeadRow /\ row.current_version = head[s].current_version
        BY <3>1, <3>2, HeadRows, HeadVersions
      <3>4. QED
        BY <3>1, <3>2, <3>3, VersionsSame, NoneAssumption
    <2>3. QED
      BY <2>1, <2>2
  <1>5. CASE HeadStep
    <2>1. CASE \E m \in Managers, s \in Subscriptions : GetSubscription(m, s)
      BY <1>0, <2>1 DEF GetSubscription
    <2>2. QED
      BY <1>1, <1>2, <1>3, <1>4, <1>5, <2>1 DEF HeadStep
  <1>6. CASE HeadSame
    BY <1>0, <1>6 DEF HeadSame
  <1>7. QED
    BY <1>5, <1>6, HeadSteps

-----------------------------------------------------------------------------
(* Deliveries.                                                               *)

\* What a delivery says of the version it was committed with.
RouteOK(r) ==
  r.destination_kind = "webhook" =>
    /\ r.route_key \in Subscriptions
    /\ r.version \in 1 .. Len(version[r.route_key])
    /\ version[r.route_key][r.version].secret_set = r.secret_set
    /\ r.event_type \in version[r.route_key][r.version].event_types

\* The fields of an event row, whatever is in them.
EventShape(w) ==
  w \in [status : {w.status}, by : {w.by}, content : {w.content}, key : {w.key},
         origin : {w.origin}, deliveries : {w.deliveries}, original : {w.original}]

EventOK(w) ==
  w # None => EventShape(w) /\ \A r \in w.deliveries : RouteOK(r)

DeliveryInv ==
  /\ event \in [EventIds -> {event[e] : e \in EventIds}]
  /\ \A e \in EventIds : EventOK(event[e])

LEMMA DeliveryInit == Init => DeliveryInv
  BY DEF Init, PubInit, DeliveryInv, EventOK

\* Version rows that are kept keep the deliveries of a row.
LEMMA EventKept ==
  ASSUME VersionInv, VersionInv', VersionsKept, NEW w, EventOK(w)
  PROVE  EventOK(w)'
  <1>1. ASSUME NEW r, RouteOK(r)
        PROVE  RouteOK(r)'
    <2>1. CASE r.destination_kind = "webhook"
      <3>1. /\ r.route_key \in Subscriptions
            /\ r.version \in 1 .. Len(version[r.route_key])
        BY <1>1, <2>1 DEF RouteOK
      <3>2. /\ r.version <= Len(version'[r.route_key])
            /\ version'[r.route_key][r.version] = version[r.route_key][r.version]
        BY <3>1 DEF VersionsKept
      <3>3. Len(version'[r.route_key]) \in Nat /\ Len(version[r.route_key]) \in Nat
        BY <3>1 DEF VersionInv
      <3>4. r.version \in 1 .. Len(version'[r.route_key])
        BY <3>1, <3>2, <3>3
      <3>5. QED
        BY <1>1, <2>1, <3>1, <3>2, <3>4 DEF RouteOK
    <2>2. CASE r.destination_kind # "webhook"
      BY <2>2 DEF RouteOK
    <2>3. QED
      BY <2>1, <2>2
  <1>2. QED
    BY <1>1 DEF EventOK, EventShape

\* SetToSeq lists the elements of a finite set.
LEMMA Listed ==
  ASSUME NEW S, IsFiniteSet(S)
  PROVE  \A i \in DOMAIN SetToSeq(S) : SetToSeq(S)[i] \in S
  <1> DEFINE lists == [1 .. Cardinality(S) -> S]
  <1>1. \E f \in lists : IsInjective(f)
    BY FS_CardinalityType DEF ExistsBijection, Bijection, Injection
  <1>2. SetToSeq(S) \in lists
    BY <1>1 DEF SetToSeq
  <1>3. QED
    BY <1>2

LEMMA ProvidedFinite ==
  ASSUME NEW type
  PROVE  IsFiniteSet({route_of(s, type) : s \in Subscribed(type)})
  <1> DEFINE S == Subscribed(type)
             T == {route_of(s, type) : s \in S}
             f == [s \in S |-> route_of(s, type)]
  <1>1. IsFiniteSet(S)
    BY FS_Subset, WebhookAssumption DEF Subscribed
  <1>2. f \in Surjection(S, T)
    BY DEF Surjection
  <1>3. QED
    BY <1>1, <1>2, FS_Surjection

\* A route that the provider gives is true of the subscription's current version.
LEMMA ProvidedRoutes ==
  ASSUME HeadInv, VersionInv, NEW type, NEW s \in Subscribed(type)
  PROVE  RouteOK(route_of(s, type))
  <1>1. /\ s \in Subscriptions /\ head[s] # None
        /\ type \in version[s][head[s].current_version].event_types
    BY DEF Subscribed
  <1>2. head[s] \in HeadRow /\ head[s].current_version = Len(version[s])
    BY <1>1 DEF HeadInv, VersionInv
  <1>3. head[s].current_version \in 1 .. Len(version[s])
    BY <1>2 DEF HeadRow
  <1>4. QED
    BY <1>1, <1>3 DEF RouteOK, route_of

LEMMA MatchedRoutes ==
  ASSUME HeadInv, VersionInv, NEW c
  PROVE  \A r \in Matched(c, routes_for(c.event_type)) : RouteOK(r)
  <1> DEFINE type == c.event_type
             T == {route_of(s, type) : s \in Subscribed(type)}
             provided == routes_for(type)
  <1>1. ASSUME NEW r \in matching_routes(Declared, type) PROVE RouteOK(r)
    BY WebhookAssumption DEF matching_routes, RouteOK
  <1>2. ASSUME NEW r \in matching_routes(provided, type) PROVE RouteOK(r)
    <2>1. r \in T
      BY Listed, ProvidedFinite DEF matching_routes, routes_for
    <2>2. QED
      BY <2>1, ProvidedRoutes
  <1>3. QED
    BY <1>1, <1>2 DEF Matched

\* Every step of a publishing transaction and of retention writes rows that are
\* true of the versions.
LEMMA DeliverySame ==
  ASSUME DeliveryInv, VersionInv, VersionInv', VersionsKept,
         event' \in [EventIds -> {event'[e] : e \in EventIds}],
         \A e \in EventIds : EventOK(event'[e])
  PROVE  DeliveryInv'
  BY EventKept DEF DeliveryInv

LEMMA RowWritten ==
  ASSUME DeliveryInv, NEW e \in EventIds, NEW w, EventOK(w), event' = [event EXCEPT ![e] = w]
  PROVE  /\ event' \in [EventIds -> {event'[i] : i \in EventIds}]
         /\ \A i \in EventIds : EventOK(event'[i])
  BY DEF DeliveryInv

\* A row changed in its status, or in its deliveries to some of them.
LEMMA RowChanged ==
  ASSUME NEW w, EventOK(w), w # None, NEW q, EventShape(q), q.deliveries \subseteq w.deliveries
  PROVE  EventOK(q)
  BY DEF EventOK

LEMMA DeliveryOfPublish ==
  ASSUME DeliveryInv, HeadInv, VersionInv, PublishStep
  PROVE  /\ event' \in [EventIds -> {event'[e] : e \in EventIds}]
         /\ \A e \in EventIds : EventOK(event'[e])
  <1>1. PICK s \in Sessions :
          \/ Enter(s)
          \/ \E e \in EventIds, c \in Contents :
               EmitInsert(s, e, c, None, routes_for(c.event_type), None)
          \/ Commit(s)
          \/ Rollback(s)
    BY DEF PublishStep
  <1>2. CASE Enter(s)
    BY <1>2 DEF Enter, DeliveryInv
  <1>3. CASE \E e \in EventIds, c \in Contents :
               EmitInsert(s, e, c, None, routes_for(c.event_type), None)
    <2>1. PICK e \in EventIds, c \in Contents :
            EmitInsert(s, e, c, None, routes_for(c.event_type), None)
      BY <1>3
    <2> DEFINE routes == Matched(c, routes_for(c.event_type))
               w == [status |-> "pending", by |-> s, content |-> c, key |-> None,
                     origin |-> None, deliveries |-> routes, original |-> routes]
    <2>2. event' = [event EXCEPT ![e] = w]
      BY <2>1 DEF EmitInsert
    <2>3. EventShape(w)
      BY DEF EventShape
    <2>4. \A r \in w.deliveries : RouteOK(r)
      BY MatchedRoutes
    <2> HIDE DEF w
    <2>5. QED
      BY <2>2, <2>3, <2>4, RowWritten DEF EventOK
  <1>4. CASE Commit(s)
    <2>1. ASSUME NEW e \in EventIds PROVE EventOK(event'[e])
      <3>1. CASE Pending(e, s)
        <4> DEFINE q == Committed(event[e])
        <4>1. event'[e] = q /\ event[e] # None /\ EventShape(event[e]) /\ EventOK(event[e])
          BY <1>4, <3>1 DEF Commit, Pending, DeliveryInv, EventOK
        <4>2. EventShape(q) /\ q.deliveries = event[e].deliveries
          BY <4>1 DEF EventShape, Committed
        <4>3. QED
          BY <4>1, <4>2, RowChanged
      <3>2. CASE ~Pending(e, s)
        BY <1>4, <3>2 DEF Commit, DeliveryInv
      <3>3. QED
        BY <3>1, <3>2
    <2>2. event' \in [EventIds -> {event'[e] : e \in EventIds}]
      BY <1>4 DEF Commit
    <2>3. QED
      BY <2>1, <2>2
  <1>5. CASE Rollback(s)
    BY <1>5 DEF Rollback, DeliveryInv, EventOK
  <1>6. QED
    BY <1>1, <1>2, <1>3, <1>4, <1>5

LEMMA DeliveryOfRetention ==
  ASSUME DeliveryInv, Retention
  PROVE  /\ event' \in [EventIds -> {event'[e] : e \in EventIds}]
         /\ \A e \in EventIds : EventOK(event'[e])
  <1>1. PICK e \in EventIds : RetainDeliveries(e) \/ RetainEvent(e)
    BY DEF Retention
  <1>2. event[e] # None /\ EventShape(event[e]) /\ EventOK(event[e])
    BY <1>1 DEF RetainDeliveries, RetainEvent, Durable, DeliveryInv, EventOK
  <1>3. CASE RetainDeliveries(e)
    <2>1. PICK gone : event' = [event EXCEPT ![e].deliveries = @ \ gone]
      BY <1>3 DEF RetainDeliveries
    <2> DEFINE q == [event[e] EXCEPT !.deliveries = event[e].deliveries \ gone]
    <2>2. EventShape(q) /\ q.deliveries \subseteq event[e].deliveries
      BY <1>2 DEF EventShape
    <2>3. event' = [event EXCEPT ![e] = q]
      BY <2>1
    <2> HIDE DEF q
    <2>4. QED
      BY <1>2, <2>2, <2>3, RowChanged, RowWritten
  <1>4. CASE RetainEvent(e)
    <2> DEFINE q == Pruned(event[e])
    <2>1. EventShape(q) /\ q.deliveries = event[e].deliveries
      BY <1>2 DEF EventShape, Pruned
    <2>2. event' = [event EXCEPT ![e] = q]
      BY <1>4 DEF RetainEvent
    <2> HIDE DEF q
    <2>3. QED
      BY <1>2, <2>1, <2>2, RowChanged, RowWritten
  <1>5. QED
    BY <1>1, <1>3, <1>4

LEMMA DeliverySteps ==
  ASSUME DeliveryInv, HeadInv, VersionInv, VersionInv', VersionsKept, [Next]_vars
  PROVE  DeliveryInv'
  <1>1. CASE PublishStep
    BY <1>1, DeliveryOfPublish, DeliverySame
  <1>2. CASE Retention
    BY <1>2, DeliveryOfRetention, DeliverySame
  <1>3. CASE UNCHANGED event
    BY <1>3, DeliverySame DEF DeliveryInv
  <1>4. QED
    BY <1>1, <1>2, <1>3
       DEF Next, Manage, Operate, Inspect, Attempt, Health, Retain, Tick, vars

-----------------------------------------------------------------------------
(* The keys an attempt signs with.                                           *)

\* Keys are looked up once, after the attempt began; without one nothing is sent.
SinkOK(k, r) ==
  /\ k.phase = "idle" => k.route = None
  /\ k.phase # "sending" => k.keys = {}
  /\ k.phase # "idle" =>
       /\ k.route.secret_set \in SecretSets
       /\ k.barred \subseteq revoked[k.route.secret_set]
  /\ k.keys \subseteq Nat
  /\ \A v \in k.keys : v <= issued[k.route.secret_set]
  /\ k.keys \cap k.barred = {}
  /\ k.keys = {} => r.copies = 0 /\ r.phase \in {"idle", "ended"}

SinkInv == \A a \in Attempts : SinkOK(sink[a], request[a])

LEMMA IdleSink == SinkOK(NoSink, NoRequest)
  BY DEF SinkOK, NoSink, NoRequest

LEMMA SinkInit == Init => SinkInv
  BY IdleSink DEF Init, TransportInit, SinkInv

\* Revocations and rotations in between do not matter to what was looked up.
LEMMA SinkGrows ==
  ASSUME KeyInv, KeyInv', KeysGrow, NEW k, NEW r, SinkOK(k, r)
  PROVE  SinkOK(k, r)'
  <1>1. CASE k.phase # "idle"
    <2>1. k.route.secret_set \in SecretSets
      BY <1>1 DEF SinkOK
    <2>2. /\ issued[k.route.secret_set] \in Nat /\ issued'[k.route.secret_set] \in Nat
          /\ issued[k.route.secret_set] <= issued'[k.route.secret_set]
          /\ revoked[k.route.secret_set] \subseteq revoked'[k.route.secret_set]
      BY <2>1 DEF KeysGrow, KeyInv
    <2>3. \A v \in k.keys : v <= issued'[k.route.secret_set]
      BY <2>2 DEF SinkOK
    <2>4. QED
      BY <1>1, <2>1, <2>2, <2>3 DEF SinkOK
  <1>2. CASE k.phase = "idle"
    BY <1>2 DEF SinkOK
  <1>3. QED
    BY <1>1, <1>2

\* A committed delivery names a secret set.
LEMMA DeliverySet ==
  ASSUME DeliveryInv, VersionInv, NEW e \in EventIds, Durable(e),
         NEW route \in event[e].deliveries, route.destination_kind = "webhook"
  PROVE  route.secret_set \in SecretSets
  <1>1. RouteOK(route)
    BY DEF DeliveryInv, EventOK, Durable
  <1>2. /\ route.route_key \in Subscriptions
        /\ route.version \in 1 .. Len(version[route.route_key])
        /\ version[route.route_key][route.version].secret_set = route.secret_set
    BY <1>1 DEF RouteOK
  <1>3. version[route.route_key] \in Seq(Version)
    BY <1>2 DEF VersionInv
  <1>4. version[route.route_key][route.version] \in Version
    BY <1>2, <1>3
  <1>5. QED
    BY <1>2, <1>4 DEF Version

LEMMA SinkOfAttempt ==
  ASSUME KeyInv, RevokedInv, VersionInv, DeliveryInv, RequestInv, SinkInv,
         NEW a \in Attempts, Attempt(a)
  PROVE  \A b \in Attempts : SinkOK(sink'[b], request'[b])
  <1>0. /\ SinkOK(sink[a], request[a]) /\ SinkShape(sink[a]) /\ request[a] \in Request
        /\ \A b \in Attempts : SinkOK(sink[b], request[b])
        /\ sink[a].phase # "sending" => request[a] = NoRequest
        /\ Ended(NoRequest, "timeout").copies = 0 /\ Ended(NoRequest, "timeout").phase = "ended"
        /\ Ended(NoRequest, "permanent").copies = 0 /\ Ended(NoRequest, "permanent").phase = "ended"
        /\ NoRequest.copies = 0 /\ NoRequest.phase = "idle"
    BY DEF SinkInv, RequestInv, Ended, NoRequest
  \* What is left to show when the step writes the rows k and r.
  <1>1. ASSUME NEW k, NEW r, SinkOK(k, r),
               sink' = [sink EXCEPT ![a] = k], request' = [request EXCEPT ![a] = r]
        PROVE  \A b \in Attempts : SinkOK(sink'[b], request'[b])
    BY <1>0, <1>1 DEF RequestInv
  <1>2. CASE \E e \in EventIds : Durable(e) /\ \E route \in event[e].deliveries : BeginAttempt(a, e, route)
    <2>1. PICK e \in EventIds : Durable(e) /\ \E route \in event[e].deliveries : BeginAttempt(a, e, route)
      BY <1>2
    <2>2. PICK route \in event[e].deliveries : BeginAttempt(a, e, route)
      BY <2>1
    <2>3. PICK late \in BOOLEAN :
            /\ sink' = [sink EXCEPT ![a] =
                 [phase |-> IF late THEN "sending" ELSE "keys", route |-> route,
                  keys |-> {}, barred |-> revoked[route.secret_set]]]
            /\ request' = [request EXCEPT ![a] =
                 IF late THEN Ended(NoRequest, "timeout") ELSE NoRequest]
      BY <2>2 DEF BeginAttempt
    <2> DEFINE k == [phase |-> IF late THEN "sending" ELSE "keys", route |-> route,
                     keys |-> {}, barred |-> revoked[route.secret_set]]
               r == IF late THEN Ended(NoRequest, "timeout") ELSE NoRequest
    <2>4. route.secret_set \in SecretSets
      BY <2>1, <2>2, DeliverySet DEF BeginAttempt
    <2>5. r.copies = 0 /\ r.phase \in {"idle", "ended"}
      BY <1>0
    <2> HIDE DEF r
    <2>6. SinkOK(k, r)
      BY <2>4, <2>5 DEF SinkOK
    <2> HIDE DEF k
    <2>7. sink' = [sink EXCEPT ![a] = k] /\ request' = [request EXCEPT ![a] = r]
      BY <2>3 DEF k, r
    <2>8. QED
      BY <1>1, <2>6, <2>7
  <1>3. CASE LookUpKeys(a)
    <2> DEFINE found == eligible_for_signing(sink[a].route.secret_set)
               k == [sink[a] EXCEPT !.phase = "sending", !.keys = found]
               r == IF found = {} THEN Ended(NoRequest, "permanent")
                                  ELSE [NoRequest EXCEPT !.phase = "resolve"]
    <2>1. sink[a].phase = "keys" /\ request[a] = NoRequest
      BY <1>0, <1>3 DEF LookUpKeys
    <2>2. /\ sink[a].route.secret_set \in SecretSets
          /\ sink[a].barred \subseteq revoked[sink[a].route.secret_set]
      BY <1>0, <2>1 DEF SinkOK
    <2>3. /\ found \cap sink[a].barred = {} /\ found \subseteq Nat
          /\ \A v \in found : v <= issued[sink[a].route.secret_set]
      <3>1. found \subseteq Nat
        BY <2>2 DEF eligible_for_signing, KeyInv, KeyRow
      <3>2. QED
        BY <2>2, <3>1, EligibleKeys
    <2>4. sink' = [sink EXCEPT ![a] = k] /\ request' = [request EXCEPT ![a] = r]
      BY <1>3, <2>1 DEF LookUpKeys, Ends, StartRequest
    <2>5. found = {} => r.copies = 0 /\ r.phase \in {"idle", "ended"}
      BY <1>0
    <2> HIDE DEF found, r
    <2>6. /\ k.phase = "sending" /\ k.route = sink[a].route /\ k.keys = found
          /\ k.barred = sink[a].barred
      BY <1>0 DEF SinkShape
    <2> HIDE DEF k
    <2>7. SinkOK(k, r)
      BY <2>2, <2>3, <2>5, <2>6 DEF SinkOK
    <2>8. QED
      BY <1>1, <2>4, <2>7
  <1>4. CASE LookUpTimesOut(a)
    <2> DEFINE k == [sink[a] EXCEPT !.phase = "sending"]
               r == Ended(NoRequest, "timeout")
    <2>1. sink[a].phase = "keys" /\ request[a] = NoRequest
      BY <1>0, <1>4 DEF LookUpTimesOut
    <2>2. sink' = [sink EXCEPT ![a] = k] /\ request' = [request EXCEPT ![a] = r]
      BY <1>4, <2>1 DEF LookUpTimesOut, Ends
    <2>3. /\ k.phase = "sending" /\ k.route = sink[a].route /\ k.keys = sink[a].keys
          /\ k.barred = sink[a].barred
      BY <1>0 DEF SinkShape
    <2>4. r.copies = 0 /\ r.phase = "ended"
      BY <1>0
    <2> HIDE DEF k, r
    <2>5. SinkOK(k, r)
      BY <1>0, <2>1, <2>3, <2>4 DEF SinkOK
    <2>6. QED
      BY <1>1, <2>2, <2>5
  <1>5. CASE Sending(a)
    <2>1. PICK remaining \in Remaining : TransportStep(a, remaining)
      BY <1>5 DEF Sending
    <2>2. remaining \in Int
      BY WebhookAssumption
    <2>3. PICK r : request' = [request EXCEPT ![a] = r]
      BY <2>1, <2>2, TransportRewrites DEF Rewrites
    <2>4. request[a].phase \notin {"idle", "ended"}
      BY <2>1 DEF TransportStep, EndpointInvalid, ResolveFails, Resolve, Oversized, Informational,
                  ReadResponse, NextAddress, Send, SendFails, Respond2xx, RespondOther,
                  RespondRetry, Redirect, Closed, AttemptTimesOut, UnderWay
    <2>5. SinkOK(sink[a], r)
      BY <1>0, <2>4 DEF SinkOK
    <2>6. sink' = [sink EXCEPT ![a] = sink[a]]
      BY <1>5 DEF Sending, RequestInv
    <2>7. QED
      BY <1>1, <2>3, <2>5, <2>6
  <1>6. CASE Vanish(a)
    BY <1>1, <1>6, IdleSink DEF Vanish, Leaves
  <1>7. QED
    BY <1>2, <1>3, <1>4, <1>5, <1>6 DEF Attempt

LEMMA SinkSteps ==
  ASSUME KeyInv, KeyInv', KeysGrow, RevokedInv, VersionInv, DeliveryInv, RequestInv, SinkInv,
         [Next]_vars
  PROVE  SinkInv'
  <1>1. \A b \in Attempts : SinkOK(sink'[b], request'[b])
    <2>1. CASE \E a \in Attempts : Attempt(a)
      BY <2>1, SinkOfAttempt
    <2>2. CASE Health
      <3>1. PICK a \in Attempts : RecordHealth(a) \/ HealthUnrecorded(a)
        BY <2>2 DEF Health
      <3>2. Leaves(a)
        BY <3>1 DEF RecordHealth, HealthUnrecorded
      <3>3. QED
        BY <3>2, IdleSink DEF Leaves, SinkInv, RequestInv
    <2>3. CASE UNCHANGED <<request, sink>>
      BY <2>3 DEF SinkInv
    <2>4. QED
      BY <2>1, <2>2, <2>3
         DEF Next, Manage, Operate, Inspect, PublishStep, Retain, Tick, vars
  <1>2. QED
    BY <1>1, SinkGrows DEF SinkInv

-----------------------------------------------------------------------------
SnapshotInv == RevokedInv /\ VersionInv /\ DeliveryInv /\ SinkInv

LEMMA SnapshotsHold == Spec => []SnapshotInv
  <1>1. Init => SnapshotInv
    BY RevokedInit, VersionInit, DeliveryInit, SinkInit DEF SnapshotInv
  <1>2. KeyInv /\ KeyInv' /\ HeadInv /\ RequestInv /\ SnapshotInv /\ [Next]_vars => SnapshotInv'
    <2> SUFFICES ASSUME KeyInv, KeyInv', HeadInv, RequestInv, SnapshotInv, [Next]_vars
                 PROVE  SnapshotInv'
      OBVIOUS
    <2>1. RevokedInv' /\ KeysGrow
      BY RevokedSteps DEF SnapshotInv
    <2>2. VersionInv' /\ VersionsKept
      BY VersionSteps DEF SnapshotInv
    <2>3. DeliveryInv'
      BY <2>2, DeliverySteps DEF SnapshotInv
    <2>4. SinkInv'
      BY <2>1, SinkSteps DEF SnapshotInv
    <2>5. QED
      BY <2>1, <2>2, <2>3, <2>4 DEF SnapshotInv
  <1>3. QED
    BY <1>1, <1>2, KeysHold, HeadsHold, RequestsHold, PTL DEF Spec

\* Whatever managers, publications, revocations and retention do in between, a
\* committed delivery stays true of the subscription version it names, and its
\* attempts sign with issued keys of that version's set, none of them revoked before
\* the attempt began, or send nothing (subscriptions.py:145-165, sink.py:127-160).
THEOREM SnapshotsSign == Spec => []SnapshotSigns
  <1>1. SnapshotInv => SnapshotSigns
    <2> SUFFICES ASSUME SnapshotInv PROVE SnapshotSigns
      OBVIOUS
    <2>1. ASSUME NEW e \in EventIds, event[e] # None, NEW r \in event[e].deliveries,
                 r.destination_kind = "webhook"
          PROVE  /\ version[r.route_key][r.version].secret_set = r.secret_set
                 /\ r.event_type \in version[r.route_key][r.version].event_types
      BY <2>1 DEF SnapshotInv, DeliveryInv, EventOK, RouteOK
    <2>2. ASSUME NEW a \in Attempts
          PROVE  /\ request[a].copies > 0 => sink[a].keys # {}
                 /\ sink[a].keys \cap sink[a].barred = {}
                 /\ sink[a].route # None =>
                      \A v \in sink[a].keys : v <= issued[sink[a].route.secret_set]
      BY DEF SnapshotInv, SinkInv, SinkOK
    <2>3. QED
      BY <2>1, <2>2 DEF SnapshotSigns
  <1>2. QED
    BY <1>1, SnapshotsHold, PTL
=============================================================================
