--------------------------- MODULE AuthorityProofs ---------------------------
(***************************************************************************)
(* Proofs about Authority, for every set of components, keys, scopes,      *)
(* routes, policies and clock offsets.                                     *)
(***************************************************************************)
EXTENDS Authority, TLAPS

-----------------------------------------------------------------------------
(* What a single principal keeps of the authority it descends from.          *)

Bounded(p) ==
  p.source.expires_at # None => p.expires_at # None /\ p.expires_at <= p.source.expires_at

Sound(p) ==
  /\ p \in Principal
  /\ p.tenant_id = p.source.tenant_id
  /\ p.scopes \subseteq p.source.scopes
  /\ Bounded(p)

AuthorityInv ==
  /\ now \in Nat
  /\ caller \in [Components -> Caller \cup {None}]
  /\ \A c \in Components : caller[c] # None => Sound(caller[c].principal)
  /\ \A t \in token : t \in DelegationClaims /\ Sound(t.principal)
  /\ \A p \in event : Sound(p)

\* Timestamps are rounded down (models.py:167-172).
LEMMA EpochRoundsDown ==
  ASSUME NEW t \in Int PROVE epoch(t) \in Int /\ epoch(t) <= t
  <1>1. t % PerSecond \in Int /\ t % PerSecond >= 0 BY AuthorityAssumption
  <1> QED BY <1>1 DEF epoch

LEMMA ClockIsInt ==
  ASSUME AuthorityInv, NEW c \in Components PROVE Clock(c) \in Int
  BY AuthorityAssumption DEF AuthorityInv, Clock

\* A credential never outlives its parent (signing.py:67-84).
LEMMA ExpiryBounded ==
  ASSUME AuthorityInv, NEW c \in Components, NEW p \in Principal, NEW ttl \in Ttls
  PROVE  /\ Expiry(c, p, ttl) \in Int
         /\ p.expires_at # None => Expiry(c, p, ttl) <= p.expires_at
  <1>1. Clock(c) + ttl \in Int BY ClockIsInt, AuthorityAssumption
  <1>2. p.expires_at # None => p.expires_at \in Int BY DEF Principal, Time
  <1> QED BY <1>1, <1>2 DEF Expiry

\* Delegation passes on no more than its parent has.
LEMMA ClaimedSound ==
  ASSUME AuthorityInv, NEW c \in Components, NEW p, Sound(p), NEW scopes \in SUBSET Scopes,
         scopes \subseteq p.scopes, NEW ttl \in Ttls
  PROVE  Sound(Claimed(c, p, scopes, ttl))
  <1> DEFINE q == Claimed(c, p, scopes, ttl)
  <1>1. p \in Principal /\ p.source \in Source BY DEF Sound, Principal
  <1>2. epoch(Clock(c)) \in Int BY ClockIsInt, EpochRoundsDown
  <1>3. /\ epoch(Expiry(c, p, ttl)) \in Int
        /\ p.expires_at # None => epoch(Expiry(c, p, ttl)) <= p.expires_at
    <2>1. Expiry(c, p, ttl) \in Int /\ (p.expires_at # None => Expiry(c, p, ttl) <= p.expires_at)
      BY <1>1, ExpiryBounded
    <2>2. epoch(Expiry(c, p, ttl)) \in Int /\ epoch(Expiry(c, p, ttl)) <= Expiry(c, p, ttl)
      BY <2>1, EpochRoundsDown
    <2>3. p.expires_at # None => p.expires_at \in Int BY <1>1 DEF Principal, Time
    <2> QED BY <2>1, <2>2, <2>3
  <1>4. /\ q.tenant_id = p.tenant_id /\ q.service = p.service /\ q.scopes = scopes
        /\ q.issued_at = epoch(Clock(c)) /\ q.expires_at = epoch(Expiry(c, p, ttl))
        /\ q.source = [p.source EXCEPT !.scopes = scopes]
        /\ q \in Principal
    BY <1>1, <1>2, <1>3 DEF Claimed, Principal, Source, Time
  <1>5. /\ q.source.tenant_id = p.source.tenant_id /\ q.source.scopes = scopes
        /\ q.source.expires_at = p.source.expires_at
    BY <1>1, <1>4 DEF Source
  <1>6. Bounded(q)
    <2> SUFFICES ASSUME p.source.expires_at # None
                 PROVE  q.expires_at # None /\ q.expires_at <= p.source.expires_at
      BY <1>5 DEF Bounded
    <2>1. p.expires_at # None /\ p.expires_at <= p.source.expires_at BY DEF Sound, Bounded
    <2>2. p.expires_at \in Int /\ p.source.expires_at \in Int
      BY <1>1, <2>1 DEF Principal, Source, Time
    <2> QED BY <1>3, <1>4, <2>1, <2>2, AuthorityAssumption
  <1> QED BY <1>4, <1>5, <1>6 DEF Sound

\* A handler's principal is the stored one with fewer scopes, or a service with
\* those of its policy (executor.py:92-139).
LEMMA HandlerSound ==
  ASSUME AuthorityInv, NEW c \in Components, NEW origin, Sound(origin), NEW policy \in Policies,
         NEW current \in SUBSET Scopes
  PROVE  LET scopes == EffectiveScopes(origin, policy, current)
         IN  /\ policy.mode = "service_policy" => Sound(Service(c, origin, policy, scopes))
             /\ policy.mode # "service_policy" => Sound(Attenuated(c, origin, scopes))
  <1> DEFINE scopes == EffectiveScopes(origin, policy, current)
  <1>1. /\ origin \in Principal /\ origin.source \in Source /\ origin.scopes \subseteq Scopes
        /\ policy.mode \in {"snapshot", "revalidate", "service_policy"}
        /\ policy.required \subseteq Scopes /\ policy.capabilities \subseteq Scopes
    BY AuthorityAssumption DEF Sound, Principal
  <1>2. ASSUME policy.mode = "service_policy" PROVE Sound(Service(c, origin, policy, scopes))
    <2>1. scopes = policy.capabilities \cap policy.required BY <1>2 DEF EffectiveScopes
    <2>2. Service(c, origin, policy, scopes) \in Principal
      BY <1>1, <2>1, ClockIsInt DEF Service, Principal, Source, Time
    <2> QED BY <2>1, <2>2 DEF Service, Sound, Bounded
  <1>3. ASSUME policy.mode # "service_policy" PROVE Sound(Attenuated(c, origin, scopes))
    <2>1. scopes \subseteq origin.scopes BY <1>1, <1>3 DEF EffectiveScopes
    <2> DEFINE q == Attenuated(c, origin, scopes)
    <2>2. /\ q \in Principal /\ q.tenant_id = origin.tenant_id /\ q.scopes = scopes
          /\ q.expires_at = origin.expires_at /\ q.source = origin.source
      BY <1>1, <2>1 DEF Attenuated, Principal
    <2> QED BY <2>1, <2>2 DEF Sound, Bounded
  <1> QED BY <1>2, <1>3

LEMMA HostSound ==
  ASSUME AuthorityInv, NEW c \in Components, NEW host \in Hosts, Authenticate(c, host)
  PROVE  /\ caller'[c] \in Caller /\ Sound(caller'[c].principal)
         /\ caller' = [caller EXCEPT ![c] = caller'[c]]
  <1> DEFINE until == Lasting(Clock(c), host.lifetime)
  <1>1. /\ host.tenant_id \in Tenants /\ host.scopes \subseteq Scopes
        /\ host.lifetime # None => host.lifetime \in Int
    BY AuthorityAssumption
  <1>2. until \in Time \cup {None} BY <1>1, ClockIsInt DEF Lasting, Time
  <1>3. caller'[c].principal =
          [tenant_id |-> host.tenant_id, service |-> FALSE, scopes |-> host.scopes,
           issued_at |-> Clock(c), expires_at |-> until,
           source |-> [tenant_id |-> host.tenant_id, scopes |-> host.scopes,
                       expires_at |-> until]]
    BY DEF Authenticate, AuthorityInv
  <1>4. Sound(caller'[c].principal)
    <2>1. caller'[c].principal \in Principal
      BY <1>1, <1>2, <1>3, ClockIsInt DEF Principal, Source, Time
    <2>2. Bounded(caller'[c].principal) BY <1>2, <1>3 DEF Bounded, Time
    <2> QED BY <1>3, <2>1, <2>2 DEF Sound
  <1>5. caller'[c] = [principal |-> caller'[c].principal, delegation_depth |-> 0, by |-> "host",
                      key_id |-> None]
    BY DEF Authenticate, AuthorityInv
  <1>6. caller'[c] \in Caller BY <1>4, <1>5, AuthorityAssumption DEF Caller, Sound
  <1> QED BY <1>4, <1>6 DEF Authenticate, AuthorityInv

-----------------------------------------------------------------------------
(* The invariant holds initially and every step keeps it.                    *)

\* A step that puts a sound caller at c, and nothing else.
LEMMA CallerServed ==
  ASSUME AuthorityInv, NEW c \in Components, NEW served \in Caller, Sound(served.principal),
         caller' = [caller EXCEPT ![c] = served], UNCHANGED <<now, token, event>>
  PROVE  AuthorityInv'
  <1>1. caller' \in [Components -> Caller \cup {None}] BY DEF AuthorityInv
  <1>2. \A d \in Components : caller'[d] # None => Sound(caller'[d].principal)
    BY DEF AuthorityInv
  <1> QED BY <1>1, <1>2 DEF AuthorityInv

LEMMA InvOfInit == Init => AuthorityInv
  BY DEF Init, AuthorityInv

LEMMA InvOfVerify ==
  ASSUME AuthorityInv, NEW c \in Components, NEW t \in token, NEW route, Verify(c, t, route)
  PROVE  AuthorityInv'
  <1>1. t \in DelegationClaims /\ Sound(t.principal) BY DEF AuthorityInv
  <1>2. Verified(t) \in Caller /\ Verified(t).principal = t.principal
    BY <1>1, AuthorityAssumption DEF Verified, Caller, DelegationClaims
  <1> QED BY <1>1, <1>2, CallerServed DEF Verify

LEMMA InvOfDelegate ==
  ASSUME AuthorityInv, NEW c \in Components, NEW to \in Components, NEW route \in Routes,
         NEW scopes \in SUBSET Scopes, NEW ttl \in Ttls, Delegate(c, to, route, scopes, ttl)
  PROVE  AuthorityInv'
  <1> DEFINE claims == Claimed(c, caller[c].principal, scopes, ttl)
  <1>1. /\ caller[c] \in Caller /\ Sound(caller[c].principal)
        /\ scopes \subseteq caller[c].principal.scopes
        /\ caller[c].delegation_depth < MaximumDepth
    BY DEF Delegate, AuthorityInv, Bridged, Mintable
  <1>2. Sound(claims) BY <1>1, ClaimedSound
  <1>3. PICK k \in signing_key(c) : token' = token \cup
          {[principal |-> claims, audience |-> to, target |-> route, issuer |-> c, key_id |-> k,
            delegation_depth |-> caller[c].delegation_depth + 1]}
    BY DEF Delegate
  <1> DEFINE t == [principal |-> claims, audience |-> to, target |-> route, issuer |-> c,
                   key_id |-> k, delegation_depth |-> caller[c].delegation_depth + 1]
  <1>4. caller[c].delegation_depth + 1 \in 1 .. MaximumDepth
    BY <1>1, AuthorityAssumption DEF Caller
  <1>5. t \in DelegationClaims
    BY <1>2, <1>4 DEF DelegationClaims, Sound, signing_key, Held
  <1>6. \A u \in token' : u \in DelegationClaims /\ Sound(u.principal)
    BY <1>2, <1>3, <1>5 DEF AuthorityInv
  <1> QED BY <1>6 DEF Delegate, AuthorityInv

LEMMA InvOfHandle ==
  ASSUME AuthorityInv, NEW c \in Components, NEW origin \in event, NEW policy \in Policies,
         NEW current \in SUBSET Scopes, Handle(c, origin, policy, current)
  PROVE  AuthorityInv'
  <1> DEFINE scopes == EffectiveScopes(origin, policy, current)
             principal == IF policy.mode = "service_policy"
                            THEN Service(c, origin, policy, scopes)
                            ELSE Attenuated(c, origin, scopes)
             served == [principal |-> principal, delegation_depth |-> 0, by |-> policy.mode,
                        key_id |-> None]
  <1>1. Sound(origin) BY DEF AuthorityInv
  <1>2. Sound(principal) BY <1>1, HandlerSound
  <1>3. served \in Caller
    BY <1>2, AuthorityAssumption DEF Caller, Sound
  <1>4. caller' = [caller EXCEPT ![c] = served] /\ UNCHANGED <<now, token, event>>
    BY DEF Handle
  <1> QED BY <1>2, <1>3, <1>4, CallerServed

LEMMA InvOfEmit ==
  ASSUME AuthorityInv, NEW c \in Components, Emit(c)
  PROVE  AuthorityInv'
  BY DEF Emit, AuthorityInv

LEMMA InvOfLeave ==
  ASSUME AuthorityInv, NEW c \in Components, Leave(c)
  PROVE  AuthorityInv'
  <1>1. caller' \in [Components -> Caller \cup {None}] BY DEF Leave, AuthorityInv
  <1>2. \A d \in Components : caller'[d] # None => Sound(caller'[d].principal)
    BY DEF Leave, AuthorityInv
  <1> QED BY <1>1, <1>2 DEF Leave, AuthorityInv

LEMMA InvOfKeys ==
  ASSUME AuthorityInv, NEW c \in Managed, NEW k \in Keys, Rotate(c, k) \/ Revoke(c, k)
  PROVE  AuthorityInv'
  BY DEF Rotate, Revoke, AuthorityInv

LEMMA InvOfForget == ASSUME AuthorityInv, Forget PROVE AuthorityInv'
  BY DEF Forget, AuthorityInv

LEMMA InvOfTick == ASSUME AuthorityInv, Tick PROVE AuthorityInv'
  BY DEF Tick, AuthorityInv

LEMMA InvOfAuthenticate ==
  ASSUME AuthorityInv, NEW c \in Components, NEW host \in Hosts, Authenticate(c, host)
  PROVE  AuthorityInv'
  BY HostSound, CallerServed DEF Authenticate

LEMMA InvOfStep == AuthorityInv /\ [Next]_vars => AuthorityInv'
  <1> SUFFICES ASSUME AuthorityInv, [Next]_vars PROVE AuthorityInv'
    OBVIOUS
  <1>1. CASE \E c \in Managed, k \in Keys : Rotate(c, k) \/ Revoke(c, k) BY <1>1, InvOfKeys
  <1>2. CASE \E c \in Components, host \in Hosts : Authenticate(c, host)
    BY <1>2, InvOfAuthenticate
  <1>3. CASE \E c \in Components, to \in Components, route \in Routes, scopes \in SUBSET Scopes,
                ttl \in Ttls : Delegate(c, to, route, scopes, ttl)
    BY <1>3, InvOfDelegate
  <1>4. CASE \E c \in Components, t \in token, route \in Routes : Verify(c, t, route)
    BY <1>4, InvOfVerify
  <1>5. CASE \E c \in Components, origin \in event, policy \in Policies,
                current \in SUBSET Scopes : Handle(c, origin, policy, current)
    BY <1>5, InvOfHandle
  <1>6. CASE \E c \in Components : Emit(c) \/ Leave(c) BY <1>6, InvOfEmit, InvOfLeave
  <1>7. CASE Forget \/ Tick BY <1>7, InvOfForget, InvOfTick
  <1>8. CASE UNCHANGED vars BY <1>8 DEF vars, AuthorityInv
  <1> QED BY <1>1, <1>2, <1>3, <1>4, <1>5, <1>6, <1>7, <1>8 DEF Next

LEMMA InvHolds == Spec => []AuthorityInv
  BY InvOfInit, InvOfStep, PTL DEF Spec

LEMMA PrincipalsSound ==
  ASSUME AuthorityInv, NEW p \in Principals PROVE Sound(p)
  BY DEF Principals, Serving, AuthorityInv

\* Through any chain of delegations, events and handlers a principal keeps its
\* tenant and has only scopes of the authority it descends from.
THEOREM AuthorityBounded == Spec => []AuthorityNeverExpands
  <1>1. AuthorityInv => AuthorityNeverExpands
    BY PrincipalsSound DEF AuthorityNeverExpands, Sound
  <1> QED BY <1>1, InvHolds, PTL

\* ... and dies with that authority, although timestamps are truncated on the way.
THEOREM LifetimeBounded == Spec => []LifetimeNeverGrows
  <1>1. AuthorityInv => LifetimeNeverGrows
    BY PrincipalsSound DEF LifetimeNeverGrows, Sound, Bounded
  <1> QED BY <1>1, InvHolds, PTL

-----------------------------------------------------------------------------
(* Snapshot authority ends.                                                  *)

\* Only Handle serves with a snapshot.
LEMMA SnapshotIsHandled ==
  ASSUME AuthorityInv, Next, NEW c \in Components, caller'[c] # caller[c], caller'[c] # None,
         caller'[c].by = "snapshot"
  PROVE  \E origin \in event, policy \in Policies, current \in SUBSET Scopes :
           Handle(c, origin, policy, current) /\ policy.mode = "snapshot"
  <1>1. CASE \E d \in Components, host \in Hosts : Authenticate(d, host)
    BY <1>1 DEF Authenticate, AuthorityInv
  <1>2. CASE \E d \in Components, t \in token, route \in Routes : Verify(d, t, route)
    BY <1>2 DEF Verify, Verified, AuthorityInv
  <1>3. CASE \E d \in Components, origin \in event, policy \in Policies,
                current \in SUBSET Scopes : Handle(d, origin, policy, current)
    <2>1. PICK d \in Components, origin \in event, policy \in Policies,
               current \in SUBSET Scopes : Handle(d, origin, policy, current)
      BY <1>3
    <2>2. d = c BY <2>1 DEF Handle, AuthorityInv
    <2>3. caller'[c].by = policy.mode BY <2>1, <2>2 DEF Handle, AuthorityInv
    <2> QED BY <2>1, <2>2, <2>3
  <1>4. CASE \E d \in Components : Leave(d) BY <1>4 DEF Leave, AuthorityInv
  <1>5. CASE UNCHANGED caller BY <1>5
  <1> QED
    BY <1>1, <1>2, <1>3, <1>4, <1>5 DEF Next, Rotate, Revoke, Delegate, Emit, Forget, Tick

\* The age is measured from issued_at, which precedes the expiry of a principal
\* that can be stored, and that the expiry of its source (executor.py:98-117).
THEOREM SnapshotsEnd == Spec => SnapshotAuthorityEnds
  <1>1. ASSUME AuthorityInv, Next, NEW c \in Components, caller'[c] # caller[c],
               caller'[c] # None, caller'[c].by = "snapshot",
               caller'[c].principal.source.expires_at # None
        PROVE  \E age \in SnapshotAges : Clock(c) < caller'[c].principal.source.expires_at + age
    <2>1. PICK origin \in event, policy \in Policies, current \in SUBSET Scopes :
            Handle(c, origin, policy, current) /\ policy.mode = "snapshot"
      BY <1>1, SnapshotIsHandled
    <2>2. Sound(origin) /\ PrincipalEnvelope(origin)
      BY <1>1, <2>1 DEF AuthorityInv, Handle
    <2>3. caller'[c].principal = Attenuated(c, origin, EffectiveScopes(origin, policy, current))
      BY <1>1, <2>1 DEF Handle, AuthorityInv
    <2>4. caller'[c].principal.source = origin.source
      BY <2>2, <2>3 DEF Attenuated, Sound, Principal
    <2>5. /\ origin.source.expires_at # None
          /\ origin.expires_at # None /\ origin.expires_at <= origin.source.expires_at
          /\ origin.expires_at > origin.issued_at
      BY <1>1, <2>2, <2>4 DEF Sound, Bounded, PrincipalEnvelope
    <2>6. /\ origin.issued_at \in Int /\ origin.expires_at \in Int
          /\ origin.source.expires_at \in Int
      BY <2>2, <2>5 DEF Sound, Principal, Source, Time
    <2>7. policy.maximum_snapshot_age \in Nat BY AuthorityAssumption
    <2>8. Clock(c) - origin.issued_at <= policy.maximum_snapshot_age BY <2>1 DEF Handle
    <2>9. Clock(c) < origin.source.expires_at + policy.maximum_snapshot_age
      BY <1>1, <2>5, <2>6, <2>7, <2>8, ClockIsInt
    <2>10. policy.maximum_snapshot_age \in SnapshotAges BY <2>1 DEF SnapshotAges
    <2> QED BY <2>4, <2>9, <2>10
  <1> DEFINE Ends == \A c \in Components :
       /\ caller'[c] # caller[c] /\ caller'[c] # None
       /\ caller'[c].by = "snapshot" /\ caller'[c].principal.source.expires_at # None
       => \E age \in SnapshotAges : Clock(c) < caller'[c].principal.source.expires_at + age
  <1>2. AuthorityInv /\ [Next]_vars => [Ends]_vars
    <2> SUFFICES ASSUME AuthorityInv, Next PROVE Ends
      OBVIOUS
    <2> QED BY <1>1
  <1> QED BY <1>2, InvHolds, PTL DEF Spec, SnapshotAuthorityEnds

-----------------------------------------------------------------------------
(* Key rings.                                                                *)

\* A revoked key stays in its ring, revoked: its identifier is not free again.
RingInv ==
  /\ ring \in [Components -> [Keys -> SigningKey \cup {None}]]
  /\ revoked \in [Components -> SUBSET Keys]
  /\ \A c \in Components : \A k \in revoked[c] :
       ring[c][k] # None /\ ring[c][k].state = "revoked"

LEMMA RingOfInit == Init => RingInv
  <1> SUFFICES ASSUME Init PROVE RingInv OBVIOUS
  <1>1. ActiveKey \in SigningKey BY DEF ActiveKey, SigningKey
  <1> QED BY <1>1 DEF Init, RingInv

LEMMA RingOfRotate ==
  ASSUME RingInv, AuthorityInv, NEW c \in Components, NEW k \in Keys, Rotate(c, k)
  PROVE  RingInv'
  <1>1. PICK old \in signing_key(c) :
          ring' = [ring EXCEPT ![c] = [@ EXCEPT ![k] = ActiveKey,
            ![old] = [state |-> "retiring", verify_until |-> Clock(c) + Overlap]]]
    BY DEF Rotate
  <1> DEFINE retiring == [state |-> "retiring", verify_until |-> Clock(c) + Overlap]
  <1>2. ActiveKey \in SigningKey /\ retiring \in SigningKey
    BY ClockIsInt, AuthorityAssumption DEF ActiveKey, SigningKey, Time
  <1>3. old \in Keys /\ old \notin revoked[c] /\ k \notin revoked[c]
    BY DEF signing_key, Held, RingInv, Rotate, Installable
  <1>4. ring' \in [Components -> [Keys -> SigningKey \cup {None}]]
    BY <1>1, <1>2, <1>3 DEF RingInv
  <1>5. \A d \in Components : \A i \in revoked[d] : ring'[d][i] = ring[d][i]
    BY <1>1, <1>3 DEF RingInv
  <1> QED BY <1>4, <1>5 DEF Rotate, RingInv

LEMMA RingOfRevoke ==
  ASSUME RingInv, NEW c \in Components, NEW k \in Keys, Revoke(c, k)
  PROVE  RingInv'
  <1> DEFINE gone == [state |-> "revoked", verify_until |-> None]
  <1>1. gone \in SigningKey /\ gone # None BY NoneAssumption DEF SigningKey
  <1>2. ring' \in [Components -> [Keys -> SigningKey \cup {None}]]
    BY <1>1 DEF Revoke, RingInv
  <1>3. revoked' \in [Components -> SUBSET Keys] BY DEF Revoke, RingInv
  <1>4. ASSUME NEW d \in Components, NEW i \in revoked'[d]
        PROVE  ring'[d][i] # None /\ ring'[d][i].state = "revoked"
    <2>1. CASE d = c /\ i = k BY <1>1, <2>1 DEF Revoke, RingInv
    <2>2. CASE ~(d = c /\ i = k)
      <3>1. i \in revoked[d] /\ i \in Keys BY <2>2 DEF Revoke, RingInv
      <3>2. ring'[d][i] = ring[d][i] BY <2>2, <3>1 DEF Revoke, RingInv
      <3> QED BY <3>1, <3>2 DEF RingInv
    <2> QED BY <2>1, <2>2
  <1> QED BY <1>2, <1>3, <1>4 DEF RingInv

LEMMA RingOfStep == RingInv /\ AuthorityInv /\ [Next]_vars => RingInv'
  <1> SUFFICES ASSUME RingInv, AuthorityInv, [Next]_vars PROVE RingInv' OBVIOUS
  <1>1. CASE \E c \in Managed, k \in Keys : Rotate(c, k) \/ Revoke(c, k)
    BY <1>1, RingOfRotate, RingOfRevoke, AuthorityAssumption
  <1>2. CASE UNCHANGED <<ring, revoked>> BY <1>2 DEF RingInv
  <1> QED
    BY <1>1, <1>2
       DEF Next, vars, Authenticate, Delegate, Verify, Handle, Emit, Leave, Forget, Tick

LEMMA RingHolds == Spec => []RingInv
  BY RingOfInit, RingOfStep, InvHolds, PTL DEF Spec

\* At no time after its revocation does a component accept a credential of a key or
\* sign with it (keys.py:102-188).
THEOREM RevocationIsFinal == Spec => RevokedStaysRevoked
  <1> DEFINE Barred ==
        /\ \A c \in Components :
             caller'[c] # caller[c] /\ caller'[c] # None => caller'[c].key_id \notin revoked[c]
        /\ \A t \in token' \ token : t.key_id \notin revoked[t.issuer]
  <1>1. ASSUME RingInv, AuthorityInv, Next PROVE Barred
    <2>1. None \notin Keys /\ \A c \in Components : None \notin revoked[c]
      BY <1>1, AuthorityAssumption DEF RingInv
    <2>2. CASE \E d \in Components, host \in Hosts : Authenticate(d, host)
      BY <1>1, <2>1, <2>2 DEF Authenticate, AuthorityInv
    <2>3. CASE \E d \in Components, t \in token, route \in Routes : Verify(d, t, route)
      <3>1. PICK d \in Components, t \in token, route \in Routes : Verify(d, t, route) BY <2>3
      <3>2. t.key_id \notin revoked[d]
        BY <1>1, <3>1 DEF Verify, Attested, verification_key, RingInv
      <3> QED BY <1>1, <3>1, <3>2 DEF Verify, Verified, AuthorityInv
    <2>4. CASE \E d \in Components, origin \in event, policy \in Policies,
                  current \in SUBSET Scopes : Handle(d, origin, policy, current)
      BY <1>1, <2>1, <2>4 DEF Handle, AuthorityInv
    <2>5. CASE \E d \in Components : Leave(d) BY <1>1, <2>5 DEF Leave, AuthorityInv
    <2>6. CASE \E d \in Components, to \in Components, route \in Routes,
                  scopes \in SUBSET Scopes, ttl \in Ttls : Delegate(d, to, route, scopes, ttl)
      <3>1. PICK d \in Components, to \in Components, route \in Routes,
                 scopes \in SUBSET Scopes, ttl \in Ttls : Delegate(d, to, route, scopes, ttl)
        BY <2>6
      <3>2. PICK k \in signing_key(d) : \A t \in token' \ token : t.issuer = d /\ t.key_id = k
        BY <3>1 DEF Delegate
      <3>3. k \notin revoked[d] BY <1>1, <3>2 DEF signing_key, RingInv
      <3> QED BY <3>1, <3>2, <3>3 DEF Delegate
    <2>7. CASE UNCHANGED caller /\ token' \subseteq token BY <2>7
    <2> QED
      BY <1>1, <2>2, <2>3, <2>4, <2>5, <2>6, <2>7 DEF Next, Rotate, Revoke, Emit, Forget, Tick
  <1>2. RingInv /\ AuthorityInv /\ [Next]_vars => [Barred]_vars BY <1>1
  <1> QED BY <1>2, RingHolds, InvHolds, PTL DEF Spec, RevokedStaysRevoked
=============================================================================
