------------------------------ MODULE Authority ------------------------------
(***************************************************************************)
(* Whose authority code runs with: host principals (core/principal.py),    *)
(* delegation credentials between components (delegation/), key rings      *)
(* (delegation/keys.py), and the principal that a handler is given for an  *)
(* event (handlers/executor.py).                                           *)
(*                                                                         *)
(* A component serves one caller at a time: a host-authenticated request,  *)
(* a request with a delegation credential, or a handler; it may delegate   *)
(* to another component or emit an event for it.  Each component has its   *)
(* own clock and its own key ring, which operators change independently.   *)
(* Signatures are unforgeable: tokens are what components minted, for one  *)
(* audience and one target (method and path), a route.                     *)
(*                                                                         *)
(* "source" is history: the authority that a principal descends from, the  *)
(* host's assertion or the grant of a service policy, cut down to what     *)
(* each delegation passed on.                                              *)
(***************************************************************************)
EXTENDS Integers, FiniteSets

CONSTANTS
  Components, Keys, Scopes, Tenants,
  Offset,          \* the clock of a component is now + Offset[c]
  PerSecond,       \* clock readings per second
  Hosts,           \* what hosts assert: tenant, scopes and lifetime (None: no expiry)
  Ttls,            \* credential lifetimes asked for, whole seconds
  MaximumTtl, MaximumDepth, Skew,
  BridgeScopes,    \* DelegationBridge.allowed_scopes
  Routes,          \* routes behind a verifier: required scopes and ceiling
  Policies,        \* authority snapshots of handler deliveries
  Overlap,         \* the overlap of key rotations
  RingSize,        \* the largest ring (16)
  Managed,         \* components whose rings are changed
  MaxTime, MaxTokens, MaxEvents, MaxServing, \* bounds: the clock, credentials and
                   \* events alive, and components that serve a caller at once
  None

ASSUME AuthorityAssumption ==
  /\ Offset \in [Components -> Int]
  /\ PerSecond \in Nat \ {0} /\ RingSize \in Nat \ {0}
  /\ None \notin Int \cup Keys
  /\ Hosts \subseteq [tenant_id : Tenants, scopes : SUBSET Scopes,
                      lifetime : (Nat \ {0}) \cup {None}]
  /\ Ttls \subseteq Nat \ {0} /\ Overlap \in Nat \ {0}
  /\ MaximumTtl \in Nat /\ MaximumDepth \in Nat \ {0} /\ Skew \in Nat
  /\ BridgeScopes \subseteq Scopes /\ Managed \subseteq Components
  /\ Routes \subseteq [required : SUBSET Scopes, ceiling : SUBSET Scopes]
  /\ Policies \subseteq [mode : {"snapshot", "revalidate", "service_policy"},
                         required : SUBSET Scopes, capabilities : SUBSET Scopes,
                         maximum_snapshot_age : Nat]
  /\ MaxTime \in Nat /\ MaxTokens \in Nat /\ MaxEvents \in Nat /\ MaxServing \in Nat

VARIABLES
  now,
  ring,       \* the keys that each component holds
  revoked,    \* history: the keys revoked at each component
  caller,     \* whom each component is serving, or None
  token,      \* the credentials minted
  event       \* the principals stored with events

vars == <<now, ring, revoked, caller, token, event>>

Clock(c) == now + Offset[c]

Time == Int
Source == [tenant_id : Tenants, scopes : SUBSET Scopes, expires_at : Time \cup {None}]

Principal ==
  [tenant_id : Tenants, service : BOOLEAN, scopes : SUBSET Scopes,
   issued_at : Time, expires_at : Time \cup {None}, source : Source]

\* A TrustedCallerMetadata, VerifiedDelegation or EffectContext.  History: by, how
\* it was established; key_id, the key of its credential.
Caller ==
  [principal : Principal, delegation_depth : 0 .. MaximumDepth,
   by : {"host", "delegation", "snapshot", "revalidate", "service_policy"},
   key_id : Keys \cup {None}]

DelegationClaims ==
  [principal : Principal, audience : Components, target : Routes,
   issuer : Components, key_id : Keys, delegation_depth : 1 .. MaximumDepth]

SigningKey ==
  [state : {"active", "retiring", "revoked"}, verify_until : Time \cup {None}]

ASSUME NoneAssumption == None \notin SigningKey

ActiveKey == [state |-> "active", verify_until |-> None]

\* Every component starts with the same one active key.
Init ==
  /\ now = 0
  /\ \E k \in Keys : ring = [c \in Components |-> [i \in Keys |-> IF i = k THEN ActiveKey ELSE None]]
  /\ revoked = [c \in Components |-> {}]
  /\ caller = [c \in Components |-> None]
  /\ token = {}
  /\ event = {}

-----------------------------------------------------------------------------
Held(c) == {k \in Keys : ring[c][k] # None}

\* No component ever has two.
signing_key(c) == {k \in Held(c) : ring[c][k].state = "active"}

verification_key(c, k) ==
  /\ k \in Held(c)
  /\ ring[c][k].state # "revoked"
  /\ ring[c][k].state = "retiring" => Clock(c) < ring[c][k].verify_until

\* Mutant of Installable: only an active key is in the way.
InstallableAgain(c, k) == k \notin signing_key(c)

\* Key identifiers are never used again, and the ring only grows.
Installable(c, k) == k \notin Held(c) /\ Cardinality(Held(c)) < RingSize

Rotate(c, k) ==
  /\ Installable(c, k)
  /\ \E old \in signing_key(c) :
       ring' = [ring EXCEPT ![c] = [@ EXCEPT ![k] = ActiveKey,
         ![old] = [state |-> "retiring", verify_until |-> Clock(c) + Overlap]]]
  /\ UNCHANGED <<now, revoked, caller, token, event>>

\* Revoking the active key leaves no key to sign or to rotate with.
Revoke(c, k) ==
  /\ k \in Held(c)
  /\ ring' = [ring EXCEPT ![c][k] = [state |-> "revoked", verify_until |-> None]]
  /\ revoked' = [revoked EXCEPT ![c] = @ \cup {k}]
  /\ UNCHANGED <<now, caller, token, event>>

-----------------------------------------------------------------------------
Serving == {c \in Components : caller[c] # None}

Free(c) == caller[c] = None /\ Cardinality(Serving) < MaxServing

Lasting(from, lifetime) == IF lifetime = None THEN None ELSE from + lifetime

\* The host asserts a principal.
Authenticate(c, host) ==
  /\ Free(c)
  /\ LET until == Lasting(Clock(c), host.lifetime)
     IN caller' = [caller EXCEPT ![c] =
          [principal |-> [tenant_id |-> host.tenant_id, service |-> FALSE,
                          scopes |-> host.scopes, issued_at |-> Clock(c), expires_at |-> until,
                          source |-> [tenant_id |-> host.tenant_id, scopes |-> host.scopes,
                                      expires_at |-> until]],
           delegation_depth |-> 0, by |-> "host", key_id |-> None]]
  /\ UNCHANGED <<now, ring, revoked, token, event>>

\* The end of the request, or of principal_context.
Leave(c) ==
  /\ caller[c] # None
  /\ caller' = [caller EXCEPT ![c] = None]
  /\ UNCHANGED <<now, ring, revoked, token, event>>

\* Timestamps travel as whole seconds.
epoch(t) == t - (t % PerSecond)

\* Mutant of Expiry: the credential lives as long as was asked for.
ExpiryAsAsked(c, p, ttl) == Clock(c) + ttl

Expiry(c, p, ttl) ==
  IF p.expires_at # None /\ Clock(c) + ttl > p.expires_at THEN p.expires_at ELSE Clock(c) + ttl

\* What the verifier will read: DelegationClaims.to_dict and _verified.
Claimed(c, p, scopes, ttl) ==
  [p EXCEPT !.scopes = scopes, !.issued_at = epoch(Clock(c)),
            !.expires_at = epoch(Expiry(c, p, ttl)), !.source.scopes = scopes]

\* DelegationBridge.prepare: all of the requested scopes, or nothing.
Bridged(c, scopes) == scopes \subseteq caller[c].principal.scopes \cap BridgeScopes

\* What mint accepts of the parent: its depth, the lifetime, that it is alive.
Mintable(c, ttl) ==
  /\ caller[c].delegation_depth < MaximumDepth
  /\ ttl <= MaximumTtl
  /\ Expiry(c, caller[c].principal, ttl) > Clock(c)

\* prepare_trusted; without an active key there is nothing to sign with.
Delegate(c, to, route, scopes, ttl) ==
  /\ caller[c] # None
  /\ Cardinality(token) < MaxTokens
  /\ Bridged(c, scopes) /\ Mintable(c, ttl)
  /\ \E k \in signing_key(c) :
       token' = token \cup
         {[principal |-> Claimed(c, caller[c].principal, scopes, ttl), audience |-> to,
           target |-> route, issuer |-> c, key_id |-> k,
           delegation_depth |-> caller[c].delegation_depth + 1]}
  /\ UNCHANGED <<now, ring, revoked, caller, event>>

\* decode_token: two timestamps of one second do not make a valid interval.
Decodes(t) == t.principal.expires_at > t.principal.issued_at

\* The credential is for this place, this time and this depth.
Attested(c, t, route) ==
  /\ verification_key(c, t.key_id)
  /\ t.audience = c /\ t.target = route
  /\ t.principal.issued_at <= Clock(c) + Skew
  /\ t.principal.expires_at > Clock(c) - Skew
  /\ t.principal.expires_at - t.principal.issued_at <= MaximumTtl
  /\ t.delegation_depth <= MaximumDepth

\* A route names the scopes it needs and the most that a credential may carry.
Admitted(t, route) ==
  route.required \subseteq t.principal.scopes /\ t.principal.scopes \subseteq route.ceiling

\* _verified: the claims become the principal of the request.
Verified(t) ==
  [principal |-> t.principal, delegation_depth |-> t.delegation_depth,
   by |-> "delegation", key_id |-> t.key_id]

\* DelegationVerifier.verify behind verified_delegation_dependency.  Anything else
\* is answered with 403.  A credential may be presented any number of times.
Verify(c, t, route) ==
  /\ Free(c)
  /\ t \in token
  /\ Decodes(t) /\ Attested(c, t, route) /\ Admitted(t, route)
  /\ caller' = [caller EXCEPT ![c] = Verified(t)]
  /\ UNCHANGED <<now, ring, revoked, token, event>>

\* A principal may be stored and loaded again: the envelope drops nothing but how
\* it was established, and both ways a Principal is validated.
PrincipalEnvelope(p) == p.expires_at # None => p.expires_at > p.issued_at

\* Principal.to_envelope: stored with the event for its handlers.
Emit(c) ==
  /\ caller[c] # None
  /\ Cardinality(event) < MaxEvents
  /\ PrincipalEnvelope(caller[c].principal)
  /\ event' = event \cup {caller[c].principal}
  /\ UNCHANGED <<now, ring, revoked, caller, token>>

\* Mutant of EffectiveScopes: revalidation replaces the origin's scopes.
EffectiveScopesCurrent(origin, policy, current) ==
  CASE policy.mode = "snapshot" -> origin.scopes \cap policy.required
    [] policy.mode = "revalidate" -> current \cap policy.required
    [] policy.mode = "service_policy" -> policy.capabilities \cap policy.required

EffectiveScopes(origin, policy, current) ==
  CASE policy.mode = "snapshot" -> origin.scopes \cap policy.required
    [] policy.mode = "revalidate" -> current \cap origin.scopes \cap policy.required
    [] policy.mode = "service_policy" -> policy.capabilities \cap policy.required

Service(c, origin, policy, scopes) ==
  [tenant_id |-> origin.tenant_id, service |-> TRUE, scopes |-> scopes,
   issued_at |-> Clock(c), expires_at |-> None,
   source |-> [tenant_id |-> origin.tenant_id, scopes |-> policy.capabilities,
               expires_at |-> None]]

\* Mutant of Attenuated: a new Principal, with the defaults for its times.
AttenuatedAnew(c, origin, scopes) ==
  [origin EXCEPT !.scopes = scopes, !.issued_at = Clock(c), !.expires_at = None]

Attenuated(c, origin, scopes) == [origin EXCEPT !.scopes = scopes]

\* HandlerExecutor.execute; current is the resolver's answer.  The snapshot's age
\* is that of the principal, whose expiry plays no part.
Handle(c, origin, policy, current) ==
  /\ Free(c)
  /\ origin \in event /\ PrincipalEnvelope(origin)
  /\ policy.mode = "snapshot" =>
       Clock(c) - origin.issued_at <= policy.maximum_snapshot_age
  /\ LET scopes == EffectiveScopes(origin, policy, current)
     IN /\ policy.required \subseteq scopes
        /\ caller' = [caller EXCEPT ![c] =
             [principal |-> IF policy.mode = "service_policy"
                              THEN Service(c, origin, policy, scopes)
                              ELSE Attenuated(c, origin, scopes),
              delegation_depth |-> 0, by |-> policy.mode, key_id |-> None]]
  /\ UNCHANGED <<now, ring, revoked, token, event>>

\* A credential that is never presented again, an event whose deliveries ended.
Forget ==
  /\ \/ \E t \in token : token' = token \ {t} /\ UNCHANGED event
     \/ \E origin \in event : event' = event \ {origin} /\ UNCHANGED token
  /\ UNCHANGED <<now, ring, revoked, caller>>

Tick ==
  /\ now < MaxTime
  /\ now' = now + 1
  /\ UNCHANGED <<ring, revoked, caller, token, event>>

Next ==
  \/ \E c \in Managed, k \in Keys : Rotate(c, k) \/ Revoke(c, k)
  \/ \E c \in Components :
       \/ \E host \in Hosts : Authenticate(c, host)
       \/ \E to \in Components, route \in Routes, scopes \in SUBSET Scopes, ttl \in Ttls :
            Delegate(c, to, route, scopes, ttl)
       \/ \E t \in token, route \in Routes : Verify(c, t, route)
       \/ \E origin \in event, policy \in Policies, current \in SUBSET Scopes :
            Handle(c, origin, policy, current)
       \/ Emit(c) \/ Leave(c)
  \/ Forget \/ Tick

Spec == Init /\ [][Next]_vars

-----------------------------------------------------------------------------
\* Every variable has its type.
AuthorityTypeOK ==
  /\ now \in Nat
  /\ ring \in [Components -> [Keys -> SigningKey \cup {None}]]
  /\ revoked \in [Components -> SUBSET Keys]
  /\ caller \in [Components -> Caller \cup {None}]
  /\ token \subseteq DelegationClaims
  /\ event \subseteq Principal

Principals == event \cup {caller[c].principal : c \in Serving} \cup {t.principal : t \in token}

\* Through any chain of delegations, events and handlers, a principal keeps its
\* tenant and has only scopes of the authority it descends from: "user-derived
\* execution scopes are subsets of the origin ceiling"
\* (docs/concepts/authorization.md:71; executor.py:92-139, signing.py:58-62).
AuthorityNeverExpands ==
  \A p \in Principals :
    /\ p.tenant_id = p.source.tenant_id
    /\ p.scopes \subseteq p.source.scopes

\* A principal dies with the one it descends from, however often it was delegated,
\* stored and attenuated in between; only a service policy is not bound by it
\* (signing.py:77-83, models.py:167-172, executor.py:136-139).
LifetimeNeverGrows ==
  \A p \in Principals : p.source.expires_at # None =>
    p.expires_at # None /\ p.expires_at <= p.source.expires_at

SnapshotAges == {policy.maximum_snapshot_age : policy \in {q \in Policies : q.mode = "snapshot"}}

\* Snapshot mode does not look at expires_at (executor.py:103-109), so authority
\* outlives its expiry; yet by less than the maximum age, also through chains of
\* handlers that emit and delegations that issue the principal anew.
SnapshotAuthorityEnds ==
  [][\A c \in Components :
       /\ caller'[c] # caller[c] /\ caller'[c] # None
       /\ caller'[c].by = "snapshot" /\ caller'[c].principal.source.expires_at # None
       => \E age \in SnapshotAges : Clock(c) < caller'[c].principal.source.expires_at + age]_vars

\* After a key is revoked at a component, that component accepts no credential of
\* it and signs none with it, whatever rotations follow: "verification fails
\* immediately, including during a planned overlap"
\* (docs/operations/delegation-keys.md:24-25; keys.py:102-188).
RevokedStaysRevoked ==
  [][/\ \A c \in Components :
          caller'[c] # caller[c] /\ caller'[c] # None => caller'[c].key_id \notin revoked[c]
     /\ \A t \in token' \ token : t.key_id \notin revoked[t.issuer]]_vars
=============================================================================
