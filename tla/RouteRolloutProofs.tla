-------------------------- MODULE RouteRolloutProofs --------------------------
(***************************************************************************)
(* Theorems about RouteRollout for every history of releases whose programs *)
(* are well formed and retain their predecessors' handlers, and any number  *)
(* of processes, events and crashes: the registry a process builds while it *)
(* starts, what a delivery's snapshot says of the program it came from, and *)
(* that both fit together across releases.                                  *)
(***************************************************************************)
EXTENDS RouteRollout, TLAPS

\* Route r is as declaration d made it, but for its resolved capabilities.
SpecifiedBy(r, d) ==
  r = [RouteSpecification(d) EXCEPT !.service_capabilities = r.service_capabilities]

\* What freezing has made sure of for route r.
Prepared(r, program) ==
  /\ r.authorization = "revalidate" => program.resolver
  /\ r.authorization = "service_policy" =>
       r.service_capabilities # None /\ r.required_scopes \subseteq r.service_capabilities

Made(d) == {[identity |-> Identity(d), function |-> d.function]}

\* The registry after the first m statements of a program.
RegistryOK(registry, program, m) ==
  /\ registry = [routes |-> registry.routes, handlers |-> registry.handlers,
                 frozen |-> registry.frozen]
  /\ registry.frozen \in BOOLEAN
  /\ \A i \in 1..m : LET d == program.declarations[i] IN
       /\ d.statement # "freeze" => Registered(registry, Identity(d)) = Made(d)
       /\ d.statement = "route" =>
            \E r \in registry.routes : r.key = d.key /\ r.version = d.version
  /\ \A r \in registry.routes :
       /\ \E i \in 1..m : LET d == program.declarations[i] IN
            d.statement = "route" /\ ModeDeclared(d) /\ SpecifiedBy(r, d)
       /\ registry.frozen => Prepared(r, program)
  /\ \A q, r \in registry.routes : q.key = r.key =>
       q.event_type = r.event_type /\ (q.version = r.version => q = r)

\* The fields a declaration gives its route.
LEMMA Specified ==
  ASSUME NEW r, NEW d, SpecifiedBy(r, d)
  PROVE  /\ r.event_type = d.event_type /\ r.key = d.key /\ r.version = d.version
         /\ r.authorization = d.authorization /\ r.required_scopes = d.required_scopes
         /\ r.service_policy = d.service_policy
         /\ r.maximum_snapshot_age = d.maximum_snapshot_age
  BY DEF SpecifiedBy, RouteSpecification

\* The next statement of a program is one of its declarations.
LEMMA NextDeclaration ==
  ASSUME NEW program, WellFormed(program), NEW m \in Nat, m < Len(program.declarations)
  PROVE  LET d == program.declarations[m + 1]
         IN  /\ d \in Declared(program)
             /\ d.statement \in {"route", "handler", "freeze"}
             /\ d.statement # "freeze" => d.version \in Nat \ {0}
  <1>1. m + 1 \in 1 .. Len(program.declarations)
        /\ DOMAIN program.declarations = 1 .. Len(program.declarations)
    BY DEF WellFormed
  <1>2. QED
    BY <1>1 DEF WellFormed, Declared

\* Registering a handler that is accepted makes its identity run its function and
\* changes no other identity.
LEMMA HandlerRegistered ==
  ASSUME NEW registry, NEW d, HandlerAccepted(registry, d),
         registry = [routes |-> registry.routes, handlers |-> registry.handlers,
                     frozen |-> registry.frozen]
  PROVE  LET new == register_handler(registry, d)
         IN  /\ new = [routes |-> registry.routes, handlers |-> new.handlers,
                       frozen |-> registry.frozen]
             /\ Registered(new, Identity(d)) = Made(d)
             /\ \A e : Registered(registry, Identity(e)) = Made(e) =>
                         Registered(new, Identity(e)) = Made(e)
  <1> DEFINE new == register_handler(registry, d)
             H == (registry.handlers \ Registered(registry, Identity(d))) \cup Made(d)
  <1>1. new = [routes |-> registry.routes, handlers |-> H, frozen |-> registry.frozen]
    BY DEF register_handler, Made
  <1>2. new.handlers = H
    BY <1>1
  <1>3. \A h \in Made(d) : h.identity = Identity(d) /\ h.function = d.function
    BY DEF Made
  <1>4. Registered(new, Identity(d)) = Made(d)
    BY <1>2, <1>3 DEF Registered
  <1>5. ASSUME NEW e, Registered(registry, Identity(e)) = Made(e)
        PROVE  Registered(new, Identity(e)) = Made(e)
    <2>1. CASE Identity(e) = Identity(d)
      <3>1. [identity |-> Identity(e), function |-> e.function] \in Registered(registry, Identity(d))
        BY <1>5, <2>1 DEF Made
      <3>2. e.function = d.function
        BY <3>1 DEF HandlerAccepted
      <3>3. Made(e) = Made(d)
        BY <2>1, <3>2 DEF Made
      <3>4. QED
        BY <1>4, <2>1, <3>3
    <2>2. CASE Identity(e) # Identity(d)
      BY <1>2, <1>3, <1>5, <2>2 DEF Registered
    <2>3. QED
      BY <2>1, <2>2
  <1> HIDE DEF new
  <1>6. QED
    BY <1>1, <1>2, <1>4, <1>5 DEF new

\* A statement that is accepted leads to the registry of the program so far.
LEMMA HandlerDeclared ==
  ASSUME NEW registry, NEW program, NEW m \in Nat, RegistryOK(registry, program, m),
         LET d == program.declarations[m + 1]
         IN  d.statement = "handler" /\ HandlerAccepted(registry, d)
  PROVE  RegistryOK(register_handler(registry, program.declarations[m + 1]), program, m + 1)
  <1> DEFINE d == program.declarations[m + 1]
             new == register_handler(registry, d)
  <1>1. /\ new = [routes |-> registry.routes, handlers |-> new.handlers,
                  frozen |-> registry.frozen]
        /\ Registered(new, Identity(d)) = Made(d)
        /\ \A e : Registered(registry, Identity(e)) = Made(e) =>
                    Registered(new, Identity(e)) = Made(e)
    BY HandlerRegistered DEF RegistryOK
  <1> HIDE DEF new
  <1>2. new.routes = registry.routes /\ new.frozen = registry.frozen
    BY <1>1
  <1>3. \A i \in 1 .. m + 1 : i \in 1..m \/ i = m + 1
    OBVIOUS
  <1>4. ASSUME NEW i \in 1 .. m + 1
        PROVE  LET e == program.declarations[i] IN
                 /\ e.statement # "freeze" => Registered(new, Identity(e)) = Made(e)
                 /\ e.statement = "route" =>
                      \E r \in new.routes : r.key = e.key /\ r.version = e.version
    <2>1. CASE i \in 1..m
      BY <1>1, <1>2, <2>1 DEF RegistryOK
    <2>2. CASE i = m + 1
      BY <1>1, <2>2
    <2>3. QED
      BY <1>3, <2>1, <2>2
  <1>5. \A r \in new.routes : \E i \in 1 .. m + 1 : LET e == program.declarations[i] IN
          e.statement = "route" /\ ModeDeclared(e) /\ SpecifiedBy(r, e)
    BY <1>2 DEF RegistryOK
  <1>6. /\ \A r \in new.routes : new.frozen => Prepared(r, program)
        /\ \A q, r \in new.routes : q.key = r.key =>
             q.event_type = r.event_type /\ (q.version = r.version => q = r)
        /\ new.frozen \in BOOLEAN
    BY <1>2 DEF RegistryOK
  <1>7. new = [routes |-> new.routes, handlers |-> new.handlers, frozen |-> new.frozen]
    BY <1>1, <1>2
  <1>8. RegistryOK(new, program, m + 1)
    BY <1>4, <1>5, <1>6, <1>7 DEF RegistryOK
  <1>9. QED
    BY <1>8 DEF new

LEMMA RouteDeclared ==
  ASSUME NEW registry, NEW program, NEW m \in Nat, RegistryOK(registry, program, m),
         \A i \in 1 .. m + 1 : program.declarations[i].statement # "freeze" =>
           program.declarations[i].version \in Nat,
         LET d == program.declarations[m + 1]
         IN  d.statement = "route" /\ RouteAccepted(registry, d)
  PROVE  RegistryOK(register_route(registry, program.declarations[m + 1]), program, m + 1)
  <1> DEFINE d == program.declarations[m + 1]
             mid == register_handler(registry, d)
             new == register_route(registry, d)
             s == RouteSpecification(d)
  <1>1. /\ mid = [routes |-> registry.routes, handlers |-> mid.handlers,
                  frozen |-> registry.frozen]
        /\ Registered(mid, Identity(d)) = Made(d)
        /\ \A e : Registered(registry, Identity(e)) = Made(e) =>
                    Registered(mid, Identity(e)) = Made(e)
    BY HandlerRegistered DEF RegistryOK, RouteAccepted
  <1>2. new = [mid EXCEPT !.routes = mid.routes \cup {s}]
    BY DEF register_route
  <1>3. /\ s.key = d.key /\ s.version = d.version /\ s.event_type = d.event_type
        /\ SpecifiedBy(s, d)
    BY DEF RouteSpecification, SpecifiedBy
  <1> HIDE DEF new, mid, s
  <1>4. /\ new.routes = registry.routes \cup {s} /\ new.frozen = registry.frozen
        /\ new.handlers = mid.handlers
        /\ new = [routes |-> new.routes, handlers |-> new.handlers, frozen |-> new.frozen]
    BY <1>1, <1>2
  <1>5. \A e : Registered(new, Identity(e)) = Registered(mid, Identity(e))
    BY <1>4 DEF Registered
  <1>6. registry.frozen = FALSE /\ new.frozen \in BOOLEAN /\ ~new.frozen
    BY <1>4 DEF RouteAccepted, HandlerAccepted, RegistryOK
  <1>7. \A i \in 1 .. m + 1 : i \in 1..m \/ i = m + 1
    OBVIOUS
  <1>8. ASSUME NEW i \in 1 .. m + 1
        PROVE  LET e == program.declarations[i] IN
                 /\ e.statement # "freeze" => Registered(new, Identity(e)) = Made(e)
                 /\ e.statement = "route" =>
                      \E r \in new.routes : r.key = e.key /\ r.version = e.version
    <2>1. CASE i \in 1..m
      BY <1>1, <1>4, <1>5, <2>1 DEF RegistryOK
    <2>2. CASE i = m + 1
      BY <1>1, <1>3, <1>4, <1>5, <2>2
    <2>3. QED
      BY <1>7, <2>1, <2>2
  <1>9. ASSUME NEW r \in new.routes
        PROVE  \E i \in 1 .. m + 1 : LET e == program.declarations[i] IN
                 e.statement = "route" /\ ModeDeclared(e) /\ SpecifiedBy(r, e)
    <2>1. CASE r \in registry.routes
      BY <2>1 DEF RegistryOK
    <2>2. CASE r = s
      <3>1. m + 1 \in 1 .. m + 1 /\ ModeDeclared(d) /\ d.statement = "route"
        BY DEF RouteAccepted
      <3>2. QED
        BY <1>3, <2>2, <3>1
    <2>3. QED
      BY <1>4, <2>1, <2>2
  <1>10. ASSUME NEW r \in registry.routes, r.key = s.key
         PROVE  r.event_type = s.event_type /\ r.version # s.version
    <2>1. r.event_type = d.event_type /\ r.version < d.version
      BY <1>3, <1>10 DEF RouteAccepted
    <2>2. PICK i \in 1..m : program.declarations[i].statement = "route"
                     /\ SpecifiedBy(r, program.declarations[i])
      BY DEF RegistryOK
    <2>3. r.version \in Nat
      <3>1. r.version = program.declarations[i].version
        BY <2>2, Specified
      <3>2. QED
        BY <2>2, <3>1
    <2>4. d.version \in Nat
      OBVIOUS
    <2>5. QED
      BY <1>3, <2>1, <2>3, <2>4
  <1>11. \A q, r \in new.routes : q.key = r.key =>
           q.event_type = r.event_type /\ (q.version = r.version => q = r)
    <2>1. \A q, r \in registry.routes : q.key = r.key =>
            q.event_type = r.event_type /\ (q.version = r.version => q = r)
      BY DEF RegistryOK
    <2>2. QED
      BY <1>4, <1>10, <2>1
  <1>12. RegistryOK(new, program, m + 1)
    BY <1>4, <1>6, <1>8, <1>9, <1>11 DEF RegistryOK
  <1>13. QED
    BY <1>12 DEF new

LEMMA FreezeDeclared ==
  ASSUME NEW registry, NEW program, NEW m \in Nat, RegistryOK(registry, program, m),
         program.declarations[m + 1].statement = "freeze",
         registry.frozen \/ SnapshotsPrepared(registry, program)
  PROVE  RegistryOK(freeze(registry, program), program, m + 1)
  <1> DEFINE new == freeze(registry, program)
             pinned(r) == IF r \in Services(registry)
                            THEN [r EXCEPT !.service_capabilities = program.policies[r.service_policy]]
                            ELSE r
  <1>1. \A i \in 1 .. m + 1 : i \in 1..m \/ i = m + 1
    OBVIOUS
  <1>2. CASE registry.frozen
    <2>1. new = registry
      BY <1>2 DEF freeze
    <2>2. \A i \in 1 .. m + 1 : LET e == program.declarations[i] IN
            /\ e.statement # "freeze" => Registered(registry, Identity(e)) = Made(e)
            /\ e.statement = "route" =>
                 \E r \in registry.routes : r.key = e.key /\ r.version = e.version
      BY <1>1 DEF RegistryOK
    <2>3. \A r \in registry.routes : \E i \in 1 .. m + 1 : LET e == program.declarations[i] IN
            e.statement = "route" /\ ModeDeclared(e) /\ SpecifiedBy(r, e)
      BY DEF RegistryOK
    <2>4. RegistryOK(registry, program, m + 1)
      BY <2>2, <2>3 DEF RegistryOK
    <2>5. QED
      BY <2>1, <2>4
  <1>3. CASE ~registry.frozen
    <2>1. new = [registry EXCEPT !.frozen = TRUE, !.routes = {pinned(r) : r \in registry.routes}]
      BY <1>3 DEF freeze
    <2> HIDE DEF new
    <2>2. /\ new.routes = {pinned(r) : r \in registry.routes}
          /\ new.handlers = registry.handlers /\ new.frozen = TRUE
          /\ new = [routes |-> new.routes, handlers |-> new.handlers, frozen |-> new.frozen]
      BY <2>1 DEF RegistryOK
    <2>3. ASSUME NEW r \in registry.routes
          PROVE  /\ \E i \in 1 .. m + 1 : LET e == program.declarations[i] IN
                      e.statement = "route" /\ ModeDeclared(e) /\ SpecifiedBy(pinned(r), e)
                 /\ Prepared(pinned(r), program)
                 /\ pinned(r).key = r.key /\ pinned(r).version = r.version
                 /\ pinned(r).event_type = r.event_type
      <3>1. PICK i \in 1..m :
              /\ program.declarations[i].statement = "route"
              /\ ModeDeclared(program.declarations[i])
              /\ SpecifiedBy(r, program.declarations[i])
        BY DEF RegistryOK
      <3> DEFINE e == program.declarations[i]
                 q == pinned(r)
      <3>2. q = [r EXCEPT !.service_capabilities = q.service_capabilities]
        <4>1. CASE r \in Services(registry)
          BY <3>1, <4>1 DEF SpecifiedBy, RouteSpecification
        <4>2. CASE r \notin Services(registry)
          BY <3>1, <4>2 DEF SpecifiedBy, RouteSpecification
        <4>3. QED
          BY <4>1, <4>2
      <3> HIDE DEF q
      <3>3. SpecifiedBy(q, e)
        BY <3>1, <3>2 DEF SpecifiedBy, RouteSpecification
      <3>4. /\ q.key = r.key /\ q.version = r.version /\ q.event_type = r.event_type
            /\ q.authorization = r.authorization /\ q.required_scopes = r.required_scopes
        BY <3>1, <3>3, Specified
      <3>5. q.authorization = "service_policy" =>
              q.service_capabilities # None /\ q.required_scopes \subseteq q.service_capabilities
        <4> SUFFICES ASSUME r.authorization = "service_policy"
                     PROVE  /\ q.service_capabilities # None
                            /\ r.required_scopes \subseteq q.service_capabilities
          BY <3>4
        <4>1. r \in Services(registry)
          BY DEF Services
        <4>2. q.service_capabilities = program.policies[r.service_policy]
          BY <3>1, <4>1 DEF q, SpecifiedBy, RouteSpecification
        <4>3. QED
          BY <1>3, <4>1, <4>2 DEF SnapshotsPrepared
      <3>6. q.authorization = "revalidate" => program.resolver
        BY <1>3, <3>4 DEF SnapshotsPrepared
      <3>7. i \in 1 .. m + 1
        OBVIOUS
      <3>8. QED
        BY <3>1, <3>3, <3>4, <3>5, <3>6, <3>7 DEF Prepared, q
    <2> HIDE DEF pinned
    <2>4. \A e : Registered(new, Identity(e)) = Registered(registry, Identity(e))
      BY <2>2 DEF Registered
    <2>5. ASSUME NEW i \in 1 .. m + 1
          PROVE  LET e == program.declarations[i] IN
                   /\ e.statement # "freeze" => Registered(new, Identity(e)) = Made(e)
                   /\ e.statement = "route" =>
                        \E r \in new.routes : r.key = e.key /\ r.version = e.version
      <3>1. CASE i = m + 1
        BY <3>1
      <3>2. CASE i \in 1..m
        <4>1. program.declarations[i].statement = "route" =>
                \E r \in registry.routes :
                  r.key = program.declarations[i].key /\ r.version = program.declarations[i].version
          BY <3>2 DEF RegistryOK
        <4>2. program.declarations[i].statement = "route" =>
                \E r \in new.routes :
                  r.key = program.declarations[i].key /\ r.version = program.declarations[i].version
          BY <2>2, <2>3, <4>1
        <4>3. QED
          BY <2>4, <3>2, <4>2 DEF RegistryOK
      <3>3. QED
        BY <1>1, <3>1, <3>2
    <2>6. ASSUME NEW u \in new.routes, NEW v \in new.routes, u.key = v.key
          PROVE  u.event_type = v.event_type /\ (u.version = v.version => u = v)
      <3>1. PICK q \in registry.routes : u = pinned(q)
        BY <2>2
      <3>2. PICK r \in registry.routes : v = pinned(r)
        BY <2>2
      <3>3. q.event_type = r.event_type /\ (q.version = r.version => q = r)
        BY <2>3, <2>6, <3>1, <3>2 DEF RegistryOK
      <3>4. QED
        BY <2>3, <3>1, <3>2, <3>3
    <2>7. \A u \in new.routes :
            /\ \E i \in 1 .. m + 1 : LET e == program.declarations[i] IN
                 e.statement = "route" /\ ModeDeclared(e) /\ SpecifiedBy(u, e)
            /\ Prepared(u, program)
      BY <2>2, <2>3
    <2>8. RegistryOK(new, program, m + 1)
      BY <2>2, <2>5, <2>6, <2>7 DEF RegistryOK
    <2>9. QED
      BY <2>8 DEF new
  <1>4. QED
    BY <1>2, <1>3

LEMMA StatementPerformed ==
  ASSUME NEW registry, NEW program, NEW m \in Nat,
         WellFormed(program), m < Len(program.declarations),
         RegistryOK(registry, program, m),
         Accepted(registry, program.declarations[m + 1], program)
  PROVE  RegistryOK(Performed(registry, program.declarations[m + 1], program), program, m + 1)
  <1> DEFINE d == program.declarations[m + 1]
  <1>1. d.statement \in {"route", "handler", "freeze"}
    BY NextDeclaration
  <1>2. ASSUME NEW i \in 1 .. m + 1, program.declarations[i].statement # "freeze"
        PROVE  program.declarations[i].version \in Nat
    <2>1. i - 1 \in Nat /\ i - 1 < Len(program.declarations) /\ (i - 1) + 1 = i
      BY DEF WellFormed
    <2>2. QED
      BY <1>2, <2>1, NextDeclaration
  <1>3. CASE d.statement = "route"
    <2>1. RouteAccepted(registry, d) /\ Performed(registry, d, program) = register_route(registry, d)
      BY <1>3 DEF Accepted, Performed
    <2>2. QED
      BY <1>2, <1>3, <2>1, RouteDeclared
  <1>4. CASE d.statement = "handler"
    <2>1. HandlerAccepted(registry, d) /\ Performed(registry, d, program) = register_handler(registry, d)
      BY <1>4 DEF Accepted, Performed
    <2>2. QED
      BY <1>4, <2>1, HandlerDeclared
  <1>5. CASE d.statement = "freeze"
    <2>1. /\ registry.frozen \/ SnapshotsPrepared(registry, program)
          /\ Performed(registry, d, program) = freeze(registry, program)
      BY <1>5 DEF Accepted, Performed
    <2>2. QED
      BY <1>5, <2>1, FreezeDeclared
  <1>6. QED
    BY <1>1, <1>3, <1>4, <1>5

-----------------------------------------------------------------------------
(* The inductive invariant.                                                  *)

ProcessOK(s, h, c) ==
  \/ s = Down
  \/ /\ s = [state |-> s.state, release |-> s.release, position |-> s.position,
             registry |-> s.registry]
     /\ s.state \in {"starting", "serving"}
     /\ s.release \in 1..c
     /\ s.position \in 0..Len(h[s.release].declarations)
     /\ RegistryOK(s.registry, h[s.release], s.position)
     /\ s.state = "serving" =>
          s.position = Len(h[s.release].declarations) /\ s.registry.frozen

\* A delivery carries the newest route of its key in the program it came from.
DeliveryOK(d, h, c, n) ==
  /\ d = [event |-> d.event, route |-> d.route, release |-> d.release, state |-> d.state,
          holder |-> d.holder, lost |-> d.lost]
  /\ d.event \in 1..n
  /\ d.release \in 1..c
  /\ Prepared(d.route, h[d.release])
  /\ \E e \in Declared(h[d.release]) :
       e.statement = "route" /\ ModeDeclared(e) /\ SpecifiedBy(d.route, e)
  /\ \A r \in Declared(h[d.release]) :
       r.statement = "route" /\ r.key = d.route.key => r.version <= d.route.version

OnePerKey ==
  \A d, e \in delivery : e.event = d.event /\ e.route.key = d.route.key => e = d

RolloutInv ==
  /\ history \in Histories
  /\ current \in 1..Len(history)
  /\ events \in Nat
  /\ process = [p \in Processes |-> process[p]]
  /\ \A p \in Processes : ProcessOK(process[p], history, current)
  /\ \A d \in delivery : DeliveryOK(d, history, current, events)
  /\ OnePerKey

LEMMA EmptyRegistry ==
  ASSUME NEW program
  PROVE  RegistryOK(Unfrozen, program, 0)
  BY DEF RegistryOK, Unfrozen

\* Every release is a well-formed program.
LEMMA ReleaseFacts ==
  ASSUME NEW h \in Histories
  PROVE  /\ Len(h) \in Nat \ {0} /\ DOMAIN h = 1..Len(h)
         /\ \A i \in 1..Len(h) :
              /\ WellFormed(h[i])
              /\ Len(h[i].declarations) \in Nat
              /\ DOMAIN h[i].declarations = 1..Len(h[i].declarations)
              /\ \A e \in Declared(h[i]) : e.statement = "route" => e.version \in Nat
  <1>1. h \in Seq(Releases(h)) /\ Len(h) > 0
    BY HistoryAssumption
  <1>2. Len(h) \in Nat \ {0} /\ DOMAIN h = 1..Len(h)
    BY <1>1
  <1>3. ASSUME NEW i \in 1..Len(h) PROVE WellFormed(h[i])
    <2>1. h[i] \in Releases(h)
      BY <1>2 DEF Releases
    <2>2. QED
      BY <2>1, HistoryAssumption
  <1>4. ASSUME NEW i \in 1..Len(h)
        PROVE  /\ Len(h[i].declarations) \in Nat
               /\ DOMAIN h[i].declarations = 1..Len(h[i].declarations)
               /\ \A e \in Declared(h[i]) : e.statement = "route" => e.version \in Nat
    BY <1>3 DEF WellFormed
  <1>5. QED
    BY <1>2, <1>3, <1>4

\* A step of one process leaves the others as they are.
LEMMA OneProcess ==
  ASSUME RolloutInv, NEW p \in Processes, NEW s,
         process' = [process EXCEPT ![p] = s],
         UNCHANGED <<history, current>>, ProcessOK(s, history, current)
  PROVE  /\ process' = [q \in Processes |-> process'[q]]
         /\ \A q \in Processes : ProcessOK(process'[q], history', current')
  <1>1. \A q \in Processes : process'[q] = IF q = p THEN s ELSE process[q]
    BY DEF RolloutInv
  <1>2. QED
    BY <1>1 DEF RolloutInv

\* Steps that publish or execute nothing leave the deliveries in order.
LEMMA SameDeliveries ==
  ASSUME RolloutInv, UNCHANGED <<delivery, events, history>>, current' \in Nat,
         current <= current'
  PROVE  (\A d \in delivery : DeliveryOK(d, history, current, events))' /\ OnePerKey'
  <1>1. current \in Nat
    BY ReleaseFacts DEF RolloutInv
  <1>2. \A d : DeliveryOK(d, history, current, events) => DeliveryOK(d, history, current', events)
    BY <1>1 DEF DeliveryOK
  <1>3. QED
    BY <1>2 DEF RolloutInv, OnePerKey

\* A delivery that is claimed, executed, denied or loses an attempt stays what it was.
Kin(e, d) ==
  e = [event |-> d.event, route |-> d.route, release |-> d.release,
       state |-> e.state, holder |-> e.holder, lost |-> e.lost]

LEMMA KinDeliveries ==
  ASSUME RolloutInv, NEW g, \A d \in delivery : Kin(g[d], d),
         delivery' = {g[d] : d \in delivery}, UNCHANGED <<events, history, current>>
  PROVE  (\A d \in delivery : DeliveryOK(d, history, current, events))' /\ OnePerKey'
  <1>1. ASSUME NEW d \in delivery
        PROVE  /\ g[d].event = d.event /\ g[d].route = d.route /\ g[d].release = d.release
               /\ g[d] = [event |-> g[d].event, route |-> g[d].route, release |-> g[d].release,
                          state |-> g[d].state, holder |-> g[d].holder, lost |-> g[d].lost]
    <2> DEFINE e == g[d]
    <2>1. e = [event |-> d.event, route |-> d.route, release |-> d.release,
               state |-> e.state, holder |-> e.holder, lost |-> e.lost]
      BY DEF Kin
    <2> HIDE DEF e
    <2>2. e.event = d.event /\ e.route = d.route /\ e.release = d.release
      BY <2>1
    <2>3. e = [event |-> e.event, route |-> e.route, release |-> e.release,
               state |-> e.state, holder |-> e.holder, lost |-> e.lost]
      BY <2>1, <2>2
    <2>4. QED
      BY <2>2, <2>3 DEF e
  <1>2. ASSUME NEW d \in delivery
        PROVE  DeliveryOK(g[d], history, current, events)
    BY <1>1 DEF DeliveryOK, RolloutInv
  <1>3. OnePerKey'
    <2> SUFFICES ASSUME NEW d \in delivery, NEW e \in delivery,
                        g[e].event = g[d].event, g[e].route.key = g[d].route.key
                 PROVE  g[e] = g[d]
      BY DEF OnePerKey
    <2>1. e.event = d.event /\ e.route.key = d.route.key
      BY <1>1
    <2>2. QED
      BY <2>1 DEF RolloutInv, OnePerKey
  <1>4. QED
    BY <1>2, <1>3

LEMMA DeliveryShape ==
  ASSUME RolloutInv, NEW d \in delivery
  PROVE  d = [event |-> d.event, route |-> d.route, release |-> d.release,
              state |-> d.state, holder |-> d.holder, lost |-> d.lost]
  BY DEF RolloutInv, DeliveryOK

LEMMA Rewritten ==
  ASSUME RolloutInv, NEW d \in delivery, NEW state, NEW holder, NEW lost
  PROVE  /\ [d EXCEPT !.state = state, !.holder = holder]
              = [event |-> d.event, route |-> d.route, release |-> d.release,
                 state |-> state, holder |-> holder, lost |-> d.lost]
         /\ [d EXCEPT !.state = state, !.holder = holder, !.lost = lost]
              = [event |-> d.event, route |-> d.route, release |-> d.release,
                 state |-> state, holder |-> holder, lost |-> lost]
  <1> DEFINE a == [d EXCEPT !.state = state]
             b == [a EXCEPT !.holder = holder]
             c == [b EXCEPT !.lost = lost]
  <1>1. a = [event |-> d.event, route |-> d.route, release |-> d.release,
             state |-> state, holder |-> d.holder, lost |-> d.lost]
    BY DeliveryShape
  <1> HIDE DEF a
  <1>2. b = [event |-> d.event, route |-> d.route, release |-> d.release,
             state |-> state, holder |-> holder, lost |-> d.lost]
    BY <1>1
  <1> HIDE DEF b
  <1>3. c = [event |-> d.event, route |-> d.route, release |-> d.release,
             state |-> state, holder |-> holder, lost |-> lost]
    BY <1>2
  <1>4. QED
    BY <1>2, <1>3 DEF a, b, c

\* What a relay held when it ended.
LEMMA AbandonedDeliveries ==
  ASSUME RolloutInv, NEW p, NEW offender, delivery' = Abandoned(p, offender),
         UNCHANGED <<events, history, current>>
  PROVE  (\A d \in delivery : DeliveryOK(d, history, current, events))' /\ OnePerKey'
  <1> DEFINE relay == process[p].release
             g == [d \in delivery |-> IF d \in Held(p) THEN Lost(d, relay, offender) ELSE d]
  <1>1. ASSUME NEW d \in delivery
        PROVE  Kin(Lost(d, relay, offender), d)
    <2> DEFINE state == IF Len(d.lost) + 1 < max_attempts THEN "pending" ELSE "dead"
               lost == Append(d.lost, [relay |-> relay, offender |-> offender])
               e == Lost(d, relay, offender)
    <2>1. e = [d EXCEPT !.state = state, !.holder = None, !.lost = lost]
      BY DEF Lost
    <2> HIDE DEF e, state, lost
    <2>2. e = [event |-> d.event, route |-> d.route, release |-> d.release,
               state |-> state, holder |-> None, lost |-> lost]
      BY <2>1, Rewritten
    <2>3. e.state = state /\ e.holder = None /\ e.lost = lost
      BY <2>2
    <2>4. Kin(e, d)
      BY <2>2, <2>3 DEF Kin
    <2>5. QED
      BY <2>4 DEF e
  <1>2. \A d \in delivery : Kin(d, d)
    BY DeliveryShape DEF Kin
  <1>3. \A d \in delivery : Kin(g[d], d)
    BY <1>1, <1>2
  <1>4. delivery' = {g[d] : d \in delivery}
    BY DEF Abandoned
  <1> HIDE DEF g
  <1>5. QED
    BY <1>3, <1>4, KinDeliveries

\* The deliveries of an event carry the newest routes of a serving process.
LEMMA PublishedDeliveries ==
  ASSUME RolloutInv, NEW p \in Processes, NEW event_type, Emit(p, event_type)
  PROVE  (\A d \in delivery : DeliveryOK(d, history, current, events))' /\ OnePerKey'
  <1> DEFINE s == process[p]
             n == events + 1
             program == history[s.release]
             made(r) == [event |-> n, route |-> r, release |-> s.release,
                         state |-> "pending", holder |-> None, lost |-> <<>>]
             M == matching(s.registry, event_type)
  <1>1. /\ s.state = "serving" /\ events' = n /\ UNCHANGED <<history, current>>
        /\ delivery' = delivery \cup {made(r) : r \in M}
    BY DEF Emit
  <1>2. /\ s.release \in 1..current /\ s.registry.frozen
        /\ RegistryOK(s.registry, program, Len(program.declarations))
    <2>1. ProcessOK(s, history, current) /\ s # Down
      BY <1>1 DEF RolloutInv, Down
    <2>2. QED
      BY <1>1, <2>1 DEF ProcessOK
  <1>3. /\ current \in 1..Len(history) /\ Len(history) \in Nat /\ events \in Nat
        /\ history \in Histories
    BY ReleaseFacts DEF RolloutInv
  <1>4. s.release \in 1..Len(history)
    BY <1>2, <1>3
  <1>5. /\ Len(program.declarations) \in Nat
        /\ DOMAIN program.declarations = 1..Len(program.declarations)
        /\ \A e \in Declared(program) : e.statement = "route" => e.version \in Nat
    BY <1>3, <1>4, ReleaseFacts
  <1> HIDE DEF s, program, M
  <1>6. ASSUME NEW r \in s.registry.routes
        PROVE  /\ \E e \in Declared(program) :
                    e.statement = "route" /\ ModeDeclared(e) /\ SpecifiedBy(r, e)
               /\ r.version \in Nat /\ Prepared(r, program)
    <2>1. PICK i \in 1..Len(program.declarations) : LET e == program.declarations[i] IN
            e.statement = "route" /\ ModeDeclared(e) /\ SpecifiedBy(r, e)
      BY <1>2 DEF RegistryOK
    <2>2. program.declarations[i] \in Declared(program)
      BY <1>5 DEF Declared
    <2>3. r.version = program.declarations[i].version
      BY <2>1, Specified
    <2>4. QED
      BY <1>2, <1>5, <2>1, <2>2, <2>3 DEF RegistryOK
  <1>7. \A r \in M : /\ r \in s.registry.routes
                     /\ \A q \in s.registry.routes : q.key = r.key => q.version <= r.version
    BY DEF M, matching
  <1>8. ASSUME NEW r \in M
        PROVE  DeliveryOK(made(r), history, current, n)
    <2>1. ASSUME NEW e \in Declared(program), e.statement = "route", e.key = r.key
          PROVE  e.version <= r.version
      <3>1. PICK i \in 1..Len(program.declarations) : e = program.declarations[i]
        BY <1>5 DEF Declared
      <3>2. \E q \in s.registry.routes : q.key = e.key /\ q.version = e.version
        BY <1>2, <2>1, <3>1 DEF RegistryOK
      <3>3. QED
        BY <1>7, <2>1, <3>2
    <2>2. n \in 1..n
      BY <1>3
    <2>3. QED
      BY <1>2, <1>6, <1>7, <2>1, <2>2 DEF DeliveryOK, program
  <1>9. ASSUME NEW d \in delivery
        PROVE  DeliveryOK(d, history, current, n) /\ d.event # n
    <2>1. DeliveryOK(d, history, current, events)
      BY DEF RolloutInv
    <2>2. QED
      BY <1>3, <2>1 DEF DeliveryOK
  <1>10. \A q, r \in M : q.key = r.key => q = r
    <2>1. \A q, r \in M : q.key = r.key => q.version = r.version
      BY <1>6, <1>7
    <2>2. \A q, r \in s.registry.routes : q.key = r.key /\ q.version = r.version => q = r
      BY <1>2 DEF RegistryOK
    <2>3. QED
      BY <1>7, <2>1, <2>2
  <1>11. OnePerKey'
    <2> SUFFICES ASSUME NEW d \in delivery', NEW e \in delivery',
                        e.event = d.event, e.route.key = d.route.key
                 PROVE  e = d
      BY DEF OnePerKey
    <2>1. CASE d \in delivery /\ e \in delivery
      BY <2>1 DEF RolloutInv, OnePerKey
    <2>2. CASE d \notin delivery \/ e \notin delivery
      <3>1. d.event = n /\ e.event = n
        BY <1>1, <2>2
      <3>2. PICK q \in M : d = made(q)
        BY <1>1, <1>9, <3>1
      <3>3. PICK r \in M : e = made(r)
        BY <1>1, <1>9, <3>1
      <3>4. QED
        BY <1>10, <3>2, <3>3
    <2>3. QED
      BY <2>1, <2>2
  <1>12. QED
    BY <1>1, <1>8, <1>9, <1>11

LEMMA RolloutStep ==
  ASSUME RolloutInv, [Next]_vars
  PROVE  RolloutInv'
  <1>1. /\ history \in Histories /\ current \in 1..Len(history) /\ events \in Nat
        /\ Len(history) \in Nat \ {0}
        /\ \A p \in Processes : ProcessOK(process[p], history, current)
    BY ReleaseFacts DEF RolloutInv
  <1>2. ASSUME NEW p \in Processes, NEW s, process' = [process EXCEPT ![p] = s],
               ProcessOK(s, history, current), UNCHANGED <<history, current, delivery, events>>
        PROVE  RolloutInv'
    <2>1. /\ process' = [q \in Processes |-> process'[q]]
          /\ \A q \in Processes : ProcessOK(process'[q], history', current')
      BY <1>2, OneProcess
    <2>2. (\A d \in delivery : DeliveryOK(d, history, current, events))' /\ OnePerKey'
      BY <1>1, <1>2, SameDeliveries
    <2>3. QED
      BY <1>1, <1>2, <2>1, <2>2 DEF RolloutInv
  <1>3. ProcessOK(Down, history, current)
    BY DEF ProcessOK
  <1>e. ASSUME NEW p \in Processes, NEW s, process' = [process EXCEPT ![p] = s],
               ProcessOK(s, history, current), UNCHANGED <<history, current, events>>,
               NEW offender, delivery' = Abandoned(p, offender)
        PROVE  RolloutInv'
    <2>1. /\ process' = [q \in Processes |-> process'[q]]
          /\ \A q \in Processes : ProcessOK(process'[q], history', current')
      BY <1>e, OneProcess
    <2>2. (\A d \in delivery : DeliveryOK(d, history, current, events))' /\ OnePerKey'
      BY <1>e, AbandonedDeliveries
    <2>3. QED
      BY <1>1, <1>e, <2>1, <2>2 DEF RolloutInv
  <1>4. CASE Deploy
    <2>1. current' \in 1..Len(history) /\ current <= current'
          /\ UNCHANGED <<history, process, delivery, events>>
      BY <1>1, <1>4 DEF Deploy
    <2>2. \A s : ProcessOK(s, history, current) => ProcessOK(s, history, current')
      BY <1>1, <2>1 DEF ProcessOK
    <2>3. (\A d \in delivery : DeliveryOK(d, history, current, events))' /\ OnePerKey'
      BY <1>1, <2>1, SameDeliveries
    <2>4. QED
      BY <1>1, <2>1, <2>2, <2>3 DEF RolloutInv
  <1>5. ASSUME NEW p \in Processes, Start(p)
        PROVE  RolloutInv'
    <2> DEFINE s == [state |-> "starting", release |-> current, position |-> 0,
                     registry |-> Unfrozen]
    <2>1. /\ process' = [process EXCEPT ![p] = s] /\ UNCHANGED <<history, current, events>>
          /\ delivery' = Abandoned(p, 0)
      BY <1>5 DEF Start
    <2>2. ProcessOK(s, history, current)
      <3>1. Len(history[current].declarations) \in Nat
        BY <1>1, ReleaseFacts
      <3>2. RegistryOK(Unfrozen, history[current], 0)
        BY EmptyRegistry
      <3>3. QED
        BY <1>1, <3>1, <3>2 DEF ProcessOK
    <2>3. QED
      BY <1>e, <2>1, <2>2
  <1>6. ASSUME NEW p \in Processes, Crash(p)
        PROVE  RolloutInv'
    BY <1>e, <1>3, <1>6 DEF Crash
  <1>7. ASSUME NEW p \in Processes, Declare(p)
        PROVE  RolloutInv'
    <2> DEFINE o == process[p]
               s == Advanced(o, history[o.release])
    <2>1. /\ process' = [process EXCEPT ![p] = s] /\ UNCHANGED <<history, current, delivery, events>>
          /\ o.state = "starting" /\ o.position < Len(history[o.release].declarations)
      BY <1>7 DEF Declare, Running
    <2>2. ProcessOK(s, history, current)
      <3> DEFINE program == history[o.release]
                 d == program.declarations[o.position + 1]
      <3>1. ProcessOK(o, history, current) /\ o # Down
        BY <1>1, <2>1 DEF Down
      <3>2. /\ o.release \in 1..current /\ o.position \in 0..Len(program.declarations)
            /\ RegistryOK(o.registry, program, o.position)
        BY <3>1 DEF ProcessOK
      <3>3. WellFormed(program) /\ Len(program.declarations) \in Nat
        <4>1. o.release \in 1..Len(history)
          BY <1>1, <3>2
        <4>2. QED
          BY <1>1, <4>1, ReleaseFacts
      <3>4. CASE Accepted(o.registry, d, program)
        <4>1. RegistryOK(Performed(o.registry, d, program), program, o.position + 1)
          BY <2>1, <3>2, <3>3, <3>4, StatementPerformed
        <4>2. s = [state |-> "starting", release |-> o.release, position |-> o.position + 1,
                   registry |-> Performed(o.registry, d, program)]
          BY <3>4 DEF Advanced
        <4> HIDE DEF s, d
        <4>3. /\ s.state = "starting" /\ s.release = o.release /\ s.position = o.position + 1
              /\ s.registry = Performed(o.registry, d, program)
          BY <4>2
        <4>4. o.position + 1 \in 0..Len(program.declarations)
          BY <2>1, <3>2, <3>3
        <4>5. QED
          BY <3>2, <4>1, <4>2, <4>3, <4>4 DEF ProcessOK
      <3>5. CASE ~Accepted(o.registry, d, program)
        <4>1. s = Down
          BY <3>5 DEF Advanced
        <4>2. QED
          BY <1>3, <4>1
      <3>6. QED
        BY <3>4, <3>5
    <2> HIDE DEF s
    <2>3. QED
      BY <1>2, <2>1, <2>2
  <1>8. ASSUME NEW p \in Processes, Serve(p)
        PROVE  RolloutInv'
    <2> DEFINE o == process[p]
               s == [o EXCEPT !.state = "serving"]
    <2>1. /\ process' = [process EXCEPT ![p] = s] /\ UNCHANGED <<history, current, delivery, events>>
          /\ o.state = "starting" /\ o.position = Len(history[o.release].declarations)
          /\ o.registry.frozen
      BY <1>8 DEF Serve, Running
    <2>2. ProcessOK(o, history, current) /\ o # Down
      BY <1>1, <2>1 DEF Down
    <2>3. o = [state |-> o.state, release |-> o.release, position |-> o.position,
               registry |-> o.registry]
      BY <2>2 DEF ProcessOK
    <2>4. s = [state |-> "serving", release |-> o.release, position |-> o.position,
               registry |-> o.registry]
      BY <2>3
    <2> HIDE DEF s
    <2>5. /\ s.state = "serving" /\ s.release = o.release /\ s.position = o.position
          /\ s.registry = o.registry
      BY <2>4
    <2>6. ProcessOK(s, history, current)
      BY <2>1, <2>2, <2>4, <2>5 DEF ProcessOK
    <2>7. QED
      BY <1>2, <2>1, <2>6
  <1>9. ASSUME NEW p \in Processes, NEW event_type \in EventTypes, Emit(p, event_type)
        PROVE  RolloutInv'
    <2>1. (\A d \in delivery : DeliveryOK(d, history, current, events))' /\ OnePerKey'
      BY <1>9, PublishedDeliveries
    <2>2. events' \in Nat /\ UNCHANGED <<history, current, process>>
      BY <1>1, <1>9 DEF Emit
    <2>3. QED
      BY <2>1, <2>2 DEF RolloutInv
  <1>10. ASSUME NEW p \in Processes, Claim(p)
         PROVE  RolloutInv'
    <2>1. PICK batch \in SUBSET {d \in delivery : d.state = "pending" /\ d.holder = None} :
            delivery' = {IF d \in batch THEN [d EXCEPT !.holder = p] ELSE d : d \in delivery}
      BY <1>10 DEF Claim
    <2> DEFINE g == [d \in delivery |-> IF d \in batch THEN [d EXCEPT !.holder = p] ELSE d]
    <2>2. ASSUME NEW d \in delivery
          PROVE  Kin([d EXCEPT !.holder = p], d) /\ Kin(d, d)
      <3> DEFINE e == [d EXCEPT !.holder = p]
      <3>1. e = [event |-> d.event, route |-> d.route, release |-> d.release,
                 state |-> d.state, holder |-> p, lost |-> d.lost]
        BY DeliveryShape
      <3> HIDE DEF e
      <3>2. e.state = d.state /\ e.holder = p /\ e.lost = d.lost
        BY <3>1
      <3>3. Kin(e, d)
        BY <3>1, <3>2 DEF Kin
      <3>4. QED
        BY <3>3, DeliveryShape DEF Kin, e
    <2>3. \A d \in delivery : Kin(g[d], d)
      BY <2>2
    <2>4. delivery' = {g[d] : d \in delivery} /\ UNCHANGED <<history, current, process, events>>
      BY <1>10, <2>1 DEF Claim
    <2> HIDE DEF g
    <2>5. (\A f \in delivery : DeliveryOK(f, history, current, events))' /\ OnePerKey'
      BY <2>3, <2>4, KinDeliveries
    <2>6. QED
      BY <2>4, <2>5 DEF RolloutInv
  <1>11. ASSUME NEW p \in Processes, NEW d \in delivery, Execute(p, d)
         PROVE  RolloutInv'
    <2>1. PICK verdict :
            /\ delivery' = (delivery \ {d}) \cup {[d EXCEPT !.state = verdict, !.holder = None]}
            /\ UNCHANGED <<history, current, process, events>>
      BY <1>11 DEF Execute
    <2> DEFINE e == [d EXCEPT !.state = verdict, !.holder = None]
               g == [f \in delivery |-> IF f = d THEN e ELSE f]
    <2>2. e = [event |-> d.event, route |-> d.route, release |-> d.release,
               state |-> verdict, holder |-> None, lost |-> d.lost]
      BY Rewritten
    <2> HIDE DEF e
    <2>3. e.state = verdict /\ e.holder = None /\ e.lost = d.lost
      BY <2>2
    <2>4. \A f \in delivery : Kin(f, f)
      BY DeliveryShape DEF Kin
    <2>5. \A f \in delivery : Kin(g[f], f)
      BY <2>2, <2>3, <2>4 DEF Kin
    <2>6. delivery' = {g[f] : f \in delivery}
      BY <2>1 DEF e
    <2> HIDE DEF g
    <2>7. (\A f \in delivery : DeliveryOK(f, history, current, events))' /\ OnePerKey'
      BY <2>1, <2>5, <2>6, KinDeliveries
    <2>8. QED
      BY <2>1, <2>7 DEF RolloutInv
  <1>12. ASSUME NEW p \in Processes, NEW d \in delivery, Unexecutable(p, d)
         PROVE  RolloutInv'
    BY <1>e, <1>3, <1>12 DEF Unexecutable
  <1>13. CASE UNCHANGED vars
    BY <1>13 DEF vars, RolloutInv, OnePerKey
  <1>14. QED
    BY <1>4, <1>5, <1>6, <1>7, <1>8, <1>9, <1>10, <1>11, <1>12, <1>13 DEF Next, Step

LEMMA RolloutInit == Init => RolloutInv
  <1> SUFFICES ASSUME Init PROVE RolloutInv
    OBVIOUS
  <1>1. history \in Histories /\ Len(history) \in Nat \ {0}
    BY ReleaseFacts DEF Init
  <1>2. ProcessOK(Down, history, current)
    BY DEF ProcessOK
  <1>3. QED
    BY <1>1, <1>2 DEF Init, RolloutInv, OnePerKey

\* The registries, the snapshots and the releases agree in every reachable state.
LEMMA RolloutCore == Spec => []RolloutInv
  BY RolloutInit, RolloutStep, PTL DEF Spec

-----------------------------------------------------------------------------
(* The theorems.                                                             *)

\* A serving process has performed its whole program.
LEMMA Serving ==
  ASSUME RolloutInv, NEW p \in Processes, process[p].state = "serving"
  PROVE  LET program == history[process[p].release]
         IN  /\ process[p].release \in 1..Len(history)
             /\ process[p].release \in 1..current
             /\ \A e \in Declared(program) : e.statement # "freeze" =>
                  Registered(process[p].registry, Identity(e)) = Made(e)
  <1> DEFINE s == process[p]
             program == history[s.release]
  <1>1. ProcessOK(s, history, current) /\ s # Down
    BY DEF RolloutInv, Down
  <1>2. /\ s.release \in 1..current
        /\ RegistryOK(s.registry, program, Len(program.declarations))
    BY <1>1 DEF ProcessOK
  <1>3. s.release \in 1..Len(history)
    BY <1>2, ReleaseFacts DEF RolloutInv
  <1>4. DOMAIN program.declarations = 1..Len(program.declarations)
    BY <1>3, ReleaseFacts DEF RolloutInv
  <1>5. \A e \in Declared(program) : e.statement # "freeze" =>
          Registered(s.registry, Identity(e)) = Made(e)
    BY <1>2, <1>4 DEF RegistryOK, Declared
  <1>6. QED
    BY <1>2, <1>3, <1>5

\* For every history of releases that retain handlers and resolvers, and any
\* processes, events and crashes: what a process has published, it and every
\* process of a later release can execute (routing.py:141-240, api.py:288-328,
\* executor.py:47-139).
THEOREM PublishedRuns == Spec => []PublishedIsExecutable
  <1>1. ASSUME RolloutInv
        PROVE  PublishedIsExecutable
    <2> SUFFICES ASSUME NEW p \in Processes, NEW d \in delivery,
                        process[p].state = "serving", process[p].release >= d.release
                 PROVE  Executable(p, d) /\ "executed" \in Verdicts(d)
      BY DEF PublishedIsExecutable
    <2> DEFINE mine == history[process[p].release]
               its == history[d.release]
    <2>1. /\ DeliveryOK(d, history, current, events)
          /\ history \in Histories /\ current \in 1..Len(history)
      BY <1>1 DEF RolloutInv
    <2>2. /\ d.release \in 1..current /\ Prepared(d.route, its)
      BY <2>1 DEF DeliveryOK
    <2>3. PICK e \in Declared(its) :
            e.statement = "route" /\ ModeDeclared(e) /\ SpecifiedBy(d.route, e)
      BY <2>1 DEF DeliveryOK
    <2>4. /\ process[p].release \in 1..Len(history)
          /\ \A g \in Declared(mine) : g.statement # "freeze" =>
               Registered(process[p].registry, Identity(g)) = Made(g)
      BY <1>1, Serving
    <2>5. Len(history) \in Nat /\ DOMAIN history = 1..Len(history)
      BY <2>1, ReleaseFacts
    <2>6. process[p].release = d.release \/ Retains(its, mine)
      <3>1. d.release \in DOMAIN history /\ process[p].release \in DOMAIN history
        BY <2>1, <2>2, <2>4, <2>5
      <3>2. process[p].release = d.release \/ d.release < process[p].release
        BY <2>2, <2>4
      <3>3. QED
        BY <2>1, <3>1, <3>2, HistoryAssumption
    <2>7. \E g \in Declared(mine) : g.statement # "freeze" /\ Identity(g) = Identity(e)
      BY <2>3, <2>6 DEF Retains
    <2>8. Identity(e) = <<d.route.key, d.route.version>>
      BY <2>3, Specified DEF Identity
    <2>9. Registered(process[p].registry, <<d.route.key, d.route.version>>) # {}
      <3>1. PICK g \in Declared(mine) :
              Registered(process[p].registry, Identity(e)) = Made(g)
        BY <2>4, <2>7
      <3>2. QED
        BY <2>8, <3>1 DEF Made
    <2>10. d.route.authorization = "revalidate" => mine.resolver
      BY <2>2, <2>6 DEF Prepared, Retains
    <2>11. d.route.authorization = "snapshot" => d.route.maximum_snapshot_age # None
      BY <2>3, Specified DEF ModeDeclared
    <2>12. d.route.authorization = "service_policy" =>
             /\ d.route.service_capabilities # None
             /\ d.route.required_scopes \subseteq d.route.service_capabilities
      BY <2>2 DEF Prepared
    <2>13. Executable(p, d)
      BY <2>9, <2>10, <2>11, <2>12 DEF Executable, Running
    <2>14. "executed" \in Verdicts(d)
      BY <2>12 DEF Verdicts
    <2>15. QED
      BY <2>13, <2>14
  <1>2. QED
    BY <1>1, RolloutCore, PTL

\* For every such history: in a serving process a route runs the function it was
\* declared with, and an event has one delivery per key, of the newest version its
\* publisher declared (ADR 0004:21-22; routing.py:123-227).
THEOREM RoutesAreDeclared == Spec => []RoutesRunAsDeclared
  <1>1. ASSUME RolloutInv
        PROVE  RoutesRunAsDeclared
    <2>1. ASSUME NEW p \in Processes, process[p].state = "serving",
                 NEW d \in Declared(Running(p)), d.statement = "route"
          PROVE  Registered(process[p].registry, Identity(d))
                   = {[identity |-> Identity(d), function |-> d.function]}
      BY <1>1, <2>1, Serving DEF Running, Made
    <2>2. ASSUME NEW d \in delivery
          PROVE  /\ \A e \in delivery : e.event = d.event /\ e.route.key = d.route.key => e = d
                 /\ \A r \in Declared(history[d.release]) :
                      r.statement = "route" /\ r.key = d.route.key => r.version <= d.route.version
      BY <1>1 DEF RolloutInv, OnePerKey, DeliveryOK
    <2>3. QED
      BY <2>1, <2>2 DEF RoutesRunAsDeclared
  <1>2. QED
    BY <1>1, RolloutCore, PTL
=============================================================================
