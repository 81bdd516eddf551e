--------------------------- MODULE MCCommandLedger ---------------------------
(* Small instances of CommandLedger for TLC. *)
EXTENDS CommandLedger, TLC

Paid == [event_type |-> "paid", body |-> 1]
Void == [event_type |-> "void", body |-> 2]
OneContent == {Paid}
TwoContents == {Paid, Void}

route(event_type, key, version, kind) ==
  [event_type |-> event_type, route_key |-> key, version |-> version,
   destination_kind |-> kind, destination_key |-> key]

\* The registry has a handler for another event type only.
Elsewhere == <<route("void", "mail", 1, "handler")>>
\* ... or a handler route that has been redeclared.
Redeclared == <<route("paid", "mail", 1, "handler"), route("paid", "mail", 2, "handler")>>

\* The provider has no subscription, an updated one, or one that coincides with
\* the registry.
NoProvider == {<<>>}
Hooks ==
  {<<>>,
   <<route("paid", "hook", 2, "webhook"), route("paid", "hook", 1, "webhook")>>,
   <<route("paid", "mail", 2, "handler")>>}

OneLock == [i \in Identities |-> CHOOSE j \in Identities : TRUE]

Interchangeable ==
  UNION {Permutations(S) : S \in {Sessions, Forms, Responses, Pruners, EventIds}}
=============================================================================
