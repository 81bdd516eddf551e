---------------------------- MODULE MCRouteRollout ----------------------------
(* Small instances of RouteRollout: histories of releases over a few programs. *)
EXTENDS RouteRollout, TLC

CONSTANTS read, f, g

Route(key, version, mode, function) ==
  [statement |-> "route", event_type |-> "paid", key |-> key, version |-> version,
   authorization |-> mode, required_scopes |-> {read},
   service_policy |-> IF mode = "service_policy" THEN "mailer" ELSE None,
   maximum_snapshot_age |-> IF mode = "snapshot" THEN 60 ELSE None, function |-> function]

Mail(version, mode, function) == Route("mail", version, mode, function)
MailHandler(version, function) == [Mail(version, "revalidate", function) EXCEPT !.statement = "handler"]
Freeze == [Mail(1, "revalidate", f) EXCEPT !.statement = "freeze"]
Unaged == [Mail(1, "snapshot", f) EXCEPT !.maximum_snapshot_age = None]
Moved(version) == [Mail(version, "revalidate", f) EXCEPT !.event_type = "sent"]

Bodies ==
  {<<Mail(1, "revalidate", f), Freeze>>,
   <<Mail(1, "service_policy", f), Freeze, Freeze>>,
   <<Mail(1, "service_policy", f), Mail(2, "snapshot", g), Freeze>>,
   <<MailHandler(1, g), Mail(2, "service_policy", f), Freeze>>,
   <<Mail(1, "revalidate", f), MailHandler(1, g), Freeze>>,
   <<MailHandler(1, f), Mail(1, "snapshot", f), Freeze>>,
   <<Mail(2, "revalidate", f), Mail(1, "revalidate", f), Freeze>>,
   <<Mail(1, "revalidate", f), Freeze, Mail(2, "revalidate", f)>>,
   <<Mail(1, "revalidate", f), Moved(2), Freeze>>,
   <<Unaged, Freeze>>}

Good(body) == [declarations |-> body, resolver |-> TRUE, policies |-> [mailer |-> {read}]]
Served == <<Mail(1, "service_policy", f), Freeze, Freeze>>

\* Configured, or without a resolver, or with a policy that is missing or too weak.
Programs ==
  {Good(body) : body \in Bodies}
  \cup {[Good(body) EXCEPT !.resolver = FALSE] :
          body \in {Served, <<Mail(1, "revalidate", f), Freeze>>}}
  \cup {[Good(Served) EXCEPT !.policies = [mailer |-> answer]] : answer \in {None, {}}}

Starting == {p \in Programs : Starts(p)}

\* Two deliveries of one event.
Billing == Good(<<Mail(1, "snapshot", f), Route("bill", 1, "revalidate", g), Freeze>>)

\* Every pair of releases that start; releases that do not, alone and after one that does.
Pairs ==
  {<<a, b>> : a, b \in Starting} \cup {<<b>> : b \in Programs \ Starting}
    \cup {<<Good(Served), b>> : b \in {Billing} \cup (Programs \ Starting)}

\* The old relay meets a mode it cannot evaluate, or a version it does not know, beside
\* deliveries of its own release; in the second, a release between them does not start.
Unready == [Good(Served) EXCEPT !.resolver = FALSE]
Newer == Good(<<MailHandler(1, g), Mail(2, "service_policy", f), Freeze>>)

Mixed ==
  {<<Unready, Good(<<Mail(1, "revalidate", f), Freeze>>)>>,
   <<Good(Served), [Good(Served) EXCEPT !.policies = [mailer |-> {}]], Newer>>}

RetainingHistories ==
  {h \in Pairs \cup Mixed : \A i, j \in DOMAIN h : i < j => Retains(h[i], h[j])}

Loads == [h \in RetainingHistories |-> IF h \in Mixed THEN 2 ELSE 1]
=============================================================================
