-------------------------- MODULE WebhookTransport --------------------------
(***************************************************************************)
(* One webhook request (WebhookDeliverySink._deliver_attempt, transport.py,*)
(* http11.py, address_policy.py, classification.py): resolve the endpoint, *)
(* try the approved addresses in turn, read a bounded response, follow     *)
(* redirects and classify the final status.  Bytes are abstracted to what  *)
(* the control flow tells apart: the class of a status, whether a bound    *)
(* was exceeded or a read failed.                                          *)
(*                                                                         *)
(* Resolver, receiver and network are the environment.                     *)
(***************************************************************************)
EXTENDS Integers, FiniteSets

CONSTANTS
  Attempts,             \* attempts that may be under way at once
  Addresses,            \* addresses that DNS may answer with
  Public,               \* ... and those of them that are global unicast
  MaximumAddresses,     \* TransportLimits.maximum_addresses
  MaximumRedirects,     \* TransportLimits.maximum_redirects
  MaximumInformational, \* ResponseLimits.maximum_informational_responses
  RetryAfters,          \* delays a Retry-After header may name; dates may be past
  MaximumDelay          \* RetryPolicy.maximum_delay_seconds

ASSUME TransportAssumption ==
  /\ IsFiniteSet(Addresses) /\ Public \subseteq Addresses
  /\ MaximumAddresses \in Nat \ {0} /\ MaximumInformational \in Nat \ {0}
  /\ MaximumRedirects \in Nat /\ MaximumDelay \in Nat
  /\ RetryAfters \subseteq Int

VARIABLE request        \* the request of each attempt

\* phase: what _deliver_attempt awaits.  left: approved addresses not yet tried.
\* informational: the 1xx responses parse_response has counted.  status: what send will
\* return ("failed": RetryableDeliveryError) when the connection is closed.  outcome: how
\* the attempt ended; "timeout" is webhook.attempt_timeout.  History: copies, the times
\* the body may have reached a receiver; accepted, a 2xx was read; contacted, the
\* addresses connected to.
Statuses == {"2xx", "3xx", "retry", "other", "failed"}

Request ==
  [phase : {"idle", "resolve", "connect", "response", "closing", "ended"},
   left : SUBSET Addresses, redirects : 0 .. MaximumRedirects,
   informational : 0 .. MaximumInformational, status : {"none"} \cup Statuses,
   outcome : {"none", "success", "retryable", "permanent", "timeout"},
   copies : Nat, accepted : BOOLEAN, contacted : SUBSET Addresses, retry_after : Int]

NoRequest ==
  [phase |-> "idle", left |-> {}, redirects |-> 0, informational |-> 0, status |-> "none",
   outcome |-> "none", copies |-> 0, accepted |-> FALSE, contacted |-> {}, retry_after |-> 0]

TransportInit == request = [a \in Attempts |-> NoRequest]

Least(i, j) == IF i < j THEN i ELSE j
Greatest(i, j) == IF i > j THEN i ELSE j

\* parse_retry_after: clamped by the policy and by the delivery deadline.
parse_retry_after(value, remaining) ==
  Least(Greatest(0, Least(value, MaximumDelay)), Greatest(0, remaining))

Ended(r, outcome) ==
  [r EXCEPT !.phase = "ended", !.left = {}, !.informational = 0, !.status = "none",
            !.outcome = outcome]

Ends(a, outcome) == request' = [request EXCEPT ![a] = Ended(@, outcome)]

StartRequest(a) == request' = [request EXCEPT ![a] = [NoRequest EXCEPT !.phase = "resolve"]]

\* A bad endpoint or redirect URL is terminal, a failed lookup is not.
EndpointInvalid(a) == request[a].phase = "resolve" /\ Ends(a, "permanent")
ResolveFails(a) == request[a].phase = "resolve" /\ Ends(a, "retryable")

\* validate_public_addresses: one bad address spoils the whole answer.
Approved(answer) == answer # {} /\ answer \subseteq Public

\* Duplicates are dropped and the list cut to maximum_addresses.
Resolve(a) ==
  /\ request[a].phase = "resolve"
  /\ \E answer \in SUBSET Addresses : \E used \in SUBSET answer :
       /\ Cardinality(used) = Least(Cardinality(answer), MaximumAddresses)
       /\ IF Approved(answer)
            THEN request' = [request EXCEPT ![a] =
                   [@ EXCEPT !.phase = "connect", !.left = used]]
            ELSE Ends(a, "permanent")

\* The request exceeds maximum_request_bytes.
Oversized(a) == request[a].phase = "connect" /\ Ends(a, "permanent")

\* Connect, TLS handshake and write.
Sent(r, ip) ==
  [r EXCEPT !.phase = "response", !.left = r.left \ {ip}, !.copies = r.copies + 1,
            !.contacted = r.contacted \cup {ip}]

Send(a, ip) ==
  /\ request[a].phase = "connect"
  /\ ip \in request[a].left
  /\ request' = [request EXCEPT ![a] = Sent(@, ip)]

\* The finally of send: whatever the exchange came to, the connection is closed and
\* its end awaited before send returns or raises.
Closing(r, status) ==
  [r EXCEPT !.phase = "closing", !.informational = 0, !.status = status,
            !.accepted = (status = "2xx")]

\* The connection or the write fails or times out; the request may have arrived.  With
\* no connection there is nothing to close, and NextAddress follows at once.
Broken(r, ip, arrived) ==
  [Closing(r, "failed") EXCEPT !.left = r.left \ {ip}, !.copies = r.copies + arrived,
                               !.contacted = r.contacted \cup {ip}]

SendFails(a, ip) ==
  /\ request[a].phase = "connect"
  /\ ip \in request[a].left
  /\ \E arrived \in {0, 1} : request' = [request EXCEPT ![a] = Broken(@, ip, arrived)]

\* A 1xx response is consumed and counted; one too many is out of bounds.
Counted(r) ==
  IF r.informational = MaximumInformational THEN Closing(r, "failed")
  ELSE [r EXCEPT !.informational = r.informational + 1]

Informational(a) ==
  /\ request[a].phase = "response"
  /\ request' = [request EXCEPT ![a] = Counted(@)]

\* parse_response.  "failed": malformed, oversized, incomplete or late, though the body
\* may well have been processed.  "other": a terminal status, 101 among them.
ReadResponse(a, status) ==
  /\ request[a].phase = "response"
  /\ request' = [request EXCEPT ![a] = Closing(@, status)]

\* The connection is closed or aborted, and send has returned or raised.
Closed(a, status) == request[a].phase = "closing" /\ request[a].status = status

\* RetryableDeliveryError: the next address, or the last error when there is none.
Passed(r) ==
  IF r.left = {} THEN Ended(r, "retryable")
  ELSE [r EXCEPT !.phase = "connect", !.status = "none"]

NextAddress(a) == Closed(a, "failed") /\ request' = [request EXCEPT ![a] = Passed(@)]

Respond2xx(a) == Closed(a, "2xx") /\ Ends(a, "success")

\* 408, 425, 429 and 5xx; remaining is the time to the delivery deadline.
RespondRetry(a, value, remaining) ==
  /\ Closed(a, "retry")
  /\ request' = [request EXCEPT ![a] =
       [Ended(@, "retryable") EXCEPT !.retry_after = parse_retry_after(value, remaining)]]

\* Mutant of Redirect: any redirect without a usable Location counts as accepted.
RedirectIsSuccess(a, usable) ==
  /\ Closed(a, "3xx")
  /\ request' = [request EXCEPT ![a] =
       IF ~usable THEN Ended(@, "success") ELSE Ended(@, "permanent")]

\* Terminal unless redirects are allowed, the limit is not reached and there is a
\* Location; then the new URL is resolved and approved like the first.
Redirected(r, usable) ==
  IF usable /\ r.redirects < MaximumRedirects
    THEN [r EXCEPT !.phase = "resolve", !.redirects = r.redirects + 1, !.left = {},
                   !.status = "none"]
    ELSE Ended(r, "permanent")

Redirect(a, usable) ==
  /\ Closed(a, "3xx")
  /\ request' = [request EXCEPT ![a] = Redirected(@, usable)]

RespondOther(a) == Closed(a, "other") /\ Ends(a, "permanent")

UnderWay(a) == request[a].phase \in {"resolve", "connect", "response", "closing"}

\* The aggregate deadline of deliver_attempt, also while a connection closes whose
\* response has been read.
AttemptTimesOut(a) == UnderWay(a) /\ Ends(a, "timeout")

TransportStep(a, remaining) ==
  \/ EndpointInvalid(a) \/ ResolveFails(a) \/ Resolve(a)
  \/ Oversized(a) \/ Informational(a) \/ NextAddress(a)
  \/ \E ip \in Addresses : Send(a, ip) \/ SendFails(a, ip)
  \/ \E status \in Statuses : ReadResponse(a, status)
  \/ Respond2xx(a) \/ RespondOther(a)
  \/ \E value \in RetryAfters : RespondRetry(a, value, remaining)
  \/ \E usable \in BOOLEAN : Redirect(a, usable)
  \/ AttemptTimesOut(a)

-----------------------------------------------------------------------------
TransportTypeOK == request \in [Attempts -> Request]

\* Through retries over addresses, redirects, interim responses and the deadline:
\* an attempt succeeds only on a 2xx; nothing is sent after a 2xx was read, and it
\* is lost only to the aggregate deadline, which runs on while the connection closes
\* (the attempt is then a retryable timeout, and the receiver gets the event again);
\* only approved addresses are connected to; the copies a receiver may get are bounded
\* (sink.py:106-202, transport.py:165-235, http11.py:59-114).
OutcomeIsReceivers ==
  \A a \in Attempts :
    /\ request[a].outcome = "success" => request[a].accepted
    /\ request[a].accepted =>
         /\ request[a].phase \in {"closing", "ended"}
         /\ request[a].outcome \in {"none", "success", "timeout"}
    /\ request[a].contacted \cup request[a].left \subseteq Public
    /\ request[a].copies <= MaximumAddresses * (request[a].redirects + 1)
    /\ request[a].retry_after \in 0 .. MaximumDelay
=============================================================================
