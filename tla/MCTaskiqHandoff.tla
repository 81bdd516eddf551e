--------------------------- MODULE MCTaskiqHandoff ---------------------------
(* Small instances of TaskiqHandoff for TLC. *)
EXTENDS TaskiqHandoff

OneTenant == [d \in Deliveries |-> "acme"]

\* Two attempts; the handler timeout leaves room for a second admission and
\* the lease outlives it by one tick.
Twice ==
  [max_attempts |-> 2, maximum_elapsed |-> 3, base_delay |-> 0,
   maximum_delay |-> 0, handler_timeout |-> 2, lease_duration |-> 3]
\* Two attempts and the shortest deadline that leaves room for both.
Short ==
  [max_attempts |-> 2, maximum_elapsed |-> 2, base_delay |-> 0,
   maximum_delay |-> 0, handler_timeout |-> 1, lease_duration |-> 2]

TwiceOrShort == {Twice, Short}
=============================================================================
