---------------------------- MODULE MCPollingRelay ----------------------------
(* Small instances of PollingRelay for TLC. *)
EXTENDS PollingRelay, TLC

OneTenant == [d \in Deliveries |-> "acme"]

\* Two attempts; the lease leaves a margin of two ticks for skew and lag.
Roomy ==
  [max_attempts |-> 2, maximum_elapsed |-> 2, base_delay |-> 0,
   maximum_delay |-> 0, handler_timeout |-> 1, lease_duration |-> 3]

OnlyRoomy == {Roomy}

\* Two attempts and the shortest deadline that leaves room for both.
Short ==
  [max_attempts |-> 2, maximum_elapsed |-> 2, base_delay |-> 0,
   maximum_delay |-> 0, handler_timeout |-> 1, lease_duration |-> 2]

OnlyShort == {Short}

Interchangeable == Permutations(Deliveries) \cup Permutations(Sessions)
===============================================================================
