-------------------------- MODULE MCLeaseRepository --------------------------
(* Small instances of LeaseRepository for TLC. *)
EXTENDS LeaseRepository, TLC

OneTenant == [d \in Deliveries |-> "acme"]

\* Two attempts; the lease outlives the handler timeout by one tick.
Twice ==
  [max_attempts |-> 2, maximum_elapsed |-> 4, base_delay |-> 1,
   maximum_delay |-> 2, handler_timeout |-> 2, lease_duration |-> 3]

\* Two attempts and the shortest deadline that leaves room for both.
Short ==
  [max_attempts |-> 2, maximum_elapsed |-> 2, base_delay |-> 0,
   maximum_delay |-> 0, handler_timeout |-> 1, lease_duration |-> 2]

OnlyTwice == {Twice}
OnlyShort == {Short}

\* Sound because every delivery has the same tenant.
Interchangeable == Permutations(Deliveries) \cup Permutations(Sessions)
=============================================================================
