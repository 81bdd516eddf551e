----------------------------- MODULE MCAuthority -----------------------------
(* A small instance of Authority: two components, the second with a fast clock. *)
EXTENDS Authority, TLC

CONSTANTS c1, c2, read, write, tenant

OffsetOf == [c \in Components |-> IF c = c1 THEN 0 ELSE 1]
KeySymmetry == Permutations(Keys)
HostOf == {[tenant_id |-> tenant, scopes |-> {read, write}, lifetime |-> 2]}
RouteOf == {[required |-> {}, ceiling |-> {read, write}]}
PolicyOf ==
  {[mode |-> "snapshot", required |-> {read}, capabilities |-> {}, maximum_snapshot_age |-> 2],
   [mode |-> "revalidate", required |-> {write}, capabilities |-> {}, maximum_snapshot_age |-> 0],
   [mode |-> "service_policy", required |-> {write}, capabilities |-> {write},
    maximum_snapshot_age |-> 0]}
=============================================================================
