---------------------------- MODULE MCDeployment ----------------------------
(* A small instance of Deployment: a connection of the application and one of the relay. *)
EXTENDS Deployment

CONSTANTS a1, r1

RolesOfPool == [c \in Pool |-> IF c = r1 THEN "relay" ELSE "application"]
TenantSymmetry == Permutations(Tenants)
=============================================================================
