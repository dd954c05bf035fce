------------------------------- MODULE MCOutbox -------------------------------
(* Small instances of OutboxRelay: replicas over one tenant, and one relay over several. *)
EXTENDS OutboxRelay, TLC

CONSTANTS t1, t2, t3

\* Three rows of one tenant.
OneTenant == {t1}
OneTenantRows == 1..3
OneTenantOf == [m \in OneTenantRows |-> t1]

\* A row for each of three tenants.
ThreeTenants == {t1, t2, t3}
ThreeTenantRows == 1..3
ThreeTenantOf == [m \in ThreeTenantRows |-> CASE m = 1 -> t1 [] m = 2 -> t2 [] m = 3 -> t3]

RelaySymmetry == Permutations(Relay)
=============================================================================
