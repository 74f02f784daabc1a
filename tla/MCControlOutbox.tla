-------------------------- MODULE MCControlOutbox --------------------------
(***************************************************************************)
(* A small instance of ControlOutbox: two worker ticks on three rows.      *)
(***************************************************************************)
EXTENDS ControlOutbox, TLC

CONSTANTS e1, e2, acme, zeta

\* The second row is another tenant's.
MCTenantOf == [r \in Rows |-> IF r = 2 THEN zeta ELSE acme]

\* The worker's tick, and an export asked for one tenant.
MCScopeOf == e1 :> {acme, zeta} @@ e2 :> {acme}
=============================================================================
