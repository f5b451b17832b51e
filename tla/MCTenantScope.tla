----------------------------- MODULE MCTenantScope -----------------------------
(* Two tenants; the work of OfB belongs to B, all other work to A. *)
EXTENDS TenantScope

CONSTANTS A, B, OfB

MCTenants == {A, B}
MCTenantOf == [t \in Scoped \union Txs |-> IF t \in OfB THEN B ELSE A]
MCToken == [t \in Consumers |-> CHOOSE x \in Txs : TRUE]
=============================================================================
