---------------------------- MODULE MCTenantAccess ----------------------------
(* One address, one bearer string; two tenants, of which the first rotates its
   key and revokes one with the new key, and both create an account with the
   same email. *)
EXTENDS TenantAccess

CONSTANTS here, g1, g2, o1, x1, u1, u2, l1, p1

MCAddressOf == [r \in Limited |-> here]
MCWallet == [r \in Guarded |->
  CASE r \in {o1, u1} -> {g1}
    [] r = u2 -> {g2}
    [] r = x1 -> {o1}
    [] r = p1 -> {o1, l1}]
=============================================================================
