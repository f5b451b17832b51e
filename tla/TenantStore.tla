------------------------------ MODULE TenantStore ------------------------------
(***************************************************************************)
(* What the work of a tenant may rely on: tables in which it finds all     *)
(* rows of its tenant and no other, and a session token that is found by   *)
(* whoever presents it until it is used.                                   *)
(*                                                                         *)
(* Nothing is said here of connections, settings, policies or pools:       *)
(* TenantScope implements this module with all of them.                    *)
(***************************************************************************)
CONSTANTS Scoped, Txs, Consumers, TenantOf, Token, NoOne

VARIABLES
  rows,   \* committed rows: tenant and author
  seen,   \* rows each unit of work has read
  got     \* what each use of a token was answered

vars == <<rows, seen, got>>

Init ==
  /\ rows = {}
  /\ seen = [t \in Scoped \union Txs \union Consumers |-> {}]
  /\ got = [t \in Consumers |-> NoOne]

Read(t) ==
  /\ seen' = [seen EXCEPT ![t] = @ \union {r \in rows : r.tenant = TenantOf[t]}]
  /\ UNCHANGED <<rows, got>>

Write(t) ==
  /\ rows' = rows \union {[tenant |-> TenantOf[t], by |-> t]}
  /\ UNCHANGED <<seen, got>>

Use(t) ==
  LET row == {r \in rows : r.by = Token[t]} IN
  /\ got[t] = NoOne
  /\ rows' = rows \ row
  /\ got' = [got EXCEPT ![t] = IF row # {} THEN "row" ELSE "missing"]
  /\ UNCHANGED seen

Next ==
  \/ \E t \in Scoped : Read(t)
  \/ \E t \in Scoped \union Txs : Write(t)
  \/ \E t \in Consumers : Use(t)

Spec == Init /\ [][Next]_vars
=============================================================================
