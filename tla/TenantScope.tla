------------------------------ MODULE TenantScope ------------------------------
(***************************************************************************)
(* Row-level security over a pool of database connections.                 *)
(*                                                                         *)
(* A connection of the pool carries the tenant of the setting              *)
(* app.tenant_id, and the policies show and accept only rows of that       *)
(* tenant.  runScoped sets it for the session of the connection and hands  *)
(* the connection back with it still set; withTenantScope sets it for one  *)
(* transaction; consume_session runs with no tenant at all, as the owner.  *)
(* Every kind of work meets what the previous holder left behind.          *)
(***************************************************************************)
EXTENDS Naturals, Sequences, FiniteSets

CONSTANTS
  Conns,       \* connections of the pool
  Tenants,
  Scoped,      \* units of work under runScoped
  Txs,         \* POST /sessions transactions under withTenantScope
  Consumers,   \* calls of consume_session
  TenantOf,    \* the tenant of each unit of scoped work and each transaction
  Token,       \* the session, named by the transaction that makes it, to consume
  NoOne        \* no tenant, no connection, no holder

Tasks == Scoped \union Txs \union Consumers

ASSUME TasksAssumption ==
  /\ IsFiniteSet(Tasks)
  /\ Scoped \intersect Txs = {} /\ (Scoped \union Txs) \intersect Consumers = {}
  /\ TenantOf \in [Scoped \union Txs -> Tenants]
  /\ Token \in [Consumers -> Txs]
  /\ NoOne \notin Tasks \union Tenants \union Conns

VARIABLES
  at,        \* the step each task is about to take
  queue,     \* tasks waiting for a connection, first come first served
  conn,      \* the connection a task was given
  holder,    \* the task a connection is checked out to
  session,   \* its app.tenant_id at session level
  local,     \* its app.tenant_id for the transaction that is open on it
  rows,      \* committed rows of the policed tables: tenant and author
  seen,      \* rows a task has read
  got        \* the row consume_session returned: "row", "missing" or nothing

vars == <<at, queue, conn, holder, session, local, rows, seen, got>>

Init ==
  /\ at = [t \in Tasks |-> "start"]
  /\ queue = <<>>
  /\ conn = [t \in Tasks |-> NoOne]
  /\ holder = [c \in Conns |-> NoOne]
  /\ session = [c \in Conns |-> NoOne]
  /\ local = [c \in Conns |-> NoOne]
  /\ rows = {}
  /\ seen = [t \in Tasks |-> {}]
  /\ got = [t \in Consumers |-> NoOne]

Goto(t, from, to) == at[t] = from /\ at' = [at EXCEPT ![t] = to]

\* current_setting('app.tenant_id'), and the rows the policies let through.
Current(c) == IF local[c] # NoOne THEN local[c] ELSE session[c]
Visible(c) == {r \in rows : r.tenant = Current(c)}

-----------------------------------------------------------------------------
\* createQueryRunner / connect: wait for a free connection.
Connect(t) ==
  /\ Goto(t, "start", "wait")
  /\ queue' = Append(queue, t)
  /\ UNCHANGED <<conn, holder, session, local, rows, seen, got>>

Grant(c) ==
  /\ holder[c] = NoOne /\ queue # <<>>
  /\ LET t == Head(queue) IN
       /\ at' = [at EXCEPT ![t] = IF t \in Consumers THEN "consume" ELSE "scope"]
       /\ conn' = [conn EXCEPT ![t] = c]
       /\ holder' = [holder EXCEPT ![c] = t]
  /\ queue' = Tail(queue)
  /\ UNCHANGED <<session, local, rows, seen, got>>

\* SELECT set_config('app.tenant_id', $1, false) on the connection of the task.
SetOnPool(t) ==   \* mutant: dataSource.query, on whatever connection is free
  /\ t \in Scoped
  /\ Goto(t, "scope", "work")
  /\ \E c \in Conns :
       /\ holder[c] \in {NoOne, t}
       /\ session' = [session EXCEPT ![c] = TenantOf[t]]
  /\ UNCHANGED <<queue, conn, holder, local, rows, seen, got>>
SetSession(t) ==
  /\ t \in Scoped
  /\ Goto(t, "scope", "work")
  /\ session' = [session EXCEPT ![conn[t]] = TenantOf[t]]
  /\ UNCHANGED <<queue, conn, holder, local, rows, seen, got>>

\* The same with true: until the end of the transaction that has begun.
SetLocal(t) ==
  /\ t \in Txs
  /\ Goto(t, "scope", "insert")
  /\ local' = [local EXCEPT ![conn[t]] = TenantOf[t]]
  /\ UNCHANGED <<queue, conn, holder, session, rows, seen, got>>

\* fn(mgr): it reads, writes, and ends.
Read(t) ==
  /\ at[t] = "work"
  /\ seen' = [seen EXCEPT ![t] = @ \union Visible(conn[t])]
  /\ UNCHANGED <<at, queue, conn, holder, session, local, rows, got>>

\* WITH CHECK refuses a row of another tenant.
Accepted(t) == Current(conn[t]) = TenantOf[t]
Write(t) ==
  /\ at[t] = "work"
  /\ Accepted(t)
  /\ rows' = rows \union {[tenant |-> TenantOf[t], by |-> t]}
  /\ UNCHANGED <<at, queue, conn, holder, session, local, seen, got>>

WorkEnds(t) ==
  /\ Goto(t, "work", "release")
  /\ UNCHANGED <<queue, conn, holder, session, local, rows, seen, got>>

\* The inserts of POST /sessions, then COMMIT, which ends the local setting.
Commit(t) ==
  /\ Goto(t, "insert", "release")
  /\ Accepted(t)
  /\ rows' = rows \union {[tenant |-> TenantOf[t], by |-> t]}
  /\ local' = [local EXCEPT ![conn[t]] = NoOne]
  /\ UNCHANGED <<queue, conn, holder, session, seen, got>>

\* A statement throws; a transaction is rolled back; finally releases.
Leaks(t) ==   \* mutant: no finally
  /\ at[t] \in {"scope", "work", "insert", "consume"}
  /\ at' = [at EXCEPT ![t] = "done"]
  /\ local' = [local EXCEPT ![conn[t]] = NoOne]
  /\ UNCHANGED <<queue, conn, holder, session, rows, seen, got>>
Throws(t) ==
  /\ at[t] \in {"scope", "work", "insert", "consume"}
  /\ at' = [at EXCEPT ![t] = "release"]
  /\ local' = [local EXCEPT ![conn[t]] = NoOne]
  /\ UNCHANGED <<queue, conn, holder, session, rows, seen, got>>

\* consume_session is SECURITY DEFINER: it sees every tenant's rows.
Ofs(t) == {r \in rows : r.by = Token[t]}
UnderPolicy(t) ==   \* mutant: the DELETE runs under the caller's policies
  /\ Goto(t, "consume", "release")
  /\ rows' = rows \ (Ofs(t) \intersect Visible(conn[t]))
  /\ got' = [got EXCEPT ![t] =
               IF Ofs(t) \intersect Visible(conn[t]) # {} THEN "row" ELSE "missing"]
  /\ UNCHANGED <<queue, conn, holder, session, local, seen>>
consume_session(t) ==
  /\ Goto(t, "consume", "release")
  /\ rows' = rows \ Ofs(t)
  /\ got' = [got EXCEPT ![t] = IF Ofs(t) # {} THEN "row" ELSE "missing"]
  /\ UNCHANGED <<queue, conn, holder, session, local, seen>>

\* qr.release(): the session setting stays on the connection.
KeepsHandle(t) ==   \* mutant: the manager is still used after the release
  /\ Goto(t, "release", "work")
  /\ holder' = [holder EXCEPT ![conn[t]] = NoOne]
  /\ UNCHANGED <<queue, conn, session, local, rows, seen, got>>
Release(t) ==
  /\ Goto(t, "release", "done")
  /\ holder' = [holder EXCEPT ![conn[t]] = NoOne]
  /\ conn' = [conn EXCEPT ![t] = NoOne]
  /\ UNCHANGED <<queue, session, local, rows, seen, got>>

Step(t) ==
  \/ Connect(t) \/ SetSession(t) \/ SetLocal(t) \/ WorkEnds(t)
  \/ Commit(t) \/ (t \in Consumers /\ consume_session(t)) \/ Throws(t) \/ Release(t)

Next ==
  \/ \E t \in Tasks : Step(t) \/ Read(t) \/ Write(t)
  \/ \E c \in Conns : Grant(c)

Spec == Init /\ [][Next]_vars

\* A task that holds a connection goes on, and the pool serves its queue.
Fairness ==
  /\ \A t \in Tasks : WF_vars(Step(t))
  /\ \A c \in Conns : WF_vars(Grant(c))

FairSpec == Spec /\ Fairness

-----------------------------------------------------------------------------
Rows == [tenant : Tenants, by : Scoped \union Txs]

\* Type invariant; a task and its connection know each other.
TypeOK ==
  /\ at \in [Tasks -> {"start", "wait", "scope", "work", "insert", "consume",
                       "release", "done"}]
  /\ queue \in Seq(Tasks)
  /\ conn \in [Tasks -> Conns \union {NoOne}]
  /\ holder \in [Conns -> Tasks \union {NoOne}]
  /\ session \in [Conns -> Tenants \union {NoOne}]
  /\ local \in [Conns -> Tenants \union {NoOne}]
  /\ rows \subseteq Rows
  /\ seen \in [Tasks -> SUBSET Rows]
  /\ got \in [Consumers -> {"row", "missing", NoOne}]
  /\ \A t \in Tasks, c \in Conns : conn[t] = c <=> holder[c] = t

\* Whatever connection a task is given and whoever held it before, it reads
\* rows of its own tenant only (tenant-scope.ts:17-26, migration 0009:54-62).
Isolation == \A t \in Scoped : \A r \in seen[t] : r.tenant = TenantOf[t]

\* The pool implements the store: whatever scope was left on a connection, a read
\* finds all rows of its tenant and no other, and a token is answered "missing"
\* only when there is no such session (tenant-scope.ts:17-26,
\* 0009-app-role.ts:64-81).
Store == INSTANCE TenantStore
ImplementsStore == Store!Spec

\* Every unit of work is served and ends, even when statements throw and the
\* pool is smaller than the work: connections come back (tenant-scope.ts:20-25).
EveryTaskEnds == \A t \in Tasks : <>(at[t] = "done")
=============================================================================
