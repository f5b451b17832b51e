--------------------------- MODULE TenantScopeProofs ---------------------------
(***************************************************************************)
(* Isolation over a pool of any size: the pool implements TenantStore.     *)
(***************************************************************************)
EXTENDS TenantScope, TLAPS

\* A task holds a connection from Grant to Release.
Holding(t) == at[t] \in {"scope", "work", "insert", "consume", "release"}

\* A task waits once for a connection, and holds one only when it was served.
PoolInv ==
  /\ \A i \in 1..Len(queue) : at[queue[i]] = "wait"
  /\ \A i, j \in 1..Len(queue) : queue[i] = queue[j] => i = j
  /\ \A t \in Tasks : Holding(t) <=> conn[t] # NoOne

\* Each kind of work keeps to its own steps.
KindInv ==
  \A t \in Tasks : /\ at[t] = "work" => t \in Scoped
                   /\ at[t] = "insert" => t \in Txs
                   /\ at[t] = "consume" => t \in Consumers
                   /\ at[t] = "scope" => t \notin Consumers

\* The session setting is right while it is relied on, whoever set it before; a
\* local setting is there only inside the transaction that made it.
ScopeInv ==
  /\ \A t \in Tasks : at[t] = "work" => session[conn[t]] = TenantOf[t]
  /\ \A t \in Tasks : at[t] = "insert" => local[conn[t]] = TenantOf[t]
  /\ \A c \in Conns : local[c] # NoOne => holder[c] # NoOne /\ at[holder[c]] = "insert"

\* A token is used once by each call.
GotInv == \A t \in Consumers : got[t] # NoOne => at[t] \in {"release", "done"}

Inv == TypeOK /\ PoolInv /\ KindInv /\ ScopeInv /\ GotInv

-----------------------------------------------------------------------------
LEMMA InitInv == Init => Inv
<1> SUFFICES ASSUME Init PROVE Inv
  OBVIOUS
<1> USE TasksAssumption DEF Init
<1>1. TypeOK
  BY DEF TypeOK, Tasks, Rows
<1>2. PoolInv
  BY DEF PoolInv, Holding
<1>3. KindInv /\ ScopeInv /\ GotInv
  BY DEF KindInv, ScopeInv, GotInv
<1> QED BY <1>1, <1>2, <1>3 DEF Inv

\* What a task that holds a connection may count on.
LEMMA Held ==
  ASSUME Inv, NEW t \in Tasks, Holding(t)
  PROVE  conn[t] \in Conns /\ holder[conn[t]] = t
  BY DEF Inv, TypeOK, PoolInv, Holding

\* Connect: the task joins the queue it was not in.
LEMMA ConnectInv == ASSUME Inv, NEW t \in Tasks, Connect(t) PROVE Inv'
<1> USE TasksAssumption DEF Inv, Connect, Goto
<1>1. /\ at[t] = "start" /\ at' = [at EXCEPT ![t] = "wait"]
      /\ queue \in Seq(Tasks) /\ queue' = Append(queue, t)
      /\ Len(queue') = Len(queue) + 1 /\ Len(queue) \in Nat
      /\ queue'[Len(queue) + 1] = t
      /\ \A i \in 1..Len(queue) : queue'[i] = queue[i] /\ queue[i] \in Tasks
  BY DEF TypeOK
<1>2. TypeOK'
  BY <1>1 DEF TypeOK
<1>3. PoolInv'
  <2>1. \A i \in 1..Len(queue) : queue[i] # t
    BY <1>1 DEF PoolInv
  <2>2. \A i \in 1..Len(queue') : at'[queue'[i]] = "wait"
    BY <1>1, <2>1 DEF PoolInv, TypeOK
  <2>3. \A i, j \in 1..Len(queue') : queue'[i] = queue'[j] => i = j
    BY <1>1, <2>1 DEF PoolInv
  <2>4. \A u \in Tasks : Holding(u)' <=> conn'[u] # NoOne
    BY <1>1 DEF PoolInv, Holding, TypeOK
  <2> QED BY <2>2, <2>3, <2>4 DEF PoolInv
<1>4. KindInv' /\ ScopeInv' /\ GotInv'
  BY <1>1 DEF KindInv, ScopeInv, GotInv, TypeOK
<1> QED BY <1>2, <1>3, <1>4

\* Grant: a free connection carries no local setting.
LEMMA GrantInv == ASSUME Inv, NEW c \in Conns, Grant(c) PROVE Inv'
<1> DEFINE t == Head(queue)
<1> USE TasksAssumption DEF Inv
<1>1. /\ holder[c] = NoOne /\ queue # <<>> /\ queue \in Seq(Tasks)
      /\ at' = [at EXCEPT ![t] = IF t \in Consumers THEN "consume" ELSE "scope"]
      /\ conn' = [conn EXCEPT ![t] = c]
      /\ holder' = [holder EXCEPT ![c] = t]
      /\ queue' = Tail(queue)
      /\ UNCHANGED <<session, local, rows, seen, got>>
  BY DEF Grant, TypeOK
<1>2. /\ t \in Tasks /\ t = queue[1] /\ Len(queue) \in Nat \ {0}
      /\ Len(queue') = Len(queue) - 1 /\ queue' \in Seq(Tasks)
      /\ \A i \in 1..Len(queue') : queue'[i] = queue[i + 1]
  BY <1>1
<1>3. at[t] = "wait" /\ conn[t] = NoOne
  BY <1>2 DEF PoolInv, Holding
<1> HIDE DEF t
<1>4. TypeOK'
  BY <1>1, <1>2, <1>3 DEF TypeOK
<1>5. PoolInv'
  <2>1. \A i \in 1..Len(queue') : i + 1 \in 1..Len(queue) /\ i + 1 # 1
    BY <1>2
  <2>2. ASSUME NEW i \in 1..Len(queue')
        PROVE  queue'[i] # t /\ at[queue'[i]] = "wait"
    <3>1. queue'[i] = queue[i + 1] /\ 1 \in 1..Len(queue)
      BY <1>2
    <3> QED BY <1>2, <2>1, <3>1 DEF PoolInv
  <2>3. \A i \in 1..Len(queue') : at'[queue'[i]] = "wait"
    BY <1>1, <1>2, <2>2 DEF TypeOK
  <2>4. \A i, j \in 1..Len(queue') : queue'[i] = queue'[j] => i = j
    BY <1>2, <2>1 DEF PoolInv
  <2>5. \A u \in Tasks : Holding(u)' <=> conn'[u] # NoOne
    BY <1>1, <1>2 DEF PoolInv, Holding, TypeOK
  <2> QED BY <2>3, <2>4, <2>5 DEF PoolInv
<1>6. KindInv'
  BY <1>1, <1>2 DEF KindInv, TypeOK, Tasks
<1>7. ScopeInv'
  <2>1. \A u \in Tasks : at'[u] \in {"work", "insert"} => u # t /\ at[u] = at'[u] /\ conn'[u] = conn[u]
    BY <1>1, <1>2 DEF TypeOK
  <2>2. local[c] = NoOne
    BY <1>1 DEF ScopeInv
  <2>3. \A d \in Conns : d # c => holder'[d] = holder[d]
    BY <1>1 DEF TypeOK
  <2>4. \A d \in Conns : local[d] # NoOne => holder[d] # t
    BY <1>3 DEF ScopeInv
  <2> QED BY <1>1, <2>1, <2>2, <2>3, <2>4 DEF ScopeInv, TypeOK
<1>8. GotInv'
  BY <1>1, <1>3 DEF GotInv, TypeOK, Tasks
<1> QED BY <1>4, <1>5, <1>6, <1>7, <1>8

\* A step of a task that holds a connection and goes on holding it.
Stays(t, step) ==
  /\ Holding(t) /\ step \in {"work", "insert", "release"}
  /\ at' = [at EXCEPT ![t] = step]
  /\ UNCHANGED <<queue, conn, holder>>

LEMMA StaysInv ==
  ASSUME Inv, NEW t \in Tasks, NEW step, Stays(t, step),
         step = "work" => t \in Scoped, step = "insert" => t \in Txs
  PROVE  PoolInv' /\ KindInv' /\ \A u \in Tasks, c \in Conns : conn'[u] = c <=> holder'[c] = u
<1> USE TasksAssumption DEF Inv, Stays
<1>1. \A i \in 1..Len(queue) : queue[i] # t /\ queue[i] \in Tasks
  BY DEF PoolInv, Holding, TypeOK
<1>2. PoolInv'
  BY <1>1 DEF PoolInv, Holding, TypeOK
<1>3. KindInv'
  BY DEF KindInv, TypeOK
<1> QED BY <1>2, <1>3 DEF TypeOK

\* set_config on the task's own connection; no other task works on it.
LEMMA SetSessionInv == ASSUME Inv, NEW t \in Tasks, SetSession(t) PROVE Inv'
<1> USE TasksAssumption DEF Inv
<1>1. /\ at[t] = "scope" /\ t \in Scoped /\ Stays(t, "work")
      /\ session' = [session EXCEPT ![conn[t]] = TenantOf[t]]
      /\ UNCHANGED <<local, rows, seen, got>>
  BY DEF SetSession, Goto, Stays, Holding
<1>2. conn[t] \in Conns /\ holder[conn[t]] = t
  BY <1>1, Held DEF Stays
<1>3. TypeOK'
  BY <1>1, <1>2, StaysInv DEF TypeOK, Stays
<1>4. \A u \in Tasks : Holding(u) /\ u # t => conn[u] # conn[t]
  BY <1>2, Held
<1>5. ScopeInv'
  BY <1>1, <1>2, <1>4 DEF ScopeInv, TypeOK, Stays, Holding
<1>6. GotInv'
  BY <1>1 DEF GotInv, TypeOK, Stays, Tasks
<1> QED BY <1>1, <1>3, <1>5, <1>6, StaysInv

LEMMA SetLocalInv == ASSUME Inv, NEW t \in Tasks, SetLocal(t) PROVE Inv'
<1> USE TasksAssumption DEF Inv
<1>1. /\ at[t] = "scope" /\ t \in Txs /\ Stays(t, "insert")
      /\ local' = [local EXCEPT ![conn[t]] = TenantOf[t]]
      /\ UNCHANGED <<session, rows, seen, got>>
  BY DEF SetLocal, Goto, Stays, Holding
<1>2. conn[t] \in Conns /\ holder[conn[t]] = t
  BY <1>1, Held DEF Stays
<1>3. TypeOK'
  BY <1>1, <1>2, StaysInv DEF TypeOK, Stays
<1>4. \A u \in Tasks : Holding(u) /\ u # t => conn[u] # conn[t]
  BY <1>2, Held
<1>5. ScopeInv'
  <2>1. \A u \in Tasks : at'[u] \in {"work", "insert"} /\ u # t => at[u] = at'[u] /\ Holding(u)
    BY <1>1 DEF TypeOK, Stays, Holding
  <2>2. \A d \in Conns : local'[d] # NoOne => holder'[d] # NoOne /\ at'[holder'[d]] = "insert"
    BY <1>1, <1>2 DEF ScopeInv, TypeOK, Stays
  <2> QED BY <1>1, <1>2, <1>4, <2>1, <2>2 DEF ScopeInv, TypeOK, Stays
<1>6. GotInv'
  BY <1>1 DEF GotInv, TypeOK, Stays, Tasks
<1> QED BY <1>1, <1>3, <1>5, <1>6, StaysInv

\* Reading and writing move nothing but rows.
LEMMA WorkInv == ASSUME Inv, NEW t \in Tasks, Read(t) \/ Write(t) PROVE Inv'
<1> USE TasksAssumption DEF Inv
<1>1. at[t] = "work" /\ t \in Scoped /\ UNCHANGED <<at, queue, conn, holder, session, local, got>>
  BY DEF Read, Write, KindInv
<1>2. Visible(conn[t]) \subseteq Rows
  BY DEF Visible, TypeOK
<1>3. TypeOK'
  <2>1. CASE Read(t)
    BY <1>1, <1>2, <2>1 DEF Read, TypeOK
  <2>2. CASE Write(t)
    BY <1>1, <2>2 DEF Write, TypeOK, Rows
  <2> QED BY <2>1, <2>2
<1>4. PoolInv' /\ KindInv' /\ ScopeInv' /\ GotInv'
  BY <1>1 DEF PoolInv, Holding, KindInv, ScopeInv, GotInv
<1> QED BY <1>3, <1>4

LEMMA WorkEndsInv == ASSUME Inv, NEW t \in Tasks, WorkEnds(t) PROVE Inv'
<1> USE TasksAssumption DEF Inv
<1>1. at[t] = "work" /\ Stays(t, "release") /\ UNCHANGED <<session, local, rows, seen, got>>
  BY DEF WorkEnds, Goto, Stays, Holding
<1>2. conn[t] \in Conns /\ holder[conn[t]] = t
  BY <1>1, Held DEF Stays
<1>3. TypeOK'
  BY <1>1, <1>2, StaysInv DEF TypeOK, Stays
<1>4. ScopeInv'
  BY <1>1 DEF ScopeInv, TypeOK, Stays
<1>5. GotInv'
  BY <1>1 DEF GotInv, TypeOK, Stays, Tasks
<1> QED BY <1>1, <1>3, <1>4, <1>5, StaysInv

\* The end of a transaction or an exception: the local setting goes with it.
LEMMA EndInv == ASSUME Inv, NEW t \in Tasks, Commit(t) \/ Throws(t) PROVE Inv'
<1> USE TasksAssumption DEF Inv
<1>1. /\ Stays(t, "release") /\ at[t] \in {"scope", "work", "insert", "consume"}
      /\ local' = [local EXCEPT ![conn[t]] = NoOne]
      /\ UNCHANGED <<session, seen, got>>
  BY DEF Commit, Throws, Goto, Stays, Holding
<1>2. conn[t] \in Conns /\ holder[conn[t]] = t
  BY <1>1, Held DEF Stays
<1>3. rows' \subseteq Rows
  BY DEF Commit, Throws, Goto, KindInv, TypeOK, Rows
<1>4. TypeOK'
  BY <1>1, <1>2, <1>3, StaysInv DEF TypeOK, Stays
<1>5. \A u \in Tasks : Holding(u) /\ u # t => conn[u] # conn[t]
  BY <1>2, Held
<1>6. ScopeInv'
  <2>1. \A u \in Tasks : at'[u] \in {"work", "insert"} => u # t /\ at[u] = at'[u] /\ Holding(u)
    BY <1>1 DEF TypeOK, Stays, Holding
  <2>2. \A d \in Conns : local'[d] # NoOne => d # conn[t] /\ local[d] = local'[d]
    BY <1>1, <1>2 DEF TypeOK
  <2>3. \A d \in Conns : d # conn[t] => holder[d] # t
    BY <1>2 DEF TypeOK
  <2> QED BY <1>1, <1>5, <2>1, <2>2, <2>3 DEF ScopeInv, TypeOK, Stays
<1>7. GotInv'
  BY <1>1 DEF GotInv, TypeOK, Stays, Tasks
<1> QED BY <1>1, <1>4, <1>6, <1>7, StaysInv

LEMMA ConsumeInv == ASSUME Inv, NEW t \in Consumers, consume_session(t) PROVE Inv'
<1> USE TasksAssumption DEF Inv
<1>1. /\ t \in Tasks /\ at[t] = "consume" /\ Stays(t, "release")
      /\ rows' \subseteq rows
      /\ got' \in [Consumers -> {"row", "missing", NoOne}]
      /\ \A u \in Consumers : u # t => got'[u] = got[u]
      /\ UNCHANGED <<session, local, seen>>
  BY DEF consume_session, Goto, Stays, Holding, Tasks, TypeOK
<1>2. conn[t] \in Conns /\ holder[conn[t]] = t
  BY <1>1, Held DEF Stays
<1>3. TypeOK'
  BY <1>1, <1>2, StaysInv DEF TypeOK, Stays
<1>4. ScopeInv'
  BY <1>1 DEF ScopeInv, TypeOK, Stays
<1>5. GotInv'
  BY <1>1 DEF GotInv, TypeOK, Stays, Tasks
<1> QED BY <1>1, <1>3, <1>4, <1>5, StaysInv

\* The connection goes back with its session setting and without a local one.
LEMMA ReleaseInv == ASSUME Inv, NEW t \in Tasks, Release(t) PROVE Inv'
<1> USE TasksAssumption DEF Inv
<1>1. /\ at[t] = "release" /\ at' = [at EXCEPT ![t] = "done"]
      /\ holder' = [holder EXCEPT ![conn[t]] = NoOne]
      /\ conn' = [conn EXCEPT ![t] = NoOne]
      /\ UNCHANGED <<queue, session, local, rows, seen, got>>
  BY DEF Release, Goto
<1>2. conn[t] \in Conns /\ holder[conn[t]] = t
  BY <1>1, Held DEF Holding
<1>3. TypeOK'
  <2>1. \A u \in Tasks, c \in Conns : conn'[u] = c <=> holder'[c] = u
    BY <1>1, <1>2 DEF TypeOK
  <2> QED BY <1>1, <1>2, <2>1 DEF TypeOK
<1>4. PoolInv'
  <2>1. \A i \in 1..Len(queue) : queue[i] # t /\ queue[i] \in Tasks
    BY <1>1 DEF PoolInv, TypeOK
  <2> QED BY <1>1, <2>1 DEF PoolInv, Holding, TypeOK
<1>5. KindInv'
  BY <1>1 DEF KindInv, TypeOK
<1>6. ScopeInv'
  <2>1. local[conn[t]] = NoOne
    BY <1>1, <1>2 DEF ScopeInv
  <2>2. \A d \in Conns : d # conn[t] => holder[d] # t /\ holder'[d] = holder[d]
    BY <1>1, <1>2 DEF TypeOK
  <2> QED BY <1>1, <1>2, <2>1, <2>2 DEF ScopeInv, TypeOK
<1>7. GotInv'
  BY <1>1 DEF GotInv, TypeOK, Tasks
<1> QED BY <1>3, <1>4, <1>5, <1>6, <1>7

LEMMA NextInv == Inv /\ [Next]_vars => Inv'
<1> SUFFICES ASSUME Inv, [Next]_vars PROVE Inv'
  OBVIOUS
<1>1. CASE UNCHANGED vars
  BY <1>1 DEF vars, Inv, TypeOK, PoolInv, Holding, KindInv, ScopeInv, GotInv
<1>2. ASSUME NEW t \in Tasks, Step(t) PROVE Inv'
  BY <1>2, ConnectInv, SetSessionInv, SetLocalInv, WorkEndsInv, EndInv, ConsumeInv,
     ReleaseInv DEF Step
<1>3. ASSUME NEW t \in Tasks, Read(t) \/ Write(t) PROVE Inv'
  BY <1>3, WorkInv
<1>4. ASSUME NEW c \in Conns, Grant(c) PROVE Inv'
  BY <1>4, GrantInv
<1> QED BY <1>1, <1>2, <1>3, <1>4 DEF Next

\* The type invariant holds for any number of connections, tenants and tasks.
THEOREM TypeCorrect == Spec => []TypeOK
<1>1. Inv => TypeOK
  BY DEF Inv
<1> QED BY <1>1, InitInv, NextInv, PTL DEF Spec

-----------------------------------------------------------------------------
\* The policies show a task the rows of its tenant, all of them and no other.
LEMMA OwnRows ==
  ASSUME Inv, NEW t \in Tasks, at[t] = "work"
  PROVE  t \in Scoped /\ Current(conn[t]) = TenantOf[t]
<1>1. t \in Scoped /\ Holding(t)
  BY DEF Inv, KindInv, Holding
<1>2. conn[t] \in Conns /\ holder[conn[t]] = t
  BY <1>1, Held
<1>3. local[conn[t]] = NoOne
  BY <1>2 DEF Inv, ScopeInv
<1> QED BY <1>1, <1>3 DEF Current, Inv, ScopeInv

\* Every step reads and writes as in the store, or is invisible to it.
LEMMA StoreStep == Inv /\ [Next]_vars => [Store!Next]_Store!vars
<1> SUFFICES ASSUME Inv, [Next]_vars PROVE [Store!Next]_Store!vars
  OBVIOUS
<1> USE TasksAssumption DEF Store!vars
<1>1. ASSUME NEW t \in Tasks, Read(t) PROVE Store!Next
  <2>1. t \in Scoped /\ Visible(conn[t]) = {r \in rows : r.tenant = TenantOf[t]}
    BY <1>1, OwnRows DEF Read, Visible
  <2>2. Store!Read(t)
    BY <1>1, <2>1 DEF Read, Store!Read
  <2> QED BY <2>1, <2>2 DEF Store!Next
<1>2. ASSUME NEW t \in Tasks, Write(t) \/ Commit(t) PROVE Store!Next
  <2>1. t \in Scoped \union Txs
    BY <1>2 DEF Write, Commit, Goto, Inv, KindInv
  <2>2. Store!Write(t)
    BY <1>2 DEF Write, Commit, Store!Write
  <2> QED BY <2>1, <2>2 DEF Store!Next
<1>3. ASSUME NEW t \in Consumers, consume_session(t) PROVE Store!Next
  <2>1. got[t] = NoOne
    BY <1>3 DEF consume_session, Goto, Inv, GotInv
  <2>2. Store!Use(t)
    BY <1>3, <2>1 DEF consume_session, Ofs, Store!Use
  <2> QED BY <2>2 DEF Store!Next
<1>4. ASSUME NEW t \in Tasks,
             Connect(t) \/ SetSession(t) \/ SetLocal(t) \/ WorkEnds(t) \/ Throws(t) \/ Release(t)
      PROVE  UNCHANGED Store!vars
  BY <1>4 DEF Connect, SetSession, SetLocal, WorkEnds, Throws, Release
<1>5. ASSUME NEW c \in Conns, Grant(c) PROVE UNCHANGED Store!vars
  BY <1>5 DEF Grant
<1>6. CASE UNCHANGED vars
  BY <1>6 DEF vars
<1> QED BY <1>1, <1>2, <1>3, <1>4, <1>5, <1>6 DEF Next, Step

\* Whatever the pool does, each tenant works as on the store of TenantStore.
THEOREM Implementation == Spec => ImplementsStore
<1>1. Init => Store!Init
  BY DEF Init, Store!Init, Tasks
<1> QED BY <1>1, InitInv, NextInv, StoreStep, PTL DEF Spec, ImplementsStore, Store!Spec

-----------------------------------------------------------------------------
\* A task that reads adds rows of its own tenant.
LEMMA IsolationStep == Inv /\ Isolation /\ [Next]_vars => Isolation'
<1> SUFFICES ASSUME Inv, Isolation, [Next]_vars PROVE Isolation'
  OBVIOUS
<1> USE TasksAssumption DEF Isolation
<1>1. ASSUME NEW t \in Tasks, Read(t) PROVE Isolation'
  <2>1. \A r \in Visible(conn[t]) : r.tenant = TenantOf[t]
    BY <1>1, OwnRows DEF Read, Visible
  <2> QED BY <1>1, <2>1 DEF Read, Inv, TypeOK, Tasks
<1>2. CASE UNCHANGED seen
  BY <1>2
<1>3. ASSUME ~ \E t \in Tasks : Read(t) PROVE UNCHANGED seen
  BY <1>3 DEF Next, Step, Connect, SetSession, SetLocal, WorkEnds, Commit, consume_session,
              Throws, Release, Write, Grant, vars
<1> QED BY <1>1, <1>2, <1>3

\* No work under runScoped ever reads a row of another tenant.
THEOREM Isolated == Spec => []Isolation
<1>1. Init => Isolation
  BY DEF Init, Isolation, Tasks
<1> QED BY <1>1, InitInv, NextInv, IsolationStep, PTL DEF Spec
=============================================================================
