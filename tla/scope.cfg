SPECIFICATION FairSpec
CONSTANTS
  A = A
  B = B
  OfB = {w2, s1}
  Conns = {c1, c2}
  Tenants <- MCTenants
  Scoped = {w1, w2}
  Txs = {s1}
  Consumers = {x1}
  TenantOf <- MCTenantOf
  Token <- MCToken
  NoOne = NoOne
INVARIANTS
  TypeOK
  Isolation
PROPERTIES
  ImplementsStore
  EveryTaskEnds
CHECK_DEADLOCK FALSE
