CONSTANTS
  q1 = q1
  q2 = q2
  t1 = t1
  t2 = t2
  w1 = w1
  w2 = w2
  Quads <- MCQuads
  Ops <- MCOps
  TxnIds = {t1, t2}
  Workers = {w1, w2}
  timeout = 0
  MaxOps = 2
SPECIFICATION FairSpec
ACTION_CONSTRAINT Canonical
INVARIANTS AppliesAcknowledged StoreIsCommitted
PROPERTIES AbandonedAreRemoved
CHECK_DEADLOCK FALSE
