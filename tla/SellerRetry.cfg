CONSTANTS
  a1 = a1
  a2 = a2
  a3 = a3
  t1 = t1
  t3 = t3
  c1 = c1
  c2 = c2
  k1 = k1
  k2 = k2
  Agreements = {a1, a2, a3}
  FixedPrice = {a1, a3}
  Legacy = {a2}
  X402 = {a3}
  Txs = {t1, t3}
  Pays <- MCPays
  Contents = {c1, c2}
  Tasks = {k1, k2}
  None = None
  MaxSessions = 1
  MaxRestarts = 1
SPECIFICATION MCSpec
PROPERTY
  DeliveryIsStable
CHECK_DEADLOCK FALSE
