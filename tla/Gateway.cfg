\* Two concurrent requests, two transfers, any rails, one restart; or two butler
\* demos and another wallet write, with one loss.
CONSTANTS
  r1 = r1
  r2 = r2
  t1 = t1
  t2 = t2
  cheap = cheap
  dear = dear
  Requests = {r1, r2}
  Txs = {t1, t2}
  Agents = {cheap, dear}
  Price <- MCPrice
  Transfer <- MCTransfer
  HasAnchor = TRUE
  NoTx = NoTx
  MaxRestarts = 1
  Demos = {"d1", "d2"}
  Others = {"w1"}
  maxPerWindow = 1
  maxConcurrent = 1
  maxReceipts = 2
  maxAttempts = 2
  MaxLosses = 1
  MaxWindows = 1
SPECIFICATION MCFairSpec
INVARIANTS
  OneCallUnlessOverlapped
  OnlyDeliveryConsumes
  PaidForWork
  
PROPERTIES
  GatewayAnswers
CHECK_DEADLOCK FALSE
