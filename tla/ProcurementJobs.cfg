CONSTANTS
  Jobs = {j1, j2}
  Keys = {k1}
  None = None
  Rails = {"native", "x402"}
  Profiles = {"fixed", "rfq"}
  MaxBroadcasts = 2
  MaxFinalise = 2
  QueueLimit = 1
  HourlyLimit = 1
  Durable = TRUE
  MaxRestarts = 1
  MaxRecoveries = 1
SPECIFICATION Spec
SYMMETRY JobSymmetry
INVARIANTS
  OneJobPerKey
  NoDuplicatePayment
  UnpaidMeansUnpaid
  PaymentHasAnOutcome
  LaneIsBounded
CHECK_DEADLOCK FALSE
