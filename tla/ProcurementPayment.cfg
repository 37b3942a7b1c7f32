CONSTANTS
  Jobs = {j1}
  Keys = {}
  None = None
  Rails = {"native"}
  Profiles = {"fixed"}
  MaxBroadcasts = 2
  MaxFinalise = 2
  QueueLimit = 1
  HourlyLimit = 2
  Durable = TRUE
  MaxRestarts = 0
  MaxRecoveries = 1
SPECIFICATION Spec
INVARIANT
  RecoveryBindsThePayment
CHECK_DEADLOCK FALSE
