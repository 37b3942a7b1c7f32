SPECIFICATION MCSpec
CONSTANTS
  P1 = P1
  P2 = P2
  Q = Q
  Gate = Gate
  Rogue = Rogue
  N = 3
  Payees <- MCPayees
  MinBalance <- MCMinBalance
  Allowlist <- MCAllowlist
  PolicyId = "treasury"
  PerTxCap = 5
  PerRunCap = 11
  FeeBuffer = 1
  ChainOf <- MCChainOf
  TargetPct <- MCTargetPct
  Payroll <- MCPayroll
  MinMove = 1
  MaxMoves = 2
  Balances <- MCBalances
  Fee = 1
  Opening <- MCOpening
  Keys = {Gate, Rogue}
  GateKey = Gate
  Trusted = {Gate}
  Proposals <- MCPlans
  MaxFaults = 2
INVARIANTS
  SelfFunded
  PlanIsSound
  PaidOnceUnlessExposed
  ExecutionIsSound
PROPERTIES
  PlansComplete
CHECK_DEADLOCK FALSE
