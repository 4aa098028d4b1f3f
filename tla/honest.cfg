CONSTANTS
  BPS_DENOMINATOR = 10
  MAX_FEE_BPS = 5
  REP_BASE_REWARD = 1
  REP_UNIT_SCALE = 2
  REP_MAX_BONUS = 1
  MAX_U64 = 100
  MAX_U32 = 100
  Null = Null
  None = None
  Nodes = {n1}
  Providers = {p1}
  Authorities = {a1}
  FeeRates = {0, 5}
  Windows = {1}
  Capacities = {1}
  Geos = {g1}
  LongGeos = {}
  InitReputations = {0}
  UnitCounts = {0}
  Earnings = {0}
  Consumers = {c1}
  Seeds = {1}
  Mints = {}
  SOL = SOL
  FeeVault = FeeVault
  Treasury = Treasury
  Outsider = Outsider
  OutsideFunds <- NothingOutside
  Funds = 5
  SessionRent = 2
  WalletRent = 1
  MIN_DURATION_SECS = 1
  MAX_DURATION_SECS = 2
  HORIZON = 3
  Amounts = {3}
  Durations = {1, 2}
  StateUpdates <- Chains
SPECIFICATION HonestSpec
INVARIANTS EndsAtNewest ChallengeOpen SettleOpen
