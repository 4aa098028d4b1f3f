CONSTANTS
  BPS_DENOMINATOR = 100
  MAX_FEE_BPS = 10
  REP_BASE_REWARD = 1
  REP_UNIT_SCALE = 2
  REP_MAX_BONUS = 1
  MAX_U64 = 3
  MAX_U32 = 3
  Null = Null
  None = None
  Nodes = {n1}
  Providers = {p1, p2}
  Authorities = {a1, a2}
  FeeRates <- MCFeeRates
  Windows <- MCWindows
  Capacities <- MCCapacities
  Geos = {gShort, gLong}
  LongGeos = {gLong}
  InitReputations = {0, 2}
  UnitCounts = {0, 1, 2}
  Earnings = {0, 2}
SPECIFICATION RegistrySpec
INVARIANTS RegistryTypeOK NftNeverAhead
PROPERTIES TrackRecordKept
