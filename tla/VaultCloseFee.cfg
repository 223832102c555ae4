SPECIFICATION Spec
CONSTANTS
  EXECUTOR_VOLUME_HOURS = 2
  SECONDS_PER_HOUR = 1
  DEFAULT_EXECUTOR_LIMIT_USDC = 4
  Owner = Owner
  NoKey = NoKey
  Executors = {}
  Admins = {adm}
  Supply = 6
  MaxTotal = 10
  MaxLosses = 1
  MaxShares = 6
  FirstTime = 2
  LastTime = 2
  DepositAmounts = {6}
  WithdrawAmounts = {6}
  KaminoAmounts = {6}
  Gains = {}
  Losses = {}
  FeeRates = {2000, 3000}
  Allocations = {10000}
  LimitValues = {}
  ClientEmptiesFirst = FALSE
  ClientClosesPolicy = TRUE
INVARIANT NoFeeWithoutProfit
CHECK_DEADLOCK FALSE
