SPECIFICATION DelegatedSpec
CONSTANTS
  EXECUTOR_VOLUME_HOURS = 2
  SECONDS_PER_HOUR = 1
  DEFAULT_EXECUTOR_LIMIT_USDC = 3
  Owner = Owner
  NoKey = NoKey
  Executors = {e1}
  Admins = {adm}
  Supply = 8
  MaxTotal = 13
  MaxLosses = 3
  MaxShares = 8
  FirstTime = 2
  LastTime = 3
  DepositAmounts = {4}
  WithdrawAmounts = {2}
  KaminoAmounts = {1, 2}
  Gains = {5}
  Losses = {1}
  FeeRates = {2000}
  Allocations = {0, 3000, 5000}
  LimitValues = {8}
  ClientEmptiesFirst = TRUE
  ClientClosesPolicy = TRUE
INVARIANT TargetNeverExceeded
CHECK_DEADLOCK FALSE
