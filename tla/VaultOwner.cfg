SPECIFICATION Spec
CONSTANTS
  EXECUTOR_VOLUME_HOURS = 1
  SECONDS_PER_HOUR = 1
  DEFAULT_EXECUTOR_LIMIT_USDC = 4
  Owner = Owner
  NoKey = NoKey
  Executors = {}
  Admins = {adm}
  Supply = 4
  MaxTotal = 10
  MaxLosses = 1
  MaxShares = 6
  FirstTime = 2
  LastTime = 2
  DepositAmounts = {0, 4}
  WithdrawAmounts = {1, 4}
  KaminoAmounts = {2, 4}
  Gains = {5}
  Losses = {1, 3}
  FeeRates = {2000, 3000}
  Allocations = {5000, 10000}
  LimitValues = {4}
  ClientEmptiesFirst = TRUE
  ClientClosesPolicy = TRUE
INVARIANTS TypeOK NoPhantomPrincipal PolicyOwnerGranted FeeOnlyOnRealizedProfit
PROPERTY CustodyPromise
CHECK_DEADLOCK FALSE
