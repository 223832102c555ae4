SPECIFICATION DeployedSpec
CONSTANTS
  EXECUTOR_VOLUME_HOURS = 1
  SECONDS_PER_HOUR = 1
  DEFAULT_EXECUTOR_LIMIT_USDC = 60
  Owner = Owner
  NoKey = NoKey
  Executors = {e1}
  Admins = {adm}
  Supply = 20
  MaxTotal = 0
  MaxLosses = 0
  MaxShares = 0
  FirstTime = 2
  LastTime = 2
  DepositAmounts = {20}
  WithdrawAmounts = {}
  KaminoAmounts = {}
  Gains = {}
  Losses = {}
  FeeRates = {0}
  Allocations = {0}
  LimitValues = {}
  ClientEmptiesFirst = TRUE
  ClientClosesPolicy = TRUE
  MATURITY = 3
  UNITS_PER_USDC = 1
  Rates = {95, 105}
  PolicyLosses = {500}
  BuyAmounts = {20}
  OnycAmounts = {20}
  ExitAmounts = {10}
  OnycShares = {10000}
  OwnerOnyc = 20
  MaxSpent = 40
  MaxPt = 1
INVARIANTS RouteFollowsPosition ExecutorLossCapped BasisConserved TrackedIsHeld
CHECK_DEADLOCK FALSE
