SPECIFICATION LimitedSpec
CONSTANTS
  EXECUTOR_VOLUME_HOURS = 1
  SECONDS_PER_HOUR = 1
  DEFAULT_EXECUTOR_LIMIT_USDC = 20
  Owner = Owner
  NoKey = NoKey
  Executors = {e1}
  Admins = {adm}
  Supply = 40
  MaxTotal = 40
  MaxLosses = 0
  MaxShares = 2
  FirstTime = 2
  LastTime = 3
  DepositAmounts = {40}
  WithdrawAmounts = {}
  KaminoAmounts = {2}
  Gains = {}
  Losses = {}
  FeeRates = {0}
  Allocations = {1000}
  LimitValues = {1, 20, 40}
  ClientEmptiesFirst = TRUE
  ClientClosesPolicy = TRUE
  MATURITY = 3
  UNITS_PER_USDC = 1
  Rates = {95, 100}
  PolicyLosses = {500}
  BuyAmounts = {20}
  OnycAmounts = {}
  ExitAmounts = {}
  OnycShares = {6000}
  OwnerOnyc = 0
  MaxSpent = 20
  MaxPt = 0
PROPERTIES ExponentWithinLimits ExecutorWithinLimits
CHECK_DEADLOCK FALSE
