SPECIFICATION Spec
CONSTANTS
  EXECUTOR_VOLUME_HOURS = 3
  SECONDS_PER_HOUR = 2
  DEFAULT_EXECUTOR_LIMIT_USDC = 2
  FirstHour = 3
  LastHour = 7
  LimitValues = {0, 2, 3}
  Amounts = {1, 2}
  Principals = {1, 3}
INVARIANTS TypeOK LedgerExact WindowSandwich
PROPERTY BudgetSpec
CHECK_DEADLOCK FALSE
