\* A call of the panel beside one of the cron job or the standalone agent.
SPECIFICATION Spec
CONSTANTS
  USDC = "USDC"
  Others = {"USDY"}
  Allocations <- Conservative
  Weight <- ConservativeWeight
  Price <- UnitPrices
  MaxCalls = 2
  Balances <- SomeBalances
  Shapes <- SomeShapes
  MIN_SWAP_USD = 2
  SLIPPAGE = 10
  MaxMishaps = 1
INVARIANTS TypeOK ReportIsTrue
PROPERTIES ReachesItsGoal PanelFreed
