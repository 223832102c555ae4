SPECIFICATION Spec
CONSTANTS
  Uses <- MCUses
  LTV_LIMIT = 75
  RESIDUE = 1
  BUFFER = 5
  LTV_PCT = 50
  Typed = {1, 3}
  Rates = {948, 952}
  ONE = 1000
  Size = 1000
  Allocations <- MCAllocations
  Start <- MCStart
  SLIPPAGE_BPS = 50
  MAX_LOSS_BPS = 500
  VALIDITY = 1
  MATURITY = 2
  LastTime = 2
  MaxTrades = 2
  Mints = {"m1", "m2"}
  Pages = {p1, p2}
  TTL = 1
  META_TTL = 2
  RATE_TTL = 2
  DELAY = 1
INVARIANTS TypeOK CardReportsAreTrue ReadsAreRecent
PROPERTIES ChatRunsWhatWasConfirmed TradeIsAsReviewed ScreensFreed
CHECK_DEADLOCK FALSE
