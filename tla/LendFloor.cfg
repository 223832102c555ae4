\* One full repayment on a market whose minimum debt lies above both margins.
SPECIFICATION Spec
CONSTANTS
  Jobs = {j1}
  Requests <- LendingRequests
  MaxId = 3
  DEFAULT_POSITION_SCAN_DEPTH = 1
  Debts = {9, 15}
  Deposited = 10
  Idle = 8
  SafeLamports = 1
  ExecutorLamports = 4
  SCALE = 2
  JUPITER_REPAY_DUST_USER_RAW = 3
  JUPITER_REPAY_FULL_CLOSE_USER_RAW = 6
  JUPITER_REPAY_SAFETY_FULL = 1
  JUPITER_REPAY_SAFETY_MEDIUM = 2
  DustBuffer = 4
  DebtBuffer = 2
  VAULT_PDA_LAMPORT_BUFFER = 3
  VAULT_PDA_REFUND_RESERVE = 1
  AUTHORITY_FEE_RESERVE = 1
  RentMinimum = 1
  Rents = {0, 1}
  MIN_KVAULT_DEPOSIT_RAW = 2
  MinUserDebt = 5
  MaxAccruals = 1
  MaxLate = 1
PROPERTY RepaidAsNoted
