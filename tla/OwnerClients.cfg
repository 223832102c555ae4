SPECIFICATION Spec
CONSTANTS
  Supply = 2
  Targets = {0, 50}
  Amounts = {1}
  MaxTx = 3
  MaxMoves = 1
  Uses <- MCUses
  Tabs = {t1, t2}
SYMMETRY TabSymmetry
INVARIANTS TypeOK OneOpenOperation
PROPERTIES FullExitIsFull SavedTargetKept
CHECK_DEADLOCK FALSE
