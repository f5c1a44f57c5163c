SPECIFICATION BudgetSpec
CONSTANTS
  Requests = {r1, r2, r3}
  BudgetCap = 2
  MaxPeriods = 1
  MaxLosses = 1
INVARIANTS
  TwiceOnlyFromTable
  SurvivesFlush
  OnlyThisWindow
PROPERTY
  SpendNeverShrinks
CHECK_DEADLOCK FALSE
