SPECIFICATION Spec
CONSTANTS
  MaxRanked = 3
  MaxEscalation = 2
  Budgets <- MCBudgets
PROPERTY PerExpertTimeout
CHECK_DEADLOCK FALSE
