SPECIFICATION Spec
CONSTANTS
  MaxRanked = 3
  MaxEscalation = 2
  Budgets <- MCBudgets
INVARIANTS TypeOK ResultsInPlanOrder CallBudgetKept StageAccounted FallbackRight
PROPERTIES CalledOnce Answers ImplementsForecastRun
CHECK_DEADLOCK FALSE
