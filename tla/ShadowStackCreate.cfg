SPECIFICATION Spec
CONSTANTS
  Workers = {w1}
  Budgets <- NestedBudgets
INVARIANT
  CreateOrdered
CHECK_DEADLOCK FALSE
