CONSTANTS
  Id = {a, b}
  Capacity = 2
  MaxUses = 2
  MaxAge = 2
  MaxRecords = 4
  MaxTime = 3
SPECIFICATION Spec
INVARIANT BudgetIsKept
PROPERTY DecisionsAreFresh
PROPERTY FreshestSurvives
