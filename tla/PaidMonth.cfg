\* A call begun before midnight ends after another reserved on the new day.
SPECIFICATION Spec
CONSTANTS
  Route = {"r1", "r2", "r3"}
  Batch = {"b1", "b2"}
  BatchOf <- RouteBatch
  MaxTokens = 1
  MaxBilled = 1
  BatchLimit <- Limits
  DailyLimit = 4
  MonthlyLimit = 6
  MonthOf <- Months
  LastDay = 3
  MaxCrashes = 0
CHECK_DEADLOCK FALSE
INVARIANTS
  MonthReturns
