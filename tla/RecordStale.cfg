\* An upstream field is retried and the retry is cut short.
SPECIFICATION Spec
CONSTANTS
  None = None
  Field = {"summary", "need", "reason", "advice"}
  DependsOn <- Graph
  Rowless = {}
  MaxAnalyses = 3
  MaxAccidents = 1
CHECK_DEADLOCK FALSE
INVARIANTS
  CompletedIsConsistent
