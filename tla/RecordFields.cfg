\* Four fields, three analyses, two accidents.
SPECIFICATION FairSpec
CONSTANTS
  None = None
  Field = {"summary", "need", "reason", "advice"}
  DependsOn <- Graph
  Rowless = {"reason"}
  MaxAnalyses = 3
  MaxAccidents = 2
CHECK_DEADLOCK FALSE
INVARIANTS
  InputsComplete
  UndisturbedIsConsistent
PROPERTIES
  CompletedOnlyIfAllAre
  AnalysisEnds
