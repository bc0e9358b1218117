\* One job of two records, imported before platforms existed, and two runs.
SPECIFICATION FairSpec
CONSTANTS
  None = None
  j1 = j1
  Job <- OneJob
  Record <- TwoRecords
  JobOf <- BothOfOne
  Run = {x1, x2}
  BatchSize = 1
  Concurrency = 2
  Legacy <- OneJob
  MaxCrashes = 1
CHECK_DEADLOCK FALSE
PROPERTIES
  EveryRunEnds
  ConversationIsPermanent
  FenceSpec
