\* One job, three records, two runs, batches of two with two workers.
SPECIFICATION Spec
CONSTANTS
  None = None
  j1 = j1
  Job <- OneJob
  Record <- ThreeRecords
  JobOf <- AllOfOne
  Run = {x1, x2}
  BatchSize = 2
  Concurrency = 2
  Legacy = {}
  MaxCrashes = 1
SYMMETRY Tokens
CHECK_DEADLOCK FALSE
INVARIANTS
  ProcessingIsOwned
PROPERTIES
  CompletedIsComplete
  OperatorStopStands
  StopAdmitsNoRecord
  BatchLeavesNothingPending
