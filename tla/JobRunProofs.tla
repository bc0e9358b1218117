---------------------------- MODULE JobRunProofs ----------------------------
(* Proofs about JobRun for any jobs, records, runs, batch sizes and crashes. *)
EXTENDS JobRun, TLAPS

----------------------------------------------------------------------------
(* The type invariant. *)

LEMMA TypeInit == Init => TypeOK
BY RecordAssumption, LegacyAssumption DEF Init, TypeOK, JobStatus, RecordStatus, ReviewStatus

LEMMA FinalStatusType ==
  ASSUME TypeOK, NEW j \in Job, NEW b \in BOOLEAN
  PROVE  FinalStatus(j, b) \in JobStatus
BY DEF FinalStatus, TypeOK, JobStatus

LEMMA TypeStart ==
  ASSUME TypeOK, NEW x \in Run, Start(x)
  PROVE  TypeOK'
<1> USE RecordAssumption, RunAssumption DEF TypeOK, Acquire, Free, processVars, JobStatus, RecordStatus, ReviewStatus
<1>1. ASSUME NEW j \in Job, AnalyzeJob(x, j) PROVE TypeOK'
  BY <1>1 DEF AnalyzeJob
<1>2. ASSUME NEW j \in Job, NEW S \in SUBSET Record, AnalyzeTargeted(x, j, S) PROVE TypeOK'
  BY <1>2 DEF AnalyzeTargeted
<1>3. ASSUME NEW j \in Job, RetryFailed(x, j) PROVE TypeOK'
  BY <1>3 DEF RetryFailed, FailedOf, RecordsOf, AllOf
<1>4. ASSUME NEW r \in Record, AnalyzeRecord(x, r) PROVE TypeOK'
  BY <1>4 DEF AnalyzeRecord
<1>5. ASSUME NEW r \in Record, AnalyzeField(x, r) PROVE TypeOK'
  BY <1>5 DEF AnalyzeField
<1> QED BY <1>1, <1>2, <1>3, <1>4, <1>5 DEF Start

\* A loaded batch is part of the run's own records.
LEMMA LoadBatchEffect ==
  ASSUME TypeOK, NEW x \in Run, LoadBatch(x)
  PROVE  /\ queue' \in [Run -> SUBSET Record]
         /\ cursor' \in [Run -> Nat]
         /\ explicit' \in [Run -> SUBSET Record]
         /\ \A y \in Run \ {x} : queue'[y] = queue[y] /\ explicit'[y] = explicit[y]
         /\ \A r \in queue'[x] : JobOf[r] = runJob[x] \/ (kind[x] = "targeted" /\ r \in explicit[x])
         /\ explicit'[x] \subseteq explicit[x]
<1>0. /\ queue \in [Run -> SUBSET Record]
      /\ cursor \in [Run -> Nat]
      /\ explicit \in [Run -> SUBSET Record]
  BY DEF TypeOK
<1>1. CASE kind[x] = "batch"
  <2>1. PICK S \in SUBSET {r \in Eligible(runJob[x]) : cursor[x] < r}, last \in Record :
          /\ queue' = [queue EXCEPT ![x] = S]
          /\ cursor' = [cursor EXCEPT ![x] = last]
    BY <1>1 DEF LoadBatch, Waiting, Eligible, RecordsOf, AllOf
  <2>2. S \in SUBSET Record /\ \A r \in S : JobOf[r] = runJob[x]
    BY DEF Eligible, RecordsOf, AllOf
  <2>3. explicit' = explicit
    BY <1>1 DEF LoadBatch
  <2>4. last \in Nat
    BY RecordAssumption
  <2>5. cursor' \in [Run -> Nat]
    BY <1>0, <2>1, <2>4
  <2>6. queue' \in [Run -> SUBSET Record] /\ queue'[x] = S /\ \A y \in Run \ {x} : queue'[y] = queue[y]
    BY <1>0, <2>1, <2>2
  <2>7. \A r \in queue'[x] : JobOf[r] = runJob[x]
    BY <2>2, <2>6
  <2>8. explicit' \in [Run -> SUBSET Record] /\ explicit'[x] \subseteq explicit[x]
    BY <1>0, <2>3
  <2>9. \A y \in Run \ {x} : queue'[y] = queue[y] /\ explicit'[y] = explicit[y]
    BY <2>3, <2>6
  <2> QED BY <2>5, <2>6, <2>7, <2>8, <2>9
<1>2. CASE kind[x] = "targeted"
  <2>1. PICK S \in SUBSET explicit[x] :
          /\ queue' = [queue EXCEPT ![x] = S]
          /\ explicit' = [explicit EXCEPT ![x] = explicit[x] \ S]
    BY <1>2 DEF LoadBatch
  <2>2. cursor' = cursor
    BY <1>2 DEF LoadBatch
  <2> QED BY <1>0, <1>2, <2>1, <2>2
<1> QED BY <1>1, <1>2 DEF LoadBatch

LEMMA TypeLoadBatch ==
  ASSUME TypeOK, NEW x \in Run, LoadBatch(x)
  PROVE  TypeOK'
<1>1. /\ queue' \in [Run -> SUBSET Record]
      /\ cursor' \in [Run -> Nat]
      /\ explicit' \in [Run -> SUBSET Record]
  BY LoadBatchEffect
<1>2. phase' \in [Run -> {"unused", "loading", "working", "done"}]
  BY DEF LoadBatch, TypeOK
<1>3. UNCHANGED <<up, crashes, jobStatus, runToken, cancelRequested, platformBound,
        recordStatus, reviewStatus, hasConversation, kind, runJob, stage, aborted, threw>>
  BY DEF LoadBatch, processVars, jobVars, recordVars
<1> QED BY <1>1, <1>2, <1>3 DEF TypeOK

LEMMA TypeRelease ==
  ASSUME TypeOK, NEW x \in Run, NEW b \in BOOLEAN, Release(x, b)
  PROVE  TypeOK'
<1>1. jobStatus' \in [Job -> JobStatus] /\ runToken' \in [Job -> Run \cup {None}]
  <2>1. CASE Owns(x)
    <3>1. runJob[x] \in Job
      BY <2>1 DEF Owns
    <3>2. FinalStatus(runJob[x], b) \in JobStatus
      BY <3>1, FinalStatusType
    <3>3. jobStatus \in [Job -> JobStatus] /\ runToken \in [Job -> Run \cup {None}]
      BY DEF TypeOK
    <3> QED BY <2>1, <3>1, <3>2, <3>3 DEF Release
  <2>2. CASE ~Owns(x)
    BY <2>2 DEF Release, TypeOK
  <2> QED BY <2>1, <2>2
<1>2. phase' \in [Run -> {"unused", "loading", "working", "done"}]
  BY DEF Release, TypeOK
<1>3. UNCHANGED <<up, crashes, cancelRequested, platformBound, recordStatus, reviewStatus,
        hasConversation, kind, runJob, cursor, explicit, queue, stage, aborted, threw>>
  BY DEF Release, processVars, recordVars
<1> QED BY <1>1, <1>2, <1>3 DEF TypeOK

\* Writing the status it has just read changes nothing.
LEMMA BatchCompleteKeepsStatus ==
  ASSUME TypeOK, NEW x \in Run, BatchComplete(x)
  PROVE  UNCHANGED jobStatus
<1>1. CASE Owns(x)
  <2>1. jobStatus' = [jobStatus EXCEPT ![runJob[x]] = jobStatus[runJob[x]]]
    BY <1>1 DEF BatchComplete, ReportedStatus
  <2> QED BY <2>1 DEF TypeOK
<1>2. CASE ~Owns(x)
  BY <1>2 DEF BatchComplete
<1> QED BY <1>1, <1>2

LEMMA TypeBatchComplete ==
  ASSUME TypeOK, NEW x \in Run, BatchComplete(x)
  PROVE  TypeOK'
<1>1. UNCHANGED jobStatus
  BY BatchCompleteKeepsStatus
<1>2. phase' \in [Run -> {"unused", "loading", "working", "done"}]
  BY DEF BatchComplete, TypeOK
<1>3. UNCHANGED <<up, crashes, runToken, cancelRequested, platformBound, recordStatus, reviewStatus,
        hasConversation, kind, runJob, cursor, explicit, queue, stage, aborted, threw>>
  BY DEF BatchComplete, processVars, recordVars
<1> QED BY <1>1, <1>2, <1>3 DEF TypeOK

LEMMA TypeCrash ==
  ASSUME TypeOK, Crash
  PROVE  TypeOK'
<1>0. crashes' \in Nat
  BY DEF Crash, TypeOK
<1>1. up' \in BOOLEAN
  BY DEF Crash
<1>2. phase' \in [Run -> {"unused", "loading", "working", "done"}]
  BY DEF Crash, TypeOK
<1>3. queue' \in [Run -> SUBSET Record]
  BY DEF Crash
<1>4. stage' \in [Run -> [Record -> {"none", "claimed", "analyzing"}]]
  BY DEF Crash
<1>5. UNCHANGED <<jobStatus, runToken, cancelRequested, platformBound, recordStatus, reviewStatus,
        hasConversation, kind, runJob, cursor, explicit, aborted, threw>>
  BY DEF Crash, jobVars, recordVars
<1> QED BY <1>0, <1>1, <1>2, <1>3, <1>4, <1>5 DEF TypeOK

LEMMA TypeRunStep ==
  ASSUME TypeOK, NEW x \in Run, RunStep(x)
  PROVE  TypeOK'
<1> USE RecordAssumption, RunAssumption
    DEF TypeOK, processVars, jobVars, recordVars, JobStatus, RecordStatus, ReviewStatus
<1>1. CASE LoadBatch(x)
  BY <1>1, TypeLoadBatch
<1>2. CASE DropBatch(x)
  BY <1>2 DEF DropBatch
<1>3. CASE BatchComplete(x)
  BY <1>3, TypeBatchComplete
<1>4. CASE FinishBatch(x)
  BY <1>4, TypeRelease DEF FinishBatch
<1>5. CASE FinishSingle(x)
  BY <1>5, TypeRelease DEF FinishSingle
<1>6. ASSUME NEW r \in Record, TakeItem(x, r) PROVE TypeOK'
  BY <1>6 DEF TakeItem
<1>7. ASSUME NEW r \in Record, BeginRecord(x, r) PROVE TypeOK'
  BY <1>7 DEF BeginRecord
<1>8. ASSUME NEW r \in Record, NEW outcome \in Outcomes(x), RecordDone(x, r, outcome) PROVE TypeOK'
  BY <1>8 DEF RecordDone, ConversationAfter, Outcomes, ReviewAfter
<1>9. ASSUME NEW r \in Record, RecordThrows(x, r) PROVE TypeOK'
  BY <1>9 DEF RecordThrows
<1>10. ASSUME NEW r \in Record, RecordAborted(x, r) PROVE TypeOK'
  BY <1>10 DEF RecordAborted
<1> QED BY <1>1, <1>2, <1>3, <1>4, <1>5, <1>6, <1>7, <1>8, <1>9, <1>10 DEF RunStep, RecordStep

LEMMA TypeOthers ==
  ASSUME TypeOK, Operator \/ Crash \/ Restart \/ UNCHANGED vars
  PROVE  TypeOK'
<1> USE RecordAssumption, RunAssumption
    DEF TypeOK, processVars, jobVars, recordVars, runVars, JobStatus, RecordStatus, ReviewStatus
<1>1. ASSUME NEW j \in Job, StartGivesUp(j) PROVE TypeOK'
  BY <1>1 DEF StartGivesUp
<1>2. ASSUME NEW j \in Job, RequestPause(j) PROVE TypeOK'
  BY <1>2 DEF RequestPause
<1>3. ASSUME NEW j \in Job, RequestCancel(j) PROVE TypeOK'
  BY <1>3 DEF RequestCancel
<1>4. ASSUME NEW j \in Job, DeleteJob(j) PROVE TypeOK'
  BY <1>4 DEF DeleteJob
<1>5. ASSUME NEW j \in Job, BindPlatform(j) PROVE TypeOK'
  BY <1>5 DEF BindPlatform
<1>6. ASSUME NEW r \in Record, ConfirmReview(r) PROVE TypeOK'
  BY <1>6 DEF ConfirmReview
<1>7. CASE Crash
  BY <1>7, TypeCrash
<1>8. CASE Restart
  BY <1>8 DEF Restart
<1>9. CASE UNCHANGED vars
  BY <1>9 DEF vars
<1>10. ASSUME NEW j \in Job, AddRecords(j) PROVE TypeOK'
  BY <1>10 DEF AddRecords
<1> QED BY <1>1, <1>2, <1>3, <1>4, <1>5, <1>6, <1>7, <1>8, <1>9, <1>10 DEF Operator

\* The variables of JobRun keep their types.
THEOREM TypeCorrect == Spec => []TypeOK
<1>1. TypeOK /\ [Next]_vars => TypeOK'
  BY TypeStart, TypeRunStep, TypeOthers DEF Next
<1> QED BY TypeInit, <1>1, PTL DEF Spec

----------------------------------------------------------------------------
(* IInv is an invariant. *)

LEMMA InvInit == Init => IInv
<1> SUFFICES ASSUME Init PROVE IInv
  OBVIOUS
<1>1. TypeOK
  BY TypeInit
<1>2. GoneTogether
  BY RecordAssumption DEF Init, GoneTogether
<1>3. TokenStatus /\ RunsHold /\ StagesBelong /\ LockIsLive
  BY RunAssumption DEF Init, TokenStatus, RunsHold, StagesBelong, LockIsLive
<1>4. QueuesBelong /\ AbortIsFlagged
  BY RunAssumption DEF Init, QueuesBelong, AbortIsFlagged, Owns
<1>5. ProcessingIsOwned /\ CompletedIsSettled /\ ResultHasConversation
  BY RecordAssumption DEF Init, ProcessingIsOwned, CompletedIsSettled, ResultHasConversation, RecordsOf, AllOf
<1> QED BY <1>1, <1>2, <1>3, <1>4, <1>5 DEF IInv

\* Taking a free job's lock with a fresh run keeps the conjuncts about the lock.
LEMMA AcquireKeeps ==
  ASSUME IInv, NEW x \in Run, NEW j \in Job, Acquire(x, j),
         NEW p \in {"loading", "working"}, phase' = [phase EXCEPT ![x] = p]
  PROVE  TokenStatus' /\ RunsHold' /\ LockIsLive' /\ AbortIsFlagged'
<1>1. TypeOK
  BY DEF IInv
<1>2. /\ runToken' = [runToken EXCEPT ![j] = x]
      /\ jobStatus' = [jobStatus EXCEPT ![j] = "processing"]
      /\ runJob' = [runJob EXCEPT ![x] = j]
      /\ up /\ up' /\ phase[x] = "unused" /\ runToken[j] = None
      /\ jobStatus[j] # "gone"
      /\ aborted' = aborted /\ cancelRequested' = [cancelRequested EXCEPT ![j] = FALSE]
  BY DEF Acquire, Free, Startable, processVars
<1>3. /\ runToken \in [Job -> Run \cup {None}] /\ jobStatus \in [Job -> JobStatus]
      /\ cancelRequested \in [Job -> BOOLEAN]
      /\ runJob \in [Run -> Job \cup {None}]
      /\ phase \in [Run -> {"unused", "loading", "working", "done"}]
  BY <1>1 DEF TypeOK
<1>4. TokenStatus'
  BY <1>2, <1>3 DEF IInv, TokenStatus
<1>5. RunsHold'
  BY <1>2, <1>3, RunAssumption DEF IInv, RunsHold
<1>6. LockIsLive'
  BY <1>2, <1>3, RunAssumption DEF IInv, LockIsLive
<1>7. AbortIsFlagged'
  BY <1>2, <1>3, RunAssumption DEF IInv, AbortIsFlagged, Owns
<1> QED BY <1>4, <1>5, <1>6, <1>7

\* A fresh run starts with nothing queued and nothing in its hands.
LEMMA FreshRun ==
  ASSUME IInv, NEW x \in Run, phase[x] = "unused"
  PROVE  queue[x] = {} /\ \A r \in Record : stage[x][r] = "none"
BY DEF IInv, TypeOK, StagesBelong, QueuesBelong

\* The record conjuncts survive the start of a run that only turns failed
\* records of its job into pending ones and claims nothing as processing.
LEMMA AcquireKeepsRecords ==
  ASSUME IInv, NEW x \in Run, NEW j \in Job, Acquire(x, j),
         \A y \in Run \ {x} : stage'[y] = stage[y],
         \A r \in Record : \/ recordStatus'[r] = recordStatus[r]
                           \/ (recordStatus[r] = "failed" /\ recordStatus'[r] = "pending" /\ JobOf[r] = j)
  PROVE  GoneTogether' /\ ProcessingIsOwned' /\ CompletedIsSettled' /\ ResultHasConversation'
<1>2. /\ runToken' = [runToken EXCEPT ![j] = x]
      /\ jobStatus' = [jobStatus EXCEPT ![j] = "processing"]
      /\ hasConversation' = hasConversation
      /\ up /\ phase[x] = "unused" /\ runToken[j] = None
      /\ jobStatus[j] # "gone"
  BY DEF Acquire, Free, Startable, processVars
<1>3. runToken \in [Job -> Run \cup {None}] /\ jobStatus \in [Job -> JobStatus] /\ JobOf \in [Record -> Job]
  BY RecordAssumption DEF IInv, TypeOK
<1>4. GoneTogether'
  BY <1>2, <1>3 DEF IInv, GoneTogether
<1>5. ProcessingIsOwned'
  <2> SUFFICES ASSUME NEW r \in Record, recordStatus'[r] = "processing"
               PROVE  runToken'[JobOf[r]] \in Run /\ stage'[runToken'[JobOf[r]]][r] = "analyzing"
    BY DEF ProcessingIsOwned
  <2>1. recordStatus[r] = "processing"
    OBVIOUS
  <2>2. runToken[JobOf[r]] \in Run /\ stage[runToken[JobOf[r]]][r] = "analyzing"
    BY <1>2, <2>1 DEF IInv, ProcessingIsOwned
  <2>3. JobOf[r] # j /\ JobOf[r] \in Job
    BY <1>2, <1>3, <2>2, RunAssumption
  <2>4. runToken'[JobOf[r]] = runToken[JobOf[r]]
    BY <1>2, <1>3, <2>3
  <2>5. runToken[JobOf[r]] # x
    BY <2>2, <1>2, FreshRun
  <2> QED BY <2>2, <2>4, <2>5
<1>6. CompletedIsSettled'
  BY <1>2, <1>3 DEF IInv, CompletedIsSettled, RecordsOf, AllOf
<1>7. ResultHasConversation'
  BY <1>2 DEF IInv, ResultHasConversation
<1> QED BY <1>4, <1>5, <1>6, <1>7

\* What the ways to start a run have in common is enough for the invariant.
LEMMA StartKeeps ==
  ASSUME IInv, TypeOK', NEW x \in Run, NEW j \in Job, Acquire(x, j),
         NEW p \in {"loading", "working"}, phase' = [phase EXCEPT ![x] = p],
         \A y \in Run \ {x} : stage'[y] = stage[y] /\ explicit'[y] = explicit[y] /\ kind'[y] = kind[y],
         \A r \in Record : \/ recordStatus'[r] = recordStatus[r]
                           \/ (recordStatus[r] = "failed" /\ recordStatus'[r] = "pending" /\ JobOf[r] = j),
         \A r \in Record : stage'[x][r] # "none" => (p = "working" /\ JobOf[r] = j),
         kind'[x] = "targeted" => \A r \in explicit'[x] : JobOf[r] = j
  PROVE  IInv'
<1>0. TypeOK
  BY DEF IInv
<1>1. TokenStatus' /\ RunsHold' /\ LockIsLive' /\ AbortIsFlagged'
  BY AcquireKeeps
<1>2. GoneTogether' /\ ProcessingIsOwned' /\ CompletedIsSettled' /\ ResultHasConversation'
  BY AcquireKeepsRecords
<1>3. phase[x] = "unused" /\ queue' = queue /\ runJob' = [runJob EXCEPT ![x] = j]
  BY DEF Acquire, Free
<1>4. queue[x] = {} /\ \A r \in Record : stage[x][r] = "none"
  BY <1>3, FreshRun
<1>5. /\ phase \in [Run -> {"unused", "loading", "working", "done"}]
      /\ runJob \in [Run -> Job \cup {None}]
  BY <1>0 DEF TypeOK
<1>6. StagesBelong'
  BY <1>3, <1>4, <1>5 DEF IInv, StagesBelong
<1>7. QueuesBelong'
  <2> SUFFICES ASSUME NEW y \in Run
               PROVE  /\ \A r \in queue'[y] : /\ phase'[y] = "working"
                                              /\ runJob'[y] = JobOf[r]
                                              /\ stage'[y][r] = "none"
                                              /\ kind'[y] \in {"batch", "targeted"}
                      /\ (kind'[y] = "targeted" /\ phase'[y] # "unused") =>
                           \A r \in explicit'[y] : runJob'[y] = JobOf[r]
    BY DEF QueuesBelong
  <2>1. CASE y = x
    BY <1>3, <1>4, <1>5, <2>1
  <2>2. CASE y # x
    BY <1>3, <1>5, <2>2 DEF IInv, QueuesBelong
  <2> QED BY <2>1, <2>2
<1> QED BY <1>1, <1>2, <1>6, <1>7 DEF IInv

LEMMA InvStart ==
  ASSUME IInv, NEW x \in Run, Start(x)
  PROVE  IInv'
<1>0. TypeOK /\ TypeOK' /\ JobOf \in [Record -> Job]
  BY TypeStart, RecordAssumption DEF IInv
<1>1. ASSUME NEW j \in Job, AnalyzeJob(x, j) PROVE IInv'
  <2>1. Acquire(x, j) /\ phase' = [phase EXCEPT ![x] = "loading"]
    BY <1>1 DEF AnalyzeJob
  <2>2. \A y \in Run \ {x} : stage'[y] = stage[y] /\ explicit'[y] = explicit[y] /\ kind'[y] = kind[y]
    BY <1>0, <1>1 DEF AnalyzeJob, TypeOK
  <2>3. \A q \in Record : \/ recordStatus'[q] = recordStatus[q]
                          \/ (recordStatus[q] = "failed" /\ recordStatus'[q] = "pending" /\ JobOf[q] = j)
    BY <1>1 DEF AnalyzeJob
  <2>4. \A q \in Record : stage'[x][q] = "none"
    BY <1>0, <1>1, <2>1, FreshRun DEF AnalyzeJob, Acquire, Free, TypeOK
  <2>5. kind'[x] # "targeted"
    BY <1>0, <1>1 DEF AnalyzeJob, TypeOK
  <2> QED BY <1>0, <2>1, <2>2, <2>3, <2>4, <2>5, StartKeeps
<1>2. ASSUME NEW j \in Job, NEW S \in SUBSET Record, AnalyzeTargeted(x, j, S) PROVE IInv'
  <2>1. Acquire(x, j) /\ phase' = [phase EXCEPT ![x] = "loading"]
    BY <1>2 DEF AnalyzeTargeted
  <2>2. \A y \in Run \ {x} : stage'[y] = stage[y] /\ explicit'[y] = explicit[y] /\ kind'[y] = kind[y]
    BY <1>0, <1>2 DEF AnalyzeTargeted, TypeOK
  <2>3. \A q \in Record : \/ recordStatus'[q] = recordStatus[q]
                          \/ (recordStatus[q] = "failed" /\ recordStatus'[q] = "pending" /\ JobOf[q] = j)
    BY <1>2 DEF AnalyzeTargeted
  <2>4. \A q \in Record : stage'[x][q] = "none"
    BY <1>0, <1>2, <2>1, FreshRun DEF AnalyzeTargeted, Acquire, Free, TypeOK
  <2>5. kind'[x] = "targeted" => \A q \in explicit'[x] : JobOf[q] = j
    BY <1>0, <1>2 DEF AnalyzeTargeted, Eligible, RecordsOf, AllOf, TypeOK
  <2> QED BY <1>0, <2>1, <2>2, <2>3, <2>4, <2>5, StartKeeps
<1>3. ASSUME NEW j \in Job, RetryFailed(x, j) PROVE IInv'
  <2>1. Acquire(x, j) /\ phase' = [phase EXCEPT ![x] = "loading"]
    BY <1>3 DEF RetryFailed
  <2>2. \A y \in Run \ {x} : stage'[y] = stage[y] /\ explicit'[y] = explicit[y] /\ kind'[y] = kind[y]
    BY <1>0, <1>3 DEF RetryFailed, TypeOK
  <2>3. \A q \in Record : \/ recordStatus'[q] = recordStatus[q]
                          \/ (recordStatus[q] = "failed" /\ recordStatus'[q] = "pending" /\ JobOf[q] = j)
    BY <1>3 DEF RetryFailed, FailedOf, RecordsOf, AllOf
  <2>4. \A q \in Record : stage'[x][q] = "none"
    BY <1>0, <1>3, <2>1, FreshRun DEF RetryFailed, Acquire, Free, TypeOK
  <2>5. kind'[x] = "targeted" => \A q \in explicit'[x] : JobOf[q] = j
    BY <1>0, <1>3 DEF RetryFailed, FailedOf, RecordsOf, AllOf, TypeOK
  <2> QED BY <1>0, <2>1, <2>2, <2>3, <2>4, <2>5, StartKeeps
<1>4. ASSUME NEW r \in Record, AnalyzeRecord(x, r) PROVE IInv'
  <2>0. JobOf[r] \in Job
    BY <1>0
  <2>1. Acquire(x, JobOf[r]) /\ phase' = [phase EXCEPT ![x] = "working"]
    BY <1>4 DEF AnalyzeRecord
  <2>2. \A y \in Run \ {x} : stage'[y] = stage[y] /\ explicit'[y] = explicit[y] /\ kind'[y] = kind[y]
    BY <1>0, <1>4 DEF AnalyzeRecord, TypeOK
  <2>3. \A q \in Record : \/ recordStatus'[q] = recordStatus[q]
                          \/ (recordStatus[q] = "failed" /\ recordStatus'[q] = "pending" /\ JobOf[q] = JobOf[r])
    BY <1>4 DEF AnalyzeRecord
  <2>4. \A q \in Record : stage'[x][q] # "none" => JobOf[q] = JobOf[r]
    BY <1>0, <1>4, <2>1, FreshRun DEF AnalyzeRecord, Acquire, Free, TypeOK
  <2>5. kind'[x] # "targeted"
    BY <1>0, <1>4 DEF AnalyzeRecord, TypeOK
  <2> QED BY <1>0, <2>0, <2>1, <2>2, <2>3, <2>4, <2>5, StartKeeps
<1>5. ASSUME NEW r \in Record, AnalyzeField(x, r) PROVE IInv'
  <2>0. JobOf[r] \in Job
    BY <1>0
  <2>1. Acquire(x, JobOf[r]) /\ phase' = [phase EXCEPT ![x] = "working"]
    BY <1>5 DEF AnalyzeField
  <2>2. \A y \in Run \ {x} : stage'[y] = stage[y] /\ explicit'[y] = explicit[y] /\ kind'[y] = kind[y]
    BY <1>0, <1>5 DEF AnalyzeField, TypeOK
  <2>3. \A q \in Record : \/ recordStatus'[q] = recordStatus[q]
                          \/ (recordStatus[q] = "failed" /\ recordStatus'[q] = "pending" /\ JobOf[q] = JobOf[r])
    BY <1>5 DEF AnalyzeField
  <2>4. \A q \in Record : stage'[x][q] # "none" => JobOf[q] = JobOf[r]
    BY <1>0, <1>5, <2>1, FreshRun DEF AnalyzeField, Acquire, Free, TypeOK
  <2>5. kind'[x] # "targeted"
    BY <1>0, <1>5 DEF AnalyzeField, TypeOK
  <2> QED BY <1>0, <2>0, <2>1, <2>2, <2>3, <2>4, <2>5, StartKeeps
<1> QED BY <1>1, <1>2, <1>3, <1>4, <1>5 DEF Start

-----------------------------------------------------------------------------
(* Steps of a run *)

\* Whoever holds a record in a run's hands: its job's lock, or the job is gone.
LEMMA HandsBelong ==
  ASSUME IInv, NEW x \in Run, NEW r \in Record, stage[x][r] # "none"
  PROVE  /\ phase[x] = "working" /\ up
         /\ runJob[x] = JobOf[r]
         /\ Owns(x) \/ recordStatus[r] = "gone"
<1>1. phase[x] = "working" /\ runJob[x] = JobOf[r]
  BY DEF IInv, StagesBelong
<1>2. up /\ runJob[x] \in Job /\ (runToken[runJob[x]] = x \/ jobStatus[runJob[x]] = "gone")
  BY <1>1 DEF IInv, RunsHold
<1>3. jobStatus[runJob[x]] = "gone" => recordStatus[r] = "gone"
  BY <1>1 DEF IInv, GoneTogether
<1> QED BY <1>1, <1>2, <1>3 DEF Owns

\* A step on one record r of a run x that leaves the jobs alone.
LEMMA RecordStepKeeps ==
  ASSUME IInv, TypeOK', NEW x \in Run, NEW r \in Record,
         phase[x] = "working", runJob[x] = JobOf[r], kind[x] \in {"batch", "targeted"} \/ r \notin queue[x],
         UNCHANGED <<up, jobVars, phase, kind, runJob, explicit, aborted>>,
         \A y \in Run : queue'[y] \subseteq queue[y],
         stage'[x][r] = "none" \/ r \notin queue'[x],
         \A y \in Run, q \in Record : (y # x \/ q # r) => stage'[y][q] = stage[y][q],
         \A q \in Record \ {r} : recordStatus'[q] = recordStatus[q] /\ hasConversation'[q] = hasConversation[q],
         recordStatus'[r] # recordStatus[r] => (Owns(x) /\ recordStatus'[r] # "gone"),
         recordStatus'[r] = "processing" => (Owns(x) /\ stage'[x][r] = "analyzing"),
         recordStatus'[r] \in {"completed", "needs_review"} => hasConversation'[r]
  PROVE  IInv'
<1>0. /\ TypeOK /\ JobOf \in [Record -> Job]
      /\ UNCHANGED <<up, jobStatus, runToken, cancelRequested, phase, kind, runJob, explicit, aborted>>
  BY RecordAssumption DEF IInv, jobVars
<1>1. TokenStatus' /\ RunsHold' /\ LockIsLive' /\ AbortIsFlagged'
  BY <1>0 DEF IInv, TokenStatus, RunsHold, LockIsLive, AbortIsFlagged, Owns
<1>2. StagesBelong'
  BY <1>0 DEF IInv, StagesBelong
<1>3. QueuesBelong'
  <2>1. \A y \in Run : queue[y] \subseteq Record
    BY <1>0 DEF TypeOK
  <2>2. \A y \in Run, q \in Record : q \in queue'[y] => stage'[y][q] = "none"
    BY <2>1 DEF IInv, QueuesBelong
  <2> QED BY <1>0, <2>1, <2>2 DEF IInv, QueuesBelong
<1>4. Owns(x) => (JobOf[r] \in Job /\ runToken[JobOf[r]] = x /\ jobStatus[JobOf[r]] \in {"processing", "paused", "cancelled"})
  BY RunAssumption DEF IInv, TokenStatus, Owns
<1>5. GoneTogether'
  BY <1>0, <1>4 DEF IInv, GoneTogether
<1>6. CompletedIsSettled'
  BY <1>0, <1>4 DEF IInv, CompletedIsSettled, RecordsOf, AllOf
<1>7. ResultHasConversation'
  BY DEF IInv, ResultHasConversation
<1>8. ProcessingIsOwned'
  <2> SUFFICES ASSUME up, NEW q \in Record, recordStatus'[q] = "processing"
               PROVE  runToken[JobOf[q]] \in Run /\ stage'[runToken[JobOf[q]]][q] = "analyzing"
    BY <1>0 DEF ProcessingIsOwned
  <2>1. CASE q = r
    BY <1>4, <2>1
  <2>2. CASE q # r
    <3>1. runToken[JobOf[q]] \in Run /\ stage[runToken[JobOf[q]]][q] = "analyzing"
      BY <2>2 DEF IInv, ProcessingIsOwned
    <3> QED BY <2>2, <3>1
  <2> QED BY <2>1, <2>2
<1> QED BY <1>1, <1>2, <1>3, <1>5, <1>6, <1>7, <1>8 DEF IInv

LEMMA InvTakeItem ==
  ASSUME IInv, NEW x \in Run, NEW r \in Record, TakeItem(x, r)
  PROVE  IInv'
<1>0. TypeOK /\ TypeOK'
  BY TypeRunStep DEF IInv, RunStep, RecordStep
<1>1. phase[x] = "working" /\ runJob[x] = JobOf[r] /\ kind[x] \in {"batch", "targeted"} /\ stage[x][r] = "none"
  BY DEF TakeItem, IInv, QueuesBelong
<1>2. /\ UNCHANGED <<up, jobVars, phase, kind, runJob, explicit, aborted>>
      /\ UNCHANGED <<recordStatus, hasConversation>>
      /\ up /\ Owns(x)
  BY DEF TakeItem, processVars, recordVars
<1>3. queue'[x] = queue[x] \ {r} /\ \A y \in Run : queue'[y] \subseteq queue[y]
  BY <1>0 DEF TakeItem, TypeOK
<1>4. \A y \in Run, q \in Record : (y # x \/ q # r) => stage'[y][q] = stage[y][q]
  BY <1>0 DEF TakeItem, TypeOK
<1>5. recordStatus[r] # "processing"
  BY <1>1, <1>2 DEF IInv, ProcessingIsOwned, Owns
<1>6. recordStatus[r] \in {"completed", "needs_review"} => hasConversation[r]
  BY DEF IInv, ResultHasConversation
<1> QED BY <1>0, <1>1, <1>2, <1>3, <1>4, <1>5, <1>6, RecordStepKeeps

\* The steps on a record that is in the run's hands.
LEMMA InHandsKeeps ==
  ASSUME IInv, TypeOK', NEW x \in Run, NEW r \in Record, stage[x][r] # "none",
         UNCHANGED <<up, jobVars, phase, kind, runJob, explicit, queue, aborted>>,
         \A y \in Run, q \in Record : (y # x \/ q # r) => stage'[y][q] = stage[y][q],
         \A q \in Record \ {r} : recordStatus'[q] = recordStatus[q] /\ hasConversation'[q] = hasConversation[q],
         recordStatus'[r] # recordStatus[r] => (Owns(x) /\ recordStatus'[r] # "gone"),
         recordStatus'[r] = "processing" => (Owns(x) /\ stage'[x][r] = "analyzing"),
         recordStatus'[r] \in {"completed", "needs_review"} => hasConversation'[r]
  PROVE  IInv'
<1>1. phase[x] = "working" /\ runJob[x] = JobOf[r]
  BY HandsBelong
<1>2. r \notin queue[x]
  BY DEF IInv, QueuesBelong
<1> QED BY <1>1, <1>2, RecordStepKeeps

LEMMA InvBeginRecord ==
  ASSUME IInv, NEW x \in Run, NEW r \in Record, BeginRecord(x, r)
  PROVE  IInv'
<1>0. TypeOK /\ TypeOK'
  BY TypeRunStep DEF IInv, RunStep, RecordStep
<1>1. stage[x][r] # "none" /\ Owns(x) /\ hasConversation' = hasConversation
  BY DEF BeginRecord
<1>2. UNCHANGED <<up, jobVars, phase, kind, runJob, explicit, queue, aborted>>
  BY DEF BeginRecord, processVars
<1>3. stage'[x][r] = "analyzing" /\ \A y \in Run, q \in Record : (y # x \/ q # r) => stage'[y][q] = stage[y][q]
  BY <1>0 DEF BeginRecord, TypeOK
<1>4. recordStatus'[r] = "processing" /\ \A q \in Record \ {r} : recordStatus'[q] = recordStatus[q]
  BY <1>0 DEF BeginRecord, TypeOK
<1> QED BY <1>0, <1>1, <1>2, <1>3, <1>4, InHandsKeeps

LEMMA InvRecordDone ==
  ASSUME IInv, NEW x \in Run, NEW r \in Record, NEW outcome \in Outcomes(x), RecordDone(x, r, outcome)
  PROVE  IInv'
<1>0. TypeOK /\ TypeOK'
  BY TypeRunStep DEF IInv, RunStep, RecordStep
<1>1. stage[x][r] # "none" /\ Owns(x)
  BY DEF RecordDone, ConversationAfter
<1>2. UNCHANGED <<up, jobVars, phase, kind, runJob, explicit, queue, aborted>>
  BY DEF RecordDone, ConversationAfter, processVars
<1>3. \A y \in Run, q \in Record : (y # x \/ q # r) => stage'[y][q] = stage[y][q]
  BY <1>0 DEF RecordDone, ConversationAfter, TypeOK
<1>4. recordStatus'[r] = outcome /\ \A q \in Record \ {r} : recordStatus'[q] = recordStatus[q]
  BY <1>0 DEF RecordDone, ConversationAfter, TypeOK
<1>5. /\ hasConversation'[r] = (hasConversation[r] \/ outcome \in {"completed", "needs_review"})
      /\ \A q \in Record \ {r} : hasConversation'[q] = hasConversation[q]
  BY <1>0 DEF RecordDone, ConversationAfter, TypeOK
<1>6. outcome \notin {"gone", "processing"}
  BY DEF Outcomes
<1> QED BY <1>0, <1>1, <1>2, <1>3, <1>4, <1>5, <1>6, InHandsKeeps

LEMMA InvRecordThrows ==
  ASSUME IInv, NEW x \in Run, NEW r \in Record, RecordThrows(x, r)
  PROVE  IInv'
<1>0. TypeOK /\ TypeOK'
  BY TypeRunStep DEF IInv, RunStep, RecordStep
<1>1. stage[x][r] # "none" /\ hasConversation' = hasConversation
  BY DEF RecordThrows
<1>2. UNCHANGED <<up, jobVars, phase, kind, runJob, explicit, queue, aborted>>
  BY DEF RecordThrows, processVars
<1>3. \A y \in Run, q \in Record : (y # x \/ q # r) => stage'[y][q] = stage[y][q]
  BY <1>0 DEF RecordThrows, TypeOK
<1>4. \A q \in Record \ {r} : recordStatus'[q] = recordStatus[q]
  BY <1>0 DEF RecordThrows, TypeOK
<1>5. \/ recordStatus'[r] = "failed" /\ Owns(x)
      \/ recordStatus'[r] = recordStatus[r]
  BY <1>0 DEF RecordThrows, TypeOK
<1>6. recordStatus'[r] # "processing"
  <2>1. kind[x] \in {"batch", "targeted", "record", "field"}
    BY <1>0 DEF TypeOK
  <2>2. CASE recordStatus[r] = "processing"
    BY <1>0, <2>2 DEF RecordThrows, TypeOK
  <2>3. CASE recordStatus[r] # "processing"
    BY <1>5, <2>3
  <2> QED BY <2>2, <2>3
<1>7. recordStatus[r] \in {"completed", "needs_review"} => hasConversation[r]
  BY DEF IInv, ResultHasConversation
<1> QED BY <1>0, <1>1, <1>2, <1>3, <1>4, <1>5, <1>6, <1>7, InHandsKeeps

\* An aborted run either finds the flag of the cancellation, or lost its job.
LEMMA InvRecordAborted ==
  ASSUME IInv, NEW x \in Run, NEW r \in Record, RecordAborted(x, r)
  PROVE  IInv'
<1>0. TypeOK /\ TypeOK'
  BY TypeRunStep DEF IInv, RunStep, RecordStep
<1>1. stage[x][r] # "none" /\ hasConversation' = hasConversation /\ aborted[x]
  BY DEF RecordAborted
<1>2. UNCHANGED <<up, jobVars, phase, kind, runJob, explicit, queue, aborted>>
  BY DEF RecordAborted, processVars
<1>3. \A y \in Run, q \in Record : (y # x \/ q # r) => stage'[y][q] = stage[y][q]
  BY <1>0 DEF RecordAborted, TypeOK
<1>4. \A q \in Record \ {r} : recordStatus'[q] = recordStatus[q]
  BY <1>0 DEF RecordAborted, TypeOK
<1>5. \/ recordStatus'[r] = "pending" /\ Settles(x, r)
      \/ recordStatus'[r] = recordStatus[r] /\ ~Settles(x, r)
  BY <1>0 DEF RecordAborted, TypeOK
<1>6. recordStatus[r] = "processing" => Settles(x, r)
  <2>1. Owns(x) \/ recordStatus[r] = "gone"
    BY <1>1, HandsBelong
  <2>2. Owns(x) => cancelRequested[runJob[x]]
    BY <1>1 DEF IInv, AbortIsFlagged
  <2> QED BY <2>1, <2>2 DEF Settles
<1>7. Settles(x, r) => Owns(x)
  BY DEF Settles
<1>8. recordStatus[r] \in {"completed", "needs_review"} => hasConversation[r]
  BY DEF IInv, ResultHasConversation
<1> QED BY <1>0, <1>1, <1>2, <1>3, <1>4, <1>5, <1>6, <1>7, <1>8, InHandsKeeps

LEMMA InvDropBatch ==
  ASSUME IInv, NEW x \in Run, DropBatch(x)
  PROVE  IInv'
<1>0. TypeOK /\ TypeOK'
  BY TypeRunStep DEF IInv, RunStep
<1>1. /\ UNCHANGED <<up, jobStatus, runToken, cancelRequested, recordStatus, hasConversation>>
      /\ UNCHANGED <<phase, kind, runJob, explicit, stage, aborted>>
  BY DEF DropBatch, processVars, jobVars, recordVars
<1>2. \A y \in Run : queue'[y] \subseteq queue[y]
  BY <1>0 DEF DropBatch, TypeOK
<1>3. TokenStatus' /\ RunsHold' /\ GoneTogether' /\ StagesBelong' /\ LockIsLive' /\ AbortIsFlagged'
  BY <1>1 DEF IInv, TokenStatus, RunsHold, GoneTogether, StagesBelong, LockIsLive, AbortIsFlagged, Owns
<1>4. QueuesBelong'
  BY <1>1, <1>2 DEF IInv, QueuesBelong
<1>5. ProcessingIsOwned' /\ CompletedIsSettled' /\ ResultHasConversation'
  BY <1>1 DEF IInv, ProcessingIsOwned, CompletedIsSettled, ResultHasConversation, RecordsOf, AllOf
<1> QED BY <1>0, <1>3, <1>4, <1>5 DEF IInv

\* A run between two batches has nothing queued and nothing in its hands.
LEMMA LoadingIsIdle ==
  ASSUME IInv, NEW x \in Run, phase[x] # "working"
  PROVE  queue[x] = {} /\ \A r \in Record : stage[x][r] = "none"
BY DEF IInv, TypeOK, StagesBelong, QueuesBelong

LEMMA InvLoadBatch ==
  ASSUME IInv, NEW x \in Run, LoadBatch(x)
  PROVE  IInv'
<1>0. TypeOK /\ TypeOK'
  BY TypeRunStep DEF IInv, RunStep
<1>1. /\ UNCHANGED <<up, jobStatus, runToken, cancelRequested, recordStatus, hasConversation>>
      /\ UNCHANGED <<kind, runJob, stage, aborted>>
      /\ phase[x] = "loading" /\ phase' = [phase EXCEPT ![x] = "working"]
  BY DEF LoadBatch, processVars, jobVars, recordVars
<1>2. phase \in [Run -> {"unused", "loading", "working", "done"}]
  BY <1>0 DEF TypeOK
<1>3. kind[x] \in {"batch", "targeted"}
  BY DEF LoadBatch
<1>4. queue[x] = {} /\ \A r \in Record : stage[x][r] = "none"
  BY <1>1, LoadingIsIdle
<1>5. TokenStatus' /\ GoneTogether'
  BY <1>1 DEF IInv, TokenStatus, GoneTogether
<1>6. RunsHold' /\ LockIsLive' /\ AbortIsFlagged'
  BY <1>1, <1>2 DEF IInv, RunsHold, LockIsLive, AbortIsFlagged, Owns
<1>7. StagesBelong'
  BY <1>1, <1>2 DEF IInv, StagesBelong
<1>8. ProcessingIsOwned' /\ CompletedIsSettled' /\ ResultHasConversation'
  BY <1>1 DEF IInv, ProcessingIsOwned, CompletedIsSettled, ResultHasConversation, RecordsOf, AllOf
<1>9. QueuesBelong'
  <2>1. /\ \A y \in Run \ {x} : queue'[y] = queue[y] /\ explicit'[y] = explicit[y]
        /\ \A r \in queue'[x] : JobOf[r] = runJob[x] \/ (kind[x] = "targeted" /\ r \in explicit[x])
        /\ explicit'[x] \subseteq explicit[x]
        /\ queue'[x] \subseteq Record
    BY <1>0, LoadBatchEffect
  <2>2. kind[x] = "targeted" => \A r \in explicit[x] : runJob[x] = JobOf[r]
    BY <1>1 DEF IInv, QueuesBelong
  <2> SUFFICES ASSUME NEW y \in Run
               PROVE  /\ \A r \in queue'[y] : /\ phase'[y] = "working"
                                              /\ runJob'[y] = JobOf[r]
                                              /\ stage'[y][r] = "none"
                                              /\ kind'[y] \in {"batch", "targeted"}
                      /\ (kind'[y] = "targeted" /\ phase'[y] # "unused") =>
                           \A r \in explicit'[y] : runJob'[y] = JobOf[r]
    BY DEF QueuesBelong
  <2>3. CASE y = x
    BY <1>1, <1>2, <1>3, <1>4, <2>1, <2>2, <2>3
  <2>4. CASE y # x
    BY <1>1, <1>2, <2>1, <2>4 DEF IInv, QueuesBelong
  <2> QED BY <2>3, <2>4
<1> QED BY <1>0, <1>5, <1>6, <1>7, <1>8, <1>9 DEF IInv

\* A run that ends with nothing left in its hands.
LEMMA InvRelease ==
  ASSUME IInv, TypeOK', NEW x \in Run, NEW b \in BOOLEAN, Release(x, b),
         up, phase[x] # "unused", queue[x] = {}, \A r \in Record : stage[x][r] = "none"
  PROVE  IInv'
<1>0. TypeOK /\ JobOf \in [Record -> Job]
  BY RecordAssumption DEF IInv
<1>1. /\ UNCHANGED <<up, cancelRequested, recordStatus, hasConversation>>
      /\ UNCHANGED <<kind, runJob, explicit, queue, stage, aborted>>
      /\ phase' = [phase EXCEPT ![x] = "done"]
  BY DEF Release, processVars, recordVars
<1>2. /\ phase \in [Run -> {"unused", "loading", "working", "done"}]
      /\ runToken \in [Job -> Run \cup {None}] /\ jobStatus \in [Job -> JobStatus]
  BY <1>0 DEF TypeOK
<1>3. \/ /\ Owns(x)
         /\ jobStatus' = [jobStatus EXCEPT ![runJob[x]] = FinalStatus(runJob[x], b)]
         /\ runToken' = [runToken EXCEPT ![runJob[x]] = None]
      \/ ~Owns(x) /\ UNCHANGED <<jobStatus, runToken>>
  BY DEF Release
<1>4. Owns(x) => jobStatus[runJob[x]] \in {"processing", "paused", "cancelled"}
  BY RunAssumption DEF IInv, TokenStatus, Owns
<1>5. Owns(x) => /\ FinalStatus(runJob[x], b) # "gone"
                 /\ FinalStatus(runJob[x], b) = "completed" =>
                      \A r \in RecordsOf(runJob[x]) : recordStatus[r] \notin {"failed", "pending", "processing"}
  BY <1>4 DEF FinalStatus
<1>6. \A j \in Job : \/ Owns(x) /\ j = runJob[x] /\ runToken'[j] = None /\ jobStatus'[j] = FinalStatus(j, b)
                     \/ ~(Owns(x) /\ j = runJob[x]) /\ runToken'[j] = runToken[j] /\ jobStatus'[j] = jobStatus[j]
  BY <1>2, <1>3 DEF Owns
<1>7. TokenStatus'
  BY <1>6 DEF IInv, TokenStatus
<1>8. \A y \in Run \ {x} : phase'[y] = phase[y]
  BY <1>1, <1>2
<1>9. phase'[x] = "done"
  BY <1>1, <1>2
<1>10. RunsHold'
  <2> SUFFICES ASSUME NEW y \in Run, phase'[y] \in {"loading", "working"}
               PROVE  up' /\ runJob'[y] \in Job /\ (runToken'[runJob'[y]] = y \/ jobStatus'[runJob'[y]] = "gone")
    BY DEF RunsHold
  <2>1. y # x /\ phase[y] \in {"loading", "working"} /\ runJob'[y] = runJob[y]
    BY <1>1, <1>8, <1>9
  <2>2. runJob[y] \in Job /\ (runToken[runJob[y]] = y \/ jobStatus[runJob[y]] = "gone")
    BY <2>1 DEF IInv, RunsHold
  <2>3. ~(Owns(x) /\ runJob[y] = runJob[x])
    BY <1>4, <2>1, <2>2 DEF Owns
  <2> QED BY <1>1, <1>6, <2>1, <2>2, <2>3
<1>11. GoneTogether'
  <2>1. \A r \in Record : JobOf[r] \in Job /\ (recordStatus[r] = "gone" <=> jobStatus[JobOf[r]] = "gone")
    BY <1>0 DEF IInv, GoneTogether
  <2>2. \A j \in Job : jobStatus'[j] = "gone" <=> jobStatus[j] = "gone"
    BY <1>4, <1>5, <1>6
  <2> QED BY <1>1, <2>1, <2>2 DEF GoneTogether
<1>12. StagesBelong' /\ QueuesBelong'
  BY <1>1, <1>8, <1>9 DEF IInv, StagesBelong, QueuesBelong
<1>13. AbortIsFlagged'
  <2> SUFFICES ASSUME NEW y \in Run
               PROVE  /\ phase'[y] = "unused" => ~aborted'[y]
                      /\ Owns(y)' => (aborted'[y] <=> cancelRequested'[runJob'[y]])
    BY DEF AbortIsFlagged
  <2>1. /\ phase[y] = "unused" => ~aborted[y]
        /\ Owns(y) => (aborted[y] <=> cancelRequested[runJob[y]])
    BY DEF IInv, AbortIsFlagged
  <2>2. Owns(y)' => Owns(y)
    BY <1>1, <1>6, RunAssumption DEF Owns
  <2> QED BY <1>1, <1>8, <1>9, <2>1, <2>2
<1>14. LockIsLive'
  <2> SUFFICES ASSUME NEW j \in Job, runToken'[j] # None
               PROVE  runToken'[j] \in Run /\ phase'[runToken'[j]] \in {"loading", "working"} /\ runJob'[runToken'[j]] = j
    BY DEF LockIsLive
  <2>1. runToken'[j] = runToken[j] /\ ~(Owns(x) /\ j = runJob[x])
    BY <1>6
  <2>2. runToken[j] \in Run /\ phase[runToken[j]] \in {"loading", "working"} /\ runJob[runToken[j]] = j
    BY <2>1 DEF IInv, LockIsLive
  <2>3. runToken[j] # x
    BY <2>1, <2>2 DEF Owns
  <2> QED BY <1>1, <1>8, <2>1, <2>2, <2>3
<1>15. ProcessingIsOwned'
  <2> SUFFICES ASSUME NEW r \in Record, recordStatus'[r] = "processing"
               PROVE  runToken'[JobOf[r]] \in Run /\ stage'[runToken'[JobOf[r]]][r] = "analyzing"
    BY DEF ProcessingIsOwned
  <2>1. runToken[JobOf[r]] \in Run /\ stage[runToken[JobOf[r]]][r] = "analyzing"
    BY <1>1 DEF IInv, ProcessingIsOwned
  <2>2. JobOf[r] \in Job /\ ~(Owns(x) /\ JobOf[r] = runJob[x])
    BY <1>0, <2>1 DEF Owns
  <2> QED BY <1>1, <1>6, <2>1, <2>2
<1>16. CompletedIsSettled'
  <2> SUFFICES ASSUME NEW r \in Record, jobStatus'[JobOf[r]] = "completed"
               PROVE  recordStatus'[r] \in {"absent", "pending", "completed", "needs_review"}
    BY DEF CompletedIsSettled
  <2> DEFINE j == JobOf[r]
  <2>0. j \in Job
    BY <1>0, RecordAssumption
  <2>1. CASE jobStatus[j] = "completed"
    BY <1>1, <2>1 DEF IInv, CompletedIsSettled
  <2>2. CASE jobStatus[j] # "completed"
    <3>1. Owns(x) /\ j = runJob[x] /\ FinalStatus(runJob[x], b) = "completed"
      BY <1>6, <2>0, <2>2
    <3>2. r \in RecordsOf(j) => recordStatus[r] \notin {"failed", "pending", "processing"}
      BY <1>5, <3>1
    <3>3. recordStatus[r] = "absent" \/ r \in RecordsOf(j)
      BY DEF RecordsOf, AllOf
    <3>4. recordStatus[r] # "gone"
      BY <1>4, <3>1 DEF IInv, GoneTogether
    <3>5. recordStatus[r] \in RecordStatus
      BY <1>0 DEF TypeOK
    <3> QED BY <1>1, <3>2, <3>3, <3>4, <3>5 DEF RecordStatus
  <2> QED BY <2>1, <2>2
<1>17. ResultHasConversation'
  BY <1>1 DEF IInv, ResultHasConversation
<1> QED BY <1>7, <1>10, <1>11, <1>12, <1>13, <1>14, <1>15, <1>16, <1>17 DEF IInv

LEMMA InvFinish ==
  ASSUME IInv, NEW x \in Run, FinishBatch(x) \/ FinishSingle(x)
  PROVE  IInv'
<1>0. TypeOK /\ TypeOK'
  BY TypeRunStep DEF IInv, RunStep
<1>1. CASE FinishBatch(x)
  <2>1. up /\ phase[x] = "loading" /\ Release(x, FALSE)
    BY <1>1 DEF FinishBatch
  <2> QED BY <1>0, <2>1, LoadingIsIdle, InvRelease
<1>2. CASE FinishSingle(x)
  <2>1. up /\ phase[x] = "working" /\ Release(x, threw[x])
    BY <1>2 DEF FinishSingle
  <2>2. threw[x] \in BOOLEAN
    BY <1>0 DEF TypeOK
  <2>3. queue[x] = {}
    BY <1>2 DEF FinishSingle, IInv, QueuesBelong
  <2>4. \A r \in Record : stage[x][r] = "none"
    BY <1>2 DEF FinishSingle, InFlight
  <2> QED BY <1>0, <2>1, <2>2, <2>3, <2>4, InvRelease
<1> QED BY <1>1, <1>2

LEMMA InvBatchComplete ==
  ASSUME IInv, NEW x \in Run, BatchComplete(x)
  PROVE  IInv'
<1>0. TypeOK /\ TypeOK'
  BY TypeRunStep DEF IInv, RunStep
<1>1. /\ UNCHANGED <<up, jobStatus, runToken, cancelRequested, recordStatus, hasConversation>>
      /\ UNCHANGED <<kind, runJob, explicit, queue, stage, aborted>>
  BY <1>0, BatchCompleteKeepsStatus DEF BatchComplete, processVars, recordVars
<1>2. /\ up /\ phase[x] = "working" /\ queue[x] = {}
      /\ phase' = [phase EXCEPT ![x] = IF Owns(x) THEN "loading" ELSE "done"]
  BY DEF BatchComplete
<1>3. \A r \in Record : stage[x][r] = "none"
  BY DEF BatchComplete, InFlight
<1>4. phase \in [Run -> {"unused", "loading", "working", "done"}]
  BY <1>0 DEF TypeOK
<1>5. /\ phase'[x] = IF Owns(x) THEN "loading" ELSE "done"
      /\ \A y \in Run \ {x} : phase'[y] = phase[y]
  BY <1>2, <1>4
<1>6. TokenStatus' /\ GoneTogether'
  BY <1>1 DEF IInv, TokenStatus, GoneTogether
<1>7. RunsHold' /\ AbortIsFlagged'
  BY <1>1, <1>2, <1>5 DEF IInv, RunsHold, AbortIsFlagged, Owns
<1>8. LockIsLive'
  BY <1>1, <1>2, <1>5 DEF IInv, LockIsLive, Owns
<1>9. StagesBelong' /\ QueuesBelong'
  BY <1>1, <1>2, <1>3, <1>5 DEF IInv, StagesBelong, QueuesBelong
<1>10. ProcessingIsOwned' /\ CompletedIsSettled' /\ ResultHasConversation'
  BY <1>1 DEF IInv, ProcessingIsOwned, CompletedIsSettled, ResultHasConversation, RecordsOf, AllOf
<1> QED BY <1>0, <1>6, <1>7, <1>8, <1>9, <1>10 DEF IInv

LEMMA InvRunStep ==
  ASSUME IInv, NEW x \in Run, RunStep(x)
  PROVE  IInv'
BY InvLoadBatch, InvDropBatch, InvBatchComplete, InvFinish, InvTakeItem, InvBeginRecord,
   InvRecordDone, InvRecordThrows, InvRecordAborted DEF RunStep, RecordStep

-----------------------------------------------------------------------------
(* Operators, crash and recovery *)

\* A request that changes one job's status or cancel flag, and no run's memory
\* but the abort signal.
LEMMA JobChangeKeeps ==
  ASSUME IInv, TypeOK', NEW j \in Job, up,
         UNCHANGED <<up, runToken, recordStatus, hasConversation, phase, kind, runJob, explicit, queue, stage>>,
         \A k \in Job \ {j} : jobStatus'[k] = jobStatus[k] /\ cancelRequested'[k] = cancelRequested[k],
         jobStatus'[j] = jobStatus[j] \/ (jobStatus[j] # "gone" /\ jobStatus'[j] \in {"paused", "cancelled"}),
         \A x \in Run : x # runToken[j] => (aborted'[x] <=> aborted[x]),
         runToken[j] # None => \/ cancelRequested'[j] /\ aborted'[runToken[j]]
                               \/ cancelRequested'[j] = cancelRequested[j] /\ aborted' = aborted
  PROVE  IInv'
<1>0. TypeOK /\ JobOf \in [Record -> Job]
  BY RecordAssumption DEF IInv
<1>1. TokenStatus' /\ RunsHold'
  BY DEF IInv, TokenStatus, RunsHold
<1>2. StagesBelong' /\ QueuesBelong' /\ LockIsLive' /\ ProcessingIsOwned' /\ ResultHasConversation'
  BY DEF IInv, StagesBelong, QueuesBelong, LockIsLive, ProcessingIsOwned, ResultHasConversation
<1>3. GoneTogether'
  BY <1>0 DEF IInv, GoneTogether
<1>4. CompletedIsSettled'
  <2> SUFFICES ASSUME NEW r \in Record, jobStatus'[JobOf[r]] = "completed"
               PROVE  recordStatus[r] \in {"absent", "pending", "completed", "needs_review"}
    BY DEF CompletedIsSettled
  <2>1. JobOf[r] \in Job
    BY <1>0
  <2>2. jobStatus[JobOf[r]] = "completed"
    BY <2>1
  <2> QED BY <2>2 DEF IInv, CompletedIsSettled
<1>5. AbortIsFlagged'
  <2> SUFFICES ASSUME NEW x \in Run
               PROVE  /\ phase[x] = "unused" => ~aborted'[x]
                      /\ Owns(x) => (aborted'[x] <=> cancelRequested'[runJob[x]])
    BY DEF AbortIsFlagged, Owns
  <2>1. /\ phase[x] = "unused" => ~aborted[x]
        /\ Owns(x) => (aborted[x] <=> cancelRequested[runJob[x]])
    BY DEF IInv, AbortIsFlagged
  <2>2. CASE x # runToken[j]
    BY <2>1, <2>2 DEF Owns
  <2>3. CASE x = runToken[j]
    <3>1. runToken[j] # None
      BY <2>3, RunAssumption
    <3>2. phase[x] \in {"loading", "working"} /\ runJob[x] = j
      BY <2>3, <3>1 DEF IInv, LockIsLive
    <3> QED BY <2>1, <2>3, <3>1, <3>2 DEF Owns
  <2> QED BY <2>2, <2>3
<1> QED BY <1>1, <1>2, <1>3, <1>4, <1>5 DEF IInv

LEMMA InvRequests ==
  ASSUME IInv, NEW j \in Job, StartGivesUp(j) \/ RequestPause(j) \/ RequestCancel(j)
  PROVE  IInv'
<1>0. TypeOK /\ TypeOK'
  BY TypeOthers DEF IInv, Operator
<1>1. CASE StartGivesUp(j)
  BY <1>0, <1>1, JobChangeKeeps DEF StartGivesUp, Free, Startable, processVars, runVars, TypeOK
<1>2. CASE RequestPause(j)
  BY <1>0, <1>2, JobChangeKeeps DEF RequestPause, processVars, recordVars, runVars, TypeOK
<1>3. CASE RequestCancel(j)
  <2>1. UNCHANGED <<up, runToken, recordStatus, hasConversation, phase, kind, runJob, explicit, queue, stage>>
    BY <1>3 DEF RequestCancel, processVars, recordVars
  <2>2. \A k \in Job \ {j} : jobStatus'[k] = jobStatus[k] /\ cancelRequested'[k] = cancelRequested[k]
    BY <1>0, <1>3 DEF RequestCancel, TypeOK
  <2>3. jobStatus[j] # "gone" /\ jobStatus'[j] = "cancelled" /\ cancelRequested'[j]
    BY <1>0, <1>3 DEF RequestCancel, TypeOK
  <2>4. \A x \in Run : aborted'[x] <=> (aborted[x] \/ x = runToken[j])
    BY <1>3 DEF RequestCancel
  <2>5. runToken[j] # None => aborted'[runToken[j]]
    BY <1>0, <2>4 DEF TypeOK
  <2>6. up
    BY <1>3 DEF RequestCancel
  <2> QED BY <1>0, <2>1, <2>2, <2>3, <2>4, <2>5, <2>6, JobChangeKeeps
<1> QED BY <1>1, <1>2, <1>3

LEMMA InvDeleteJob ==
  ASSUME IInv, NEW j \in Job, DeleteJob(j)
  PROVE  IInv'
<1>0. TypeOK /\ TypeOK' /\ JobOf \in [Record -> Job]
  BY TypeOthers, RecordAssumption DEF IInv, Operator
<1>1. UNCHANGED <<up, cancelRequested, hasConversation, phase, kind, runJob, explicit, queue, stage, aborted>>
  BY DEF DeleteJob, processVars, runVars
<1>2. /\ jobStatus'[j] = "gone" /\ runToken'[j] = None
      /\ \A k \in Job \ {j} : jobStatus'[k] = jobStatus[k] /\ runToken'[k] = runToken[k]
      /\ \A r \in Record : recordStatus'[r] = IF JobOf[r] = j THEN "gone" ELSE recordStatus[r]
  BY <1>0 DEF DeleteJob, TypeOK
<1>3. TokenStatus' /\ RunsHold' /\ LockIsLive'
  BY <1>1, <1>2 DEF IInv, TokenStatus, RunsHold, LockIsLive
<1>4. AbortIsFlagged'
  BY <1>1, <1>2, RunAssumption DEF IInv, AbortIsFlagged, Owns
<1>5. StagesBelong' /\ QueuesBelong'
  BY <1>1 DEF IInv, StagesBelong, QueuesBelong
<1>6. GoneTogether' /\ ResultHasConversation' /\ CompletedIsSettled'
  BY <1>0, <1>1, <1>2 DEF IInv, GoneTogether, ResultHasConversation, CompletedIsSettled, RecordsOf, AllOf
<1>7. ProcessingIsOwned'
  BY <1>0, <1>1, <1>2 DEF IInv, ProcessingIsOwned
<1> QED BY <1>0, <1>3, <1>4, <1>5, <1>6, <1>7 DEF IInv

\* The records of a job come while no run holds it.
LEMMA InvAddRecords ==
  ASSUME IInv, NEW j \in Job, AddRecords(j)
  PROVE  IInv'
<1>0. TypeOK /\ TypeOK' /\ JobOf \in [Record -> Job]
  BY TypeOthers, RecordAssumption DEF IInv, Operator
<1>1. UNCHANGED <<up, jobStatus, runToken, cancelRequested, hasConversation, phase, kind, runJob, explicit, queue, stage, aborted>>
  BY DEF AddRecords, processVars, jobVars, runVars
<1>2. \A r \in Record : recordStatus'[r] = recordStatus[r] \/ (recordStatus[r] = "absent" /\ recordStatus'[r] = "pending")
  BY <1>0 DEF AddRecords, TypeOK
<1>3. TokenStatus' /\ RunsHold' /\ LockIsLive' /\ AbortIsFlagged' /\ StagesBelong' /\ QueuesBelong'
  BY <1>1 DEF IInv, TokenStatus, RunsHold, LockIsLive, AbortIsFlagged, Owns, StagesBelong, QueuesBelong
<1>4. GoneTogether' /\ ResultHasConversation' /\ CompletedIsSettled' /\ ProcessingIsOwned'
  BY <1>1, <1>2 DEF IInv, GoneTogether, ResultHasConversation, CompletedIsSettled, ProcessingIsOwned
<1> QED BY <1>0, <1>3, <1>4 DEF IInv

LEMMA InvConfirmReview ==
  ASSUME IInv, NEW r \in Record, ConfirmReview(r)
  PROVE  IInv'
<1>0. TypeOK /\ TypeOK' /\ JobOf \in [Record -> Job]
  BY TypeOthers, RecordAssumption DEF IInv, Operator
<1>1. UNCHANGED <<up, jobStatus, runToken, cancelRequested, phase, kind, runJob, explicit, queue, stage, aborted>>
  BY DEF ConfirmReview, processVars, jobVars, runVars
<1>2. /\ recordStatus'[r] = "completed" /\ hasConversation'[r]
      /\ recordStatus[r] # "gone"
      /\ \A q \in Record \ {r} : recordStatus'[q] = recordStatus[q] /\ hasConversation'[q] = hasConversation[q]
  BY <1>0 DEF ConfirmReview, TypeOK
<1>3. TokenStatus' /\ RunsHold' /\ LockIsLive' /\ AbortIsFlagged' /\ StagesBelong' /\ QueuesBelong'
  BY <1>1 DEF IInv, TokenStatus, RunsHold, LockIsLive, AbortIsFlagged, Owns, StagesBelong, QueuesBelong
<1>4. GoneTogether' /\ ResultHasConversation' /\ CompletedIsSettled' /\ ProcessingIsOwned'
  BY <1>1, <1>2 DEF IInv, GoneTogether, ResultHasConversation, CompletedIsSettled, ProcessingIsOwned, RecordsOf, AllOf
<1> QED BY <1>0, <1>3, <1>4 DEF IInv

LEMMA InvCrash ==
  ASSUME IInv, Crash
  PROVE  IInv'
<1>0. TypeOK /\ TypeOK'
  BY TypeOthers DEF IInv
<1>1. /\ UNCHANGED <<jobStatus, runToken, cancelRequested, recordStatus, hasConversation, kind, runJob, explicit, aborted>>
      /\ up' = FALSE
  BY DEF Crash, jobVars, recordVars
<1>2. /\ \A x \in Run : phase'[x] = IF phase[x] = "unused" THEN "unused" ELSE "done"
      /\ \A x \in Run : queue'[x] = {}
      /\ \A x \in Run, r \in Record : stage'[x][r] = "none"
  BY DEF Crash
<1>3. TokenStatus' /\ RunsHold' /\ LockIsLive' /\ ProcessingIsOwned'
  BY <1>1, <1>2 DEF IInv, TokenStatus, RunsHold, LockIsLive, ProcessingIsOwned
<1>4. AbortIsFlagged' /\ StagesBelong' /\ QueuesBelong'
  BY <1>1, <1>2 DEF IInv, AbortIsFlagged, Owns, StagesBelong, QueuesBelong
<1>5. GoneTogether' /\ ResultHasConversation' /\ CompletedIsSettled'
  BY <1>1 DEF IInv, GoneTogether, ResultHasConversation, CompletedIsSettled, RecordsOf, AllOf
<1> QED BY <1>0, <1>3, <1>4, <1>5 DEF IInv

LEMMA InvRestart ==
  ASSUME IInv, Restart
  PROVE  IInv'
<1>0. TypeOK /\ TypeOK' /\ JobOf \in [Record -> Job]
  BY TypeOthers, RecordAssumption DEF IInv
<1>1. UNCHANGED <<cancelRequested, hasConversation, phase, kind, runJob, explicit, queue, stage, aborted>>
  BY DEF Restart, runVars
<1>2. /\ \A r \in Record : recordStatus'[r] = IF recordStatus[r] = "processing" THEN "failed" ELSE recordStatus[r]
      /\ \A j \in Job : runToken'[j] = None
      /\ \A j \in Job : jobStatus'[j] = IF jobStatus[j] = "processing" THEN "failed" ELSE jobStatus[j]
      /\ ~up
  BY DEF Restart
<1>3. TokenStatus' /\ LockIsLive' /\ RunsHold'
  BY <1>1, <1>2 DEF IInv, TokenStatus, LockIsLive, RunsHold
<1>4. StagesBelong' /\ QueuesBelong'
  BY <1>1 DEF IInv, StagesBelong, QueuesBelong
<1>5. AbortIsFlagged'
  BY <1>1, <1>2, RunAssumption DEF IInv, AbortIsFlagged, Owns
<1>6. GoneTogether' /\ ResultHasConversation' /\ CompletedIsSettled'
  BY <1>0, <1>1, <1>2 DEF IInv, GoneTogether, ResultHasConversation, CompletedIsSettled, RecordsOf, AllOf
<1>7. ProcessingIsOwned'
  BY <1>2 DEF ProcessingIsOwned
<1> QED BY <1>0, <1>3, <1>4, <1>5, <1>6, <1>7 DEF IInv

LEMMA InvStutter ==
  ASSUME IInv, UNCHANGED <<up, jobStatus, runToken, cancelRequested, recordStatus, hasConversation, phase,
                           kind, runJob, explicit, queue, stage, aborted>>, TypeOK'
  PROVE  IInv'
<1>1. TokenStatus' /\ RunsHold' /\ LockIsLive' /\ ProcessingIsOwned' /\ GoneTogether'
  BY DEF IInv, TokenStatus, RunsHold, LockIsLive, ProcessingIsOwned, GoneTogether
<1>2. AbortIsFlagged' /\ StagesBelong' /\ QueuesBelong'
  BY DEF IInv, AbortIsFlagged, Owns, StagesBelong, QueuesBelong
<1>3. ResultHasConversation' /\ CompletedIsSettled'
  BY DEF IInv, ResultHasConversation, CompletedIsSettled, RecordsOf, AllOf
<1> QED BY <1>1, <1>2, <1>3 DEF IInv

LEMMA InvNext == IInv /\ [Next]_vars => IInv'
<1> SUFFICES ASSUME IInv, [Next]_vars PROVE IInv'
  OBVIOUS
<1>1. ASSUME NEW j \in Job, BindPlatform(j) PROVE IInv'
  <2>1. TypeOK'
    BY <1>1, TypeOthers DEF IInv, Operator
  <2> QED BY <1>1, <2>1, InvStutter DEF BindPlatform, processVars, jobVars, recordVars, runVars
<1>2. CASE UNCHANGED vars
  <2>1. TypeOK'
    BY <1>2, TypeOthers DEF IInv
  <2> QED BY <1>2, <2>1, InvStutter DEF vars, processVars, jobVars, recordVars, runVars
<1>3. CASE Operator
  BY <1>1, <1>3, InvRequests, InvDeleteJob, InvConfirmReview, InvAddRecords DEF Operator
<1> QED BY <1>2, <1>3, InvStart, InvRunStep, InvCrash, InvRestart DEF Next

\* The inductive invariant holds in every reachable state.
THEOREM InvCorrect == Spec => []IInv
BY InvInit, InvNext, PTL DEF Spec

\* No record is ever stuck in "processing" without a run working on it.
THEOREM ProcessingOwned == Spec => []ProcessingIsOwned
<1>1. IInv => ProcessingIsOwned
  BY DEF IInv
<1> QED BY InvCorrect, <1>1, PTL

\* No job's lock leaks: whoever holds it is a live run of that job.
THEOREM LockLive == Spec => []LockIsLive
<1>1. IInv => LockIsLive
  BY DEF IInv
<1> QED BY InvCorrect, <1>1, PTL

\* A shown result always has its conversation id.
THEOREM ResultConversation == Spec => []ResultHasConversation
<1>1. IInv => ResultHasConversation
  BY DEF IInv
<1> QED BY InvCorrect, <1>1, PTL

----------------------------------------------------------------------------
(* What a step may never do, and that JobRun implements JobFence. *)

\* No record has or gets a result taken away while its job says "completed".
LEMMA PendingUnderCompleted ==
  ASSUME IInv, [Next]_vars, NEW r \in Record,
         jobStatus[JobOf[r]] = "completed", recordStatus'[r] = "pending", jobStatus'[JobOf[r]] = "completed"
  PROVE  recordStatus[r] \in {"absent", "pending"}
<1>0. TypeOK /\ JobOf \in [Record -> Job] /\ JobOf[r] \in Job
  BY RecordAssumption DEF IInv
<1>1. recordStatus[r] \in {"absent", "pending", "completed", "needs_review"}
  BY DEF IInv, CompletedIsSettled
<1>2. ASSUME NEW x \in Run, Start(x)
      PROVE  recordStatus[r] \in {"absent", "pending"}
  BY <1>1, <1>2 DEF Start, AnalyzeJob, AnalyzeTargeted, RetryFailed, AnalyzeRecord, AnalyzeField, FailedOf
<1>3. ASSUME NEW x \in Run, NEW q \in Record, RecordStep(x, q)
      PROVE  recordStatus[r] \in {"absent", "pending"}
  <2>1. CASE recordStatus'[r] = recordStatus[r]
    BY <2>1
  <2>2. CASE recordStatus'[r] # recordStatus[r]
    <3>1. stage[x][q] # "none" /\ q = r /\ Owns(x)
      BY <1>0, <1>3, <2>2 DEF RecordStep, TakeItem, BeginRecord, RecordDone, RecordThrows, RecordAborted,
         Settles, recordVars, TypeOK
    <3>2. runJob[x] = JobOf[r]
      BY <3>1, HandsBelong
    <3>3. jobStatus[JobOf[r]] \in {"processing", "paused", "cancelled"}
      BY <1>0, <3>1, <3>2, RunAssumption DEF Owns, IInv, TokenStatus
    <3> QED BY <3>3
  <2> QED BY <2>1, <2>2
<1>4. ASSUME NEW x \in Run, RunStep(x)
      PROVE  recordStatus[r] \in {"absent", "pending"}
  BY <1>3, <1>4 DEF RunStep, LoadBatch, DropBatch, BatchComplete, FinishBatch, FinishSingle, Release, recordVars
<1>5. CASE Operator
  BY <1>0, <1>5 DEF Operator, StartGivesUp, RequestPause, RequestCancel, DeleteJob, BindPlatform, ConfirmReview,
     AddRecords, recordVars, TypeOK
<1>6. CASE Crash \/ Restart \/ UNCHANGED vars
  BY <1>6 DEF Crash, Restart, vars, recordVars
<1> QED BY <1>2, <1>4, <1>5, <1>6 DEF Next

\* The step that makes a job say "completed" is the final status of a run that
\* finds nothing waiting.
LEMMA ComesToComplete ==
  ASSUME IInv, [Next]_vars, NEW r \in Record,
         jobStatus[JobOf[r]] # "completed", jobStatus'[JobOf[r]] = "completed"
  PROVE  recordStatus'[r] \notin {"pending", "processing", "failed"}
<1>0. TypeOK /\ JobOf \in [Record -> Job] /\ JobOf[r] \in Job
  BY RecordAssumption DEF IInv
<1>1. ASSUME NEW x \in Run, NEW b \in BOOLEAN, Release(x, b)
      PROVE  recordStatus'[r] \notin {"pending", "processing", "failed"}
  <2>1. runJob[x] = JobOf[r] /\ FinalStatus(runJob[x], b) = "completed" /\ recordStatus' = recordStatus
    BY <1>0, <1>1 DEF Release, TypeOK, recordVars, Owns
  <2>2. jobStatus[JobOf[r]] \notin {"cancelled", "paused"}
    BY <2>1 DEF FinalStatus
  <2>3. \A q \in RecordsOf(runJob[x]) : recordStatus[q] \notin {"pending", "processing", "failed"}
    BY <2>1, <2>2 DEF FinalStatus
  <2> QED BY <2>1, <2>3 DEF RecordsOf, AllOf
<1>2. ASSUME NEW x \in Run, Start(x)
      PROVE  FALSE
  BY <1>0, <1>2 DEF Start, AnalyzeJob, AnalyzeTargeted, RetryFailed, AnalyzeRecord, AnalyzeField, Acquire, TypeOK
<1>3. ASSUME NEW x \in Run, RunStep(x)
      PROVE  recordStatus'[r] \notin {"pending", "processing", "failed"}
  <2>1. CASE BatchComplete(x)
    BY <1>0, <2>1, BatchCompleteKeepsStatus
  <2>2. CASE FinishBatch(x) \/ FinishSingle(x)
    BY <1>0, <1>1, <2>2 DEF FinishBatch, FinishSingle, TypeOK
  <2> QED BY <1>3, <2>1, <2>2 DEF RunStep, LoadBatch, DropBatch, RecordStep, TakeItem, BeginRecord, RecordDone,
             RecordThrows, RecordAborted, jobVars
<1>4. CASE Operator
  BY <1>0, <1>4 DEF Operator, StartGivesUp, RequestPause, RequestCancel, DeleteJob, BindPlatform, ConfirmReview,
     AddRecords, jobVars, TypeOK
<1>5. CASE Crash \/ Restart \/ UNCHANGED vars
  BY <1>0, <1>5 DEF Crash, Restart, vars, jobVars, TypeOK
<1> QED BY <1>2, <1>3, <1>4, <1>5 DEF Next

\* A job comes to say "completed" only over records that all have results, and
\* under it none loses its result; what waits there came after, from the import.
THEOREM CompletedComplete == Spec => CompletedIsComplete
<1>1. IInv /\ [Next]_vars => CompletesWhatIsThere
  <2> SUFFICES ASSUME IInv, [Next]_vars, NEW r \in Record, WaitsUnderCompleted(r)
               PROVE  /\ jobStatus[JobOf[r]] = "completed"
                      /\ recordStatus[r] \in {"absent", "pending"} /\ recordStatus'[r] = "pending"
    BY DEF CompletesWhatIsThere
  <2>1. recordStatus'[r] \in {"pending", "processing", "failed"} /\ jobStatus'[JobOf[r]] = "completed"
    BY DEF WaitsUnderCompleted
  <2>2. jobStatus[JobOf[r]] = "completed"
    BY <2>1, ComesToComplete
  <2>3. recordStatus'[r] = "pending"
    BY <2>1, InvNext DEF IInv, CompletedIsSettled
  <2> QED BY <2>1, <2>2, <2>3, PendingUnderCompleted
<1> QED BY InvCorrect, <1>1, PTL DEF Spec, CompletedIsComplete

\* A live run that still matters: it holds its job's lock, or the job is gone.
LEMMA HolderStatus ==
  ASSUME IInv, NEW j \in Job, runToken[j] # None
  PROVE  jobStatus[j] \in {"processing", "paused", "cancelled"}
BY DEF IInv, TokenStatus

LEMMA StartKeepsStop ==
  ASSUME IInv, NEW x \in Run, Start(x)
  PROVE  \A j \in Job : runToken[j] # None => jobStatus'[j] = jobStatus[j]
<1>0. TypeOK /\ JobOf \in [Record -> Job]
  BY RecordAssumption DEF IInv
<1>1. \E k \in Job : Acquire(x, k)
  BY <1>0 DEF Start, AnalyzeJob, AnalyzeTargeted, RetryFailed, AnalyzeRecord, AnalyzeField
<1> QED BY <1>0, <1>1 DEF Acquire, Free, TypeOK

LEMMA RunStepKeepsStop ==
  ASSUME IInv, NEW x \in Run, RunStep(x)
  PROVE  \A j \in Job : jobStatus[j] \in {"paused", "cancelled"} => jobStatus'[j] = jobStatus[j]
<1>0. TypeOK
  BY DEF IInv
<1>1. ASSUME NEW b \in BOOLEAN, Release(x, b)
      PROVE  \A j \in Job : jobStatus[j] \in {"paused", "cancelled"} => jobStatus'[j] = jobStatus[j]
  BY <1>0, <1>1 DEF Release, FinalStatus, Owns, TypeOK
<1>2. CASE FinishBatch(x)
  BY <1>1, <1>2 DEF FinishBatch
<1>3. CASE FinishSingle(x)
  BY <1>0, <1>1, <1>3 DEF FinishSingle, TypeOK
<1>4. CASE BatchComplete(x)
  BY <1>0, <1>4, BatchCompleteKeepsStatus
<1>5. CASE LoadBatch(x) \/ DropBatch(x) \/ \E r \in Record : RecordStep(x, r)
  BY <1>5 DEF LoadBatch, DropBatch, RecordStep, TakeItem, BeginRecord, RecordDone, RecordThrows,
              RecordAborted, jobVars
<1> QED BY <1>2, <1>3, <1>4, <1>5 DEF RunStep

\* An operator's pause or cancellation of a running job stands.
THEOREM StopStands == Spec => OperatorStopStands
<1>1. IInv /\ [Next]_vars => KeepsStop
  <2> SUFFICES ASSUME IInv, [Next]_vars,
                      NEW j \in Job, jobStatus[j] \in {"paused", "cancelled"}, runToken[j] # None
               PROVE  \/ jobStatus'[j] \in {jobStatus[j], "gone"}
                      \/ jobStatus[j] = "paused" /\ jobStatus'[j] = "cancelled"
    BY DEF KeepsStop
  <2>0. TypeOK
    BY DEF IInv
  <2>1. ASSUME NEW k \in Job, StartGivesUp(k) \/ RequestPause(k) \/ RequestCancel(k) \/ DeleteJob(k) \/ BindPlatform(k)
        PROVE  \/ jobStatus'[j] \in {jobStatus[j], "gone"}
               \/ jobStatus[j] = "paused" /\ jobStatus'[j] = "cancelled"
    BY <2>0, <2>1 DEF StartGivesUp, RequestPause, RequestCancel, DeleteJob, BindPlatform, jobVars, TypeOK
  <2>2. CASE Operator
    BY <2>1, <2>2 DEF Operator, ConfirmReview, AddRecords, jobVars
  <2>3. CASE Crash \/ Restart \/ UNCHANGED vars
    BY <2>3 DEF Crash, Restart, vars, jobVars
  <2> QED BY <2>2, <2>3, StartKeepsStop, RunStepKeepsStop DEF Next
<1> QED BY InvCorrect, <1>1, PTL DEF Spec, OperatorStopStands

\* After a pause or a cancellation no run takes up a further record.
THEOREM StopAdmits == Spec => StopAdmitsNoRecord
<1>1. IInv /\ [Next]_vars => BeginsWhileRunning
  <2> SUFFICES ASSUME IInv, [Next]_vars,
                      NEW x \in Run, NEW r \in Record, stage[x][r] = "none", stage'[x][r] # "none"
               PROVE  jobStatus'[JobOf[r]] = "processing"
    BY DEF BeginsWhileRunning
  <2>0. TypeOK /\ JobOf \in [Record -> Job]
    BY RecordAssumption DEF IInv
  <2>1. ASSUME NEW y \in Run, NEW q \in Record, AnalyzeRecord(y, q) \/ AnalyzeField(y, q)
        PROVE  jobStatus'[JobOf[r]] = "processing"
    <3>1. Acquire(y, JobOf[q]) /\ \E s \in {"claimed", "analyzing"} : stage' = [stage EXCEPT ![y][q] = s]
      BY <2>1 DEF AnalyzeRecord, AnalyzeField
    <3>2. q = r
      BY <2>0, <3>1 DEF TypeOK
    <3> QED BY <2>0, <3>1, <3>2 DEF Acquire, Free, TypeOK
  <2>2. ASSUME NEW y \in Run, NEW q \in Record, TakeItem(y, q)
        PROVE  jobStatus'[JobOf[r]] = "processing"
    <3>1. x = y /\ r = q
      BY <2>0, <2>2 DEF TakeItem, TypeOK
    <3>2. r \in queue[x] /\ Owns(x) /\ ~ShouldStop(runJob[x]) /\ jobStatus' = jobStatus
      BY <2>2, <3>1 DEF TakeItem, jobVars
    <3>3. runJob[x] = JobOf[r]
      BY <3>2 DEF IInv, QueuesBelong
    <3>4. jobStatus[JobOf[r]] \in {"processing", "paused", "cancelled"}
      BY <3>2, <3>3, HolderStatus, RunAssumption DEF Owns
    <3> QED BY <3>2, <3>3, <3>4 DEF ShouldStop
  <2>3. ASSUME NEW y \in Run, NEW q \in Record, RecordStep(y, q)
        PROVE  jobStatus'[JobOf[r]] = "processing"
    <3>1. CASE TakeItem(y, q)
      BY <2>2, <3>1
    <3>2. CASE ~TakeItem(y, q)
      <4>1. stage[y][q] # "none" /\ \E s \in {"none", "analyzing"} : stage' = [stage EXCEPT ![y][q] = s]
        BY <2>3, <3>2 DEF RecordStep, BeginRecord, RecordDone, RecordThrows, RecordAborted
      <4> QED BY <2>0, <4>1 DEF TypeOK
    <3> QED BY <3>1, <3>2
  <2>4. ASSUME NEW y \in Run, RunStep(y)
        PROVE  jobStatus'[JobOf[r]] = "processing"
    BY <2>3, <2>4 DEF RunStep, LoadBatch, DropBatch, BatchComplete, FinishBatch, FinishSingle, Release
  <2>5. ASSUME NEW y \in Run, Start(y)
        PROVE  jobStatus'[JobOf[r]] = "processing"
    BY <2>1, <2>5 DEF Start, AnalyzeJob, AnalyzeTargeted, RetryFailed
  <2>6. CASE Operator
    BY <2>6 DEF Operator, StartGivesUp, RequestPause, RequestCancel, DeleteJob, BindPlatform, ConfirmReview, AddRecords, runVars
  <2>7. CASE Crash \/ Restart \/ UNCHANGED vars
    BY <2>7 DEF Crash, Restart, vars, runVars
  <2> QED BY <2>4, <2>5, <2>6, <2>7 DEF Next
<1> QED BY InvCorrect, <1>1, PTL DEF Spec, StopAdmitsNoRecord

\* A cancelled run settles what it had in flight as not done, never as failed.
THEOREM CancelSettles == Spec => CancelNeverFailsRecords
<1>1. IInv /\ [Next]_vars => SettlesAsNotDone
  <2> SUFFICES ASSUME IInv, [Next]_vars,
                      NEW r \in Record, up, cancelRequested[JobOf[r]],
                      recordStatus[r] = "processing", recordStatus'[r] # "processing"
               PROVE  recordStatus'[r] \in {"pending", "gone"}
    BY DEF SettlesAsNotDone
  <2>0. TypeOK /\ JobOf \in [Record -> Job]
    BY RecordAssumption DEF IInv
  <2>1. ASSUME NEW x \in Run, Owns(x), runJob[x] = JobOf[r]
        PROVE  aborted[x]
    BY <2>1 DEF IInv, AbortIsFlagged
  <2>2. ASSUME NEW x \in Run, NEW q \in Record, RecordStep(x, q)
        PROVE  recordStatus'[r] = "pending"
    <3>1. CASE TakeItem(x, q)
      BY <3>1 DEF TakeItem, recordVars
    <3>2. CASE BeginRecord(x, q)
      BY <2>0, <3>2 DEF BeginRecord, TypeOK
    <3>3. ASSUME NEW outcome \in Outcomes(x), RecordDone(x, q, outcome)
          PROVE  FALSE
      <4>1. q = r /\ Owns(x) /\ ~aborted[x] /\ stage[x][q] # "none"
        BY <2>0, <3>3 DEF RecordDone, ConversationAfter, TypeOK
      <4> QED BY <2>1, <4>1, HandsBelong
    <3>4. CASE RecordThrows(x, q)
      <4>1. q = r /\ Owns(x) /\ ~aborted[x] /\ stage[x][q] # "none"
        BY <2>0, <3>4 DEF RecordThrows, TypeOK
      <4> QED BY <2>1, <4>1, HandsBelong
    <3>5. CASE RecordAborted(x, q)
      BY <2>0, <3>5 DEF RecordAborted, TypeOK
    <3> QED BY <2>2, <3>1, <3>2, <3>3, <3>4, <3>5 DEF RecordStep
  <2>3. ASSUME NEW x \in Run, RunStep(x)
        PROVE  recordStatus'[r] = "pending"
    BY <2>2, <2>3 DEF RunStep, LoadBatch, DropBatch, BatchComplete, FinishBatch, FinishSingle, Release, recordVars
  <2>4. ASSUME NEW x \in Run, Start(x)
        PROVE  FALSE
    BY <2>4 DEF Start, AnalyzeJob, AnalyzeTargeted, RetryFailed, FailedOf, AnalyzeRecord, AnalyzeField
  <2>5. ASSUME NEW j \in Job, DeleteJob(j)
        PROVE  recordStatus'[r] = "gone"
    BY <2>5 DEF DeleteJob
  <2>6. ASSUME NEW q \in Record, ConfirmReview(q)
        PROVE  FALSE
    BY <2>0, <2>6 DEF ConfirmReview, TypeOK
  <2>7. CASE Operator
    BY <2>5, <2>6, <2>7 DEF Operator, AddRecords, StartGivesUp, RequestPause, RequestCancel, BindPlatform, recordVars
  <2>8. CASE Crash \/ Restart \/ UNCHANGED vars
    BY <2>8 DEF Crash, Restart, vars, recordVars
  <2> QED BY <2>3, <2>4, <2>7, <2>8 DEF Next
<1> QED BY InvCorrect, <1>1, PTL DEF Spec, CancelNeverFailsRecords

\* Only a cancellation aborts a run, and only the run of the cancelled job.
THEOREM CancelAborts == Spec => OnlyCancelAborts
<1>1. IInv /\ [Next]_vars => AbortsByCancel
  <2> SUFFICES ASSUME IInv, [Next]_vars,
                      NEW x \in Run, ~aborted[x], aborted'[x]
               PROVE  /\ runJob[x] \in Job
                      /\ jobStatus'[runJob[x]] = "cancelled"
                      /\ cancelRequested'[runJob[x]]
    BY DEF AbortsByCancel
  <2>0. TypeOK
    BY DEF IInv
  <2>1. ASSUME NEW j \in Job, RequestCancel(j)
        PROVE  runJob[x] = j /\ jobStatus'[j] = "cancelled" /\ cancelRequested'[j]
    <3>1. x = runToken[j] /\ up
      BY <2>1 DEF RequestCancel
    <3>2. runJob[x] = j
      BY <3>1, RunAssumption DEF IInv, LockIsLive
    <3> QED BY <2>0, <2>1, <3>2 DEF RequestCancel, TypeOK
  <2>2. ASSUME NEW y \in Run, Start(y) \/ RunStep(y)
        PROVE  aborted' = aborted
    BY <2>2 DEF Start, AnalyzeJob, AnalyzeTargeted, RetryFailed, AnalyzeRecord, AnalyzeField, Acquire, Free,
         RunStep, LoadBatch, DropBatch, BatchComplete, FinishBatch, FinishSingle, Release, RecordStep,
         TakeItem, BeginRecord, RecordDone, RecordThrows, RecordAborted
  <2>3. CASE Operator
    BY <2>1, <2>3 DEF Operator, StartGivesUp, RequestPause, DeleteJob, BindPlatform, ConfirmReview, AddRecords, runVars
  <2>4. CASE Crash \/ Restart \/ UNCHANGED vars
    BY <2>4 DEF Crash, Restart, vars, runVars
  <2> QED BY <2>2, <2>3, <2>4 DEF Next
<1> QED BY InvCorrect, <1>1, PTL DEF Spec, OnlyCancelAborts

\* A conversation id is assigned with a result, and stays.
THEOREM ConversationStays == Spec => ConversationIsPermanent
<1>1. IInv /\ [Next]_vars => KeepsConversation
  <2> SUFFICES ASSUME IInv, [Next]_vars, NEW r \in Record
               PROVE  /\ hasConversation[r] => hasConversation'[r]
                      /\ (~hasConversation[r] /\ hasConversation'[r]) =>
                           recordStatus'[r] \in {"completed", "needs_review"}
    BY DEF KeepsConversation
  <2>0. TypeOK
    BY DEF IInv
  <2>1. ASSUME NEW x \in Run, NEW q \in Record, NEW outcome \in Outcomes(x), RecordDone(x, q, outcome)
        PROVE  /\ hasConversation[r] => hasConversation'[r]
               /\ (~hasConversation[r] /\ hasConversation'[r]) =>
                    recordStatus'[r] \in {"completed", "needs_review"}
    BY <2>0, <2>1 DEF RecordDone, ConversationAfter, TypeOK
  <2>2. ASSUME NEW q \in Record, ConfirmReview(q)
        PROVE  /\ hasConversation[r] => hasConversation'[r]
               /\ (~hasConversation[r] /\ hasConversation'[r]) =>
                    recordStatus'[r] \in {"completed", "needs_review"}
    BY <2>0, <2>2 DEF ConfirmReview, TypeOK
  <2>3. ASSUME NEW x \in Run, Start(x)
        PROVE  hasConversation' = hasConversation
    BY <2>3 DEF Start, AnalyzeJob, AnalyzeTargeted, RetryFailed, AnalyzeRecord, AnalyzeField, Acquire, Free
  <2>4. ASSUME NEW x \in Run, RunStep(x), hasConversation' # hasConversation
        PROVE  \E q \in Record, outcome \in Outcomes(x) : RecordDone(x, q, outcome)
    BY <2>4 DEF RunStep, LoadBatch, DropBatch, BatchComplete, FinishBatch, FinishSingle, Release, RecordStep,
         TakeItem, BeginRecord, RecordThrows, RecordAborted, recordVars
  <2>5. CASE Operator
    BY <2>2, <2>5 DEF Operator, AddRecords, StartGivesUp, RequestPause, RequestCancel, DeleteJob, BindPlatform, recordVars
  <2>6. CASE Crash \/ Restart \/ UNCHANGED vars
    BY <2>6 DEF Crash, Restart, vars, recordVars
  <2> QED BY <2>1, <2>3, <2>4, <2>5, <2>6 DEF Next
<1> QED BY InvCorrect, <1>1, PTL DEF Spec, ConversationIsPermanent

-----------------------------------------------------------------------------
(* A full batch run leaves nothing pending *)

\* Two live runs never work on the same job while one of them holds it.
LEMMA SeparateJobs ==
  ASSUME IInv, NEW x \in Run, NEW y \in Run \ {x}, Owns(x), phase[y] \in {"loading", "working"}
  PROVE  runJob[y] # runJob[x]
BY RunAssumption DEF IInv, RunsHold, TokenStatus, Owns

\* What has to be shown of a step for one run's cursor.
LEMMA PassedKeeps ==
  ASSUME CursorPassed, NEW y \in Run,
         phase'[y] = "unused" => phase[y] = "unused",
         cursor'[y] = cursor[y],
         (phase'[y] \in {"loading", "working"} /\ kind'[y] = "batch" /\ ~ShouldStop(runJob[y])') =>
           /\ phase[y] \in {"loading", "working"} /\ kind[y] = "batch"
           /\ runJob'[y] = runJob[y] /\ ~ShouldStop(runJob[y])
           /\ \A r \in AllOf(runJob[y]) : recordStatus'[r] = "pending" =>
                /\ recordStatus[r] = "pending"
                /\ r \in queue[y] => (r \in queue'[y] \/ stage'[y][r] # "none")
                /\ stage[y][r] # "none" => stage'[y][r] # "none"
  PROVE  PassedBy(y)'
<1>1. PassedBy(y)
  BY DEF CursorPassed
<1>2. phase'[y] = "unused" => cursor'[y] = 0
  BY <1>1 DEF PassedBy
<1>3. ASSUME phase'[y] \in {"loading", "working"}, kind'[y] = "batch", ~ShouldStop(runJob[y])',
             NEW r \in AllOf(runJob'[y]), r <= cursor'[y], recordStatus'[r] = "pending"
      PROVE  r \in queue'[y] \/ stage'[y][r] # "none"
  BY <1>1, <1>3 DEF PassedBy
<1> QED BY <1>2, <1>3 DEF PassedBy, RecordsOf, AllOf

LEMMA StartPasses ==
  ASSUME IInv, CursorPassed, NEW x \in Run, Start(x), NEW y \in Run
  PROVE  PassedBy(y)'
<1>0. TypeOK /\ JobOf \in [Record -> Job] /\ Record \subseteq Nat \ {0}
  BY RecordAssumption DEF IInv
<1>1. PICK j \in Job : Acquire(x, j)
  BY <1>0 DEF Start, AnalyzeJob, AnalyzeTargeted, RetryFailed, AnalyzeRecord, AnalyzeField
<1>2. /\ phase[x] = "unused" /\ runToken[j] = None /\ jobStatus[j] # "gone"
      /\ cursor' = cursor /\ queue' = queue
      /\ runJob' = [runJob EXCEPT ![x] = j]
      /\ cancelRequested' = [cancelRequested EXCEPT ![j] = FALSE]
      /\ jobStatus' = [jobStatus EXCEPT ![j] = "processing"]
  BY <1>1 DEF Acquire, Free, Startable
<1>3. CASE y = x
  <2>1. cursor'[x] = 0
    BY <1>2, <1>3 DEF CursorPassed, PassedBy
  <2>2. \A r \in Record : ~(r <= cursor'[y])
    <3>1. \A r \in Record : r \in Nat /\ r # 0
      BY <1>0
    <3> QED BY <1>3, <2>1, <3>1
  <2>3. phase'[x] # "unused"
    BY <1>0 DEF Start, AnalyzeJob, AnalyzeTargeted, RetryFailed, AnalyzeRecord, AnalyzeField, TypeOK
  <2> QED BY <1>3, <2>2, <2>3 DEF PassedBy, RecordsOf, AllOf
<1>4. CASE y # x
  <2>1. phase'[y] = phase[y] /\ kind'[y] = kind[y] /\ stage'[y] = stage[y]
    BY <1>0, <1>4 DEF Start, AnalyzeJob, AnalyzeTargeted, RetryFailed, AnalyzeRecord, AnalyzeField, TypeOK
  <2>2. runJob'[y] = runJob[y]
    BY <1>0, <1>2, <1>4 DEF TypeOK
  <2>3. \A r \in Record : recordStatus'[r] = "pending" => (recordStatus[r] = "pending" \/ recordStatus[r] = "failed")
    BY DEF Start, AnalyzeJob, AnalyzeTargeted, RetryFailed, AnalyzeRecord, AnalyzeField, FailedOf, RecordsOf, AllOf
  <2>4. \A r \in Record : JobOf[r] # j => recordStatus'[r] = recordStatus[r]
    <3>1. ASSUME NEW k \in Job, RetryFailed(x, k)
          PROVE  k = j
      <4>1. runToken'[k] = x /\ runToken' = [runToken EXCEPT ![j] = x]
        BY <1>0, <1>1, <3>1 DEF RetryFailed, Acquire, Free, TypeOK
      <4>2. runToken[k] = None
        BY <3>1 DEF RetryFailed, Acquire, Free
      <4> QED BY <1>0, <4>1, <4>2, RunAssumption DEF TypeOK
    <3> QED BY <3>1 DEF Start, AnalyzeJob, AnalyzeTargeted, RetryFailed, AnalyzeRecord, AnalyzeField, FailedOf, RecordsOf, AllOf
  <2>5. phase[y] \in {"loading", "working"} => (runJob[y] \in Job /\ runJob[y] # j)
    BY <1>2, RunAssumption DEF IInv, RunsHold
  <2>6. phase[y] \in {"loading", "working"} => (ShouldStop(runJob[y])' <=> ShouldStop(runJob[y]))
    BY <1>0, <1>2, <2>2, <2>5 DEF ShouldStop, TypeOK
  <2>7. phase[y] \in {"loading", "working"} =>
          \A r \in AllOf(runJob[y]) : recordStatus'[r] = recordStatus[r]
    BY <2>4, <2>5 DEF RecordsOf, AllOf
  <2> QED BY <1>2, <2>1, <2>2, <2>6, <2>7, PassedKeeps
<1> QED BY <1>3, <1>4

\* Another run's step says nothing about the records of this run's job.
LEMMA OthersPass ==
  ASSUME IInv, CursorPassed, NEW x \in Run, RunStep(x), NEW y \in Run \ {x}
  PROVE  PassedBy(y)'
<1>0. TypeOK /\ JobOf \in [Record -> Job]
  BY RecordAssumption DEF IInv
<1>1. /\ cancelRequested' = cancelRequested /\ runJob' = runJob /\ kind' = kind
  BY DEF RunStep, LoadBatch, DropBatch, BatchComplete, FinishBatch, FinishSingle, Release, RecordStep,
     TakeItem, BeginRecord, RecordDone, RecordThrows, RecordAborted, jobVars
<1>2. phase'[y] = phase[y] /\ stage'[y] = stage[y]
  BY <1>0 DEF RunStep, LoadBatch, DropBatch, BatchComplete, FinishBatch, FinishSingle, Release, RecordStep,
     TakeItem, BeginRecord, RecordDone, RecordThrows, RecordAborted, TypeOK
<1>3. cursor'[y] = cursor[y] /\ queue'[y] = queue[y]
  <2>1. CASE LoadBatch(x)
    BY <1>0, <2>1 DEF LoadBatch, TypeOK
  <2>2. CASE ~LoadBatch(x)
    BY <1>0, <2>2 DEF RunStep, DropBatch, BatchComplete, FinishBatch, FinishSingle, Release, RecordStep,
     TakeItem, BeginRecord, RecordDone, RecordThrows, RecordAborted, TypeOK
  <2> QED BY <2>1, <2>2
<1>4. \A j \in Job : jobStatus'[j] # jobStatus[j] => (Owns(x) /\ j = runJob[x])
  <2>1. ASSUME NEW b \in BOOLEAN, Release(x, b)
        PROVE  \A j \in Job : jobStatus'[j] # jobStatus[j] => (Owns(x) /\ j = runJob[x])
    BY <1>0, <2>1 DEF Release, Owns, TypeOK
  <2>2. CASE BatchComplete(x)
    BY <1>0, <2>2, BatchCompleteKeepsStatus
  <2>3. CASE FinishBatch(x) \/ FinishSingle(x)
    BY <1>0, <2>1, <2>3 DEF FinishBatch, FinishSingle, TypeOK
  <2> QED BY <2>2, <2>3 DEF RunStep, LoadBatch, DropBatch, RecordStep, TakeItem, BeginRecord, RecordDone,
                         RecordThrows, RecordAborted, jobVars
<1>5. \A r \in Record : recordStatus'[r] # recordStatus[r] => (Owns(x) /\ JobOf[r] = runJob[x])
  <2>1. ASSUME NEW q \in Record, RecordStep(x, q), NEW r \in Record, recordStatus'[r] # recordStatus[r]
        PROVE  Owns(x) /\ JobOf[r] = runJob[x]
    <3>1. ~TakeItem(x, q)
      BY <2>1 DEF TakeItem, recordVars
    <3>2. stage[x][q] # "none" /\ q = r /\ Owns(x)
      BY <1>0, <2>1, <3>1 DEF RecordStep, BeginRecord, RecordDone, RecordThrows, RecordAborted, Settles, TypeOK
    <3> QED BY <3>2, HandsBelong
  <2> QED BY <2>1 DEF RunStep, LoadBatch, DropBatch, BatchComplete, FinishBatch, FinishSingle, Release, recordVars
<1>6. phase[y] \in {"loading", "working"} => (runJob[y] \in Job /\ (Owns(x) => runJob[y] # runJob[x]))
  BY SeparateJobs DEF IInv, RunsHold
<1>7. phase[y] \in {"loading", "working"} => (ShouldStop(runJob[y])' <=> ShouldStop(runJob[y]))
  BY <1>1, <1>4, <1>6 DEF ShouldStop
<1>8. phase[y] \in {"loading", "working"} => \A r \in AllOf(runJob[y]) : recordStatus'[r] = recordStatus[r]
  BY <1>5, <1>6 DEF RecordsOf, AllOf
<1> QED BY <1>1, <1>2, <1>3, <1>7, <1>8, PassedKeeps

\* The batch just loaded holds every waiting record the cursor passed over.
LEMMA LoadPasses ==
  ASSUME IInv, CursorPassed, NEW x \in Run, LoadBatch(x)
  PROVE  PassedBy(x)'
<1>0. TypeOK /\ JobOf \in [Record -> Job] /\ Record \subseteq Nat
  BY RecordAssumption DEF IInv
<1>1. /\ phase[x] = "loading" /\ phase'[x] = "working"
      /\ UNCHANGED <<jobStatus, cancelRequested, recordStatus, kind, runJob, stage>>
      /\ ~ShouldStop(runJob[x])
  BY <1>0 DEF LoadBatch, jobVars, recordVars, TypeOK
<1>2. CASE kind[x] = "batch"
  <2> DEFINE E == {r \in Eligible(runJob[x]) : cursor[x] < r}
  <2>1. PICK S \in SUBSET E : /\ IsFirst(S, E)
                              /\ queue' = [queue EXCEPT ![x] = S]
                              /\ \E last \in S :
                                   /\ \A r \in S : r <= last
                                   /\ cursor' = [cursor EXCEPT ![x] = last]
    BY <1>2 DEF LoadBatch, Waiting
  <2>2. PICK last \in S : cursor' = [cursor EXCEPT ![x] = last]
    BY <2>1
  <2>3. queue'[x] = S /\ cursor'[x] = last /\ last \in Nat
    BY <1>0, <2>1, <2>2 DEF TypeOK, Eligible, RecordsOf, AllOf
  <2>4. ASSUME NEW r \in AllOf(runJob[x]), r <= last, recordStatus[r] = "pending"
        PROVE  r \in S \/ stage[x][r] # "none"
    <3>0. r \in Nat /\ cursor[x] \in Nat
      BY <1>0 DEF RecordsOf, AllOf, TypeOK
    <3>1. CASE r <= cursor[x]
      <4>1. r \in queue[x] \/ stage[x][r] # "none"
        BY <1>1, <1>2, <2>4, <3>1 DEF CursorPassed, PassedBy
      <4>2. queue[x] = {} /\ \A q \in Record : stage[x][q] = "none"
        BY <1>1, LoadingIsIdle
      <4> QED BY <4>1, <4>2 DEF RecordsOf, AllOf
    <3>2. CASE cursor[x] < r
      <4>1. r \in E
        BY <2>4, <3>2 DEF Eligible, NormalBatchStatuses, RecordsOf
      <4>2. \A q \in E \ S : last < q
        BY <2>1 DEF IsFirst
      <4>3. r \notin E \ S
        BY <2>3, <2>4, <3>0, <4>2
      <4> QED BY <4>1, <4>3
    <3> QED BY <3>0, <3>1, <3>2
  <2>5. AllOf(runJob'[x]) = AllOf(runJob[x])
    BY <1>1
  <2> HIDE DEF E
  <2> QED BY <1>1, <2>3, <2>4, <2>5 DEF PassedBy
<1>3. CASE kind[x] # "batch"
  BY <1>1, <1>3 DEF PassedBy
<1> QED BY <1>2, <1>3

\* What leaves a run's hands in a batch nobody stopped is decided.
LEMMA RecordStepPasses ==
  ASSUME IInv, CursorPassed, NEW x \in Run, NEW r \in Record, RecordStep(x, r)
  PROVE  PassedBy(x)'
<1>0. TypeOK
  BY DEF IInv
<1>1. UNCHANGED <<jobStatus, cancelRequested, phase, kind, runJob, cursor>>
  BY DEF RecordStep, TakeItem, BeginRecord, RecordDone, RecordThrows, RecordAborted, jobVars
<1>2. /\ \A q \in Record \ {r} : recordStatus'[q] = recordStatus[q] /\ stage'[x][q] = stage[x][q]
      /\ \A q \in Record \ {r} : q \in queue[x] => q \in queue'[x]
  BY <1>0 DEF RecordStep, TakeItem, BeginRecord, RecordDone, RecordThrows, RecordAborted, recordVars, TypeOK
<1>3. (kind[x] = "batch" /\ ~ShouldStop(runJob[x]) /\ recordStatus'[r] = "pending") =>
        (recordStatus[r] = "pending" /\ stage'[x][r] # "none")
  <2> SUFFICES ASSUME kind[x] = "batch", ~ShouldStop(runJob[x]), recordStatus'[r] = "pending"
               PROVE  recordStatus[r] = "pending" /\ stage'[x][r] # "none"
    OBVIOUS
  <2>1. CASE TakeItem(x, r)
    BY <1>0, <2>1 DEF TakeItem, recordVars, TypeOK
  <2>2. CASE BeginRecord(x, r)
    BY <1>0, <2>2 DEF BeginRecord, TypeOK
  <2>3. ASSUME NEW outcome \in Outcomes(x), RecordDone(x, r, outcome)
        PROVE  FALSE
    BY <1>0, <2>3 DEF RecordDone, ConversationAfter, Outcomes, TypeOK
  <2>4. ASSUME stage[x][r] # "none"
        PROVE  Owns(x) /\ recordStatus[r] # "gone"
    <3>1. runJob[x] = JobOf[r] /\ runJob[x] \in Job
      BY <2>4, HandsBelong DEF IInv, RunsHold
    <3>2. recordStatus[r] # "gone"
      BY <3>1 DEF IInv, GoneTogether, ShouldStop
    <3> QED BY <2>4, <3>2, HandsBelong
  <2>5. CASE RecordThrows(x, r)
    <3>1. recordStatus[r] # "gone"
      BY <2>4, <2>5 DEF RecordThrows
    <3> QED BY <1>0, <2>5, <3>1 DEF RecordThrows, TypeOK
  <2>6. CASE RecordAborted(x, r)
    <3>1. Owns(x) /\ aborted[x]
      BY <2>4, <2>6 DEF RecordAborted
    <3> QED BY <3>1 DEF IInv, AbortIsFlagged, ShouldStop
  <2> QED BY <2>1, <2>2, <2>3, <2>5, <2>6 DEF RecordStep
<1>4. ShouldStop(runJob[x])' <=> ShouldStop(runJob[x])
  BY <1>1 DEF ShouldStop
<1>5. \A q \in AllOf(runJob[x]) : q \in Record
  BY DEF RecordsOf, AllOf
<1>6. ASSUME phase[x] \in {"loading", "working"}, kind[x] = "batch", ~ShouldStop(runJob[x]),
             NEW q \in AllOf(runJob[x]), q <= cursor[x], recordStatus'[q] = "pending"
      PROVE  q \in queue'[x] \/ stage'[x][q] # "none"
  <2>1. CASE q = r
    BY <1>3, <1>6, <2>1
  <2>2. CASE q # r
    <3>1. recordStatus[q] = "pending"
      BY <1>2, <1>5, <1>6, <2>2
    <3>2. q \in queue[x] \/ stage[x][q] # "none"
      BY <1>6, <3>1 DEF CursorPassed, PassedBy
    <3> QED BY <1>2, <1>5, <2>2, <3>2
  <2> QED BY <2>1, <2>2
<1>7. AllOf(runJob'[x]) = AllOf(runJob[x])
  BY <1>1
<1>8. phase[x] = "unused" => cursor[x] = 0
  BY DEF CursorPassed, PassedBy
<1> QED BY <1>1, <1>4, <1>6, <1>7, <1>8 DEF PassedBy

LEMMA OwnPasses ==
  ASSUME IInv, CursorPassed, NEW x \in Run, RunStep(x)
  PROVE  PassedBy(x)'
<1>0. TypeOK
  BY DEF IInv
<1>1. CASE LoadBatch(x)
  BY <1>1, LoadPasses
<1>2. CASE DropBatch(x)
  <2>1. ShouldStop(runJob[x])' /\ phase'[x] = "working"
    BY <1>2 DEF DropBatch, ShouldStop, jobVars
  <2> QED BY <2>1 DEF PassedBy
<1>3. CASE BatchComplete(x)
  <2>1. UNCHANGED <<jobStatus, cancelRequested, recordStatus, kind, runJob, cursor, queue, stage>>
    BY <1>0, <1>3, BatchCompleteKeepsStatus DEF BatchComplete, recordVars
  <2>2. phase[x] = "working" /\ phase'[x] # "unused"
    BY <1>0, <1>3 DEF BatchComplete, TypeOK
  <2>3. ShouldStop(runJob[x])' <=> ShouldStop(runJob[x])
    BY <2>1 DEF ShouldStop
  <2> QED BY <2>1, <2>2, <2>3, PassedKeeps
<1>4. CASE FinishBatch(x) \/ FinishSingle(x)
  <2>1. phase'[x] = "done"
    BY <1>0, <1>4 DEF FinishBatch, FinishSingle, Release, TypeOK
  <2> QED BY <2>1 DEF PassedBy
<1> QED BY <1>1, <1>2, <1>3, <1>4, RecordStepPasses DEF RunStep

LEMMA OperatorPasses ==
  ASSUME IInv, CursorPassed, Operator, NEW y \in Run
  PROVE  PassedBy(y)'
<1>0. TypeOK
  BY DEF IInv
<1>1. UNCHANGED <<phase, kind, runJob, cursor, queue, stage>>
  BY DEF Operator, StartGivesUp, RequestPause, RequestCancel, DeleteJob, BindPlatform, ConfirmReview, AddRecords, runVars
<1>2. ASSUME phase[y] \in {"loading", "working"}, ~ShouldStop(runJob[y]),
             NEW r \in AllOf(runJob[y]), recordStatus'[r] = "pending"
      PROVE  recordStatus[r] = "pending"
  <2>1. r \in Record /\ JobOf[r] = runJob[y] /\ runToken[runJob[y]] = y
    BY <1>2 DEF AllOf, IInv, RunsHold, ShouldStop
  <2>2. ASSUME NEW j \in Job, AddRecords(j)
        PROVE  recordStatus[r] = "pending"
    BY <1>2, <2>1, <2>2, RunAssumption DEF AddRecords
  <2> QED BY <1>0, <1>2, <2>1, <2>2 DEF Operator, StartGivesUp, RequestPause, RequestCancel, DeleteJob, BindPlatform,
             ConfirmReview, recordVars, TypeOK
<1>3. (phase[y] \in {"loading", "working"} /\ ShouldStop(runJob[y])) => ShouldStop(runJob[y])'
  <2> SUFFICES ASSUME phase[y] \in {"loading", "working"}, ShouldStop(runJob[y])
               PROVE  ShouldStop(runJob[y])'
    OBVIOUS
  <2>0. runJob[y] \in Job /\ (runToken[runJob[y]] = y \/ jobStatus[runJob[y]] = "gone") /\ runJob' = runJob
    BY <1>1 DEF IInv, RunsHold
  <2>1. ASSUME NEW j \in Job, StartGivesUp(j)
        PROVE  ShouldStop(runJob[y])'
    <3>1. runJob[y] # j
      BY <2>0, <2>1, RunAssumption DEF StartGivesUp, Free, Startable
    <3> QED BY <1>0, <2>0, <2>1, <3>1 DEF StartGivesUp, ShouldStop, TypeOK
  <2>2. ASSUME NEW j \in Job, RequestPause(j) \/ RequestCancel(j) \/ DeleteJob(j)
        PROVE  ShouldStop(runJob[y])'
    BY <1>0, <2>0, <2>2 DEF RequestPause, RequestCancel, DeleteJob, ShouldStop, TypeOK
  <2> QED BY <2>0, <2>1, <2>2 DEF Operator, BindPlatform, ConfirmReview, AddRecords, jobVars, ShouldStop
<1>4. \A r \in AllOf(runJob[y]) : r \in Record
  BY DEF RecordsOf, AllOf
<1> QED BY <1>1, <1>2, <1>3, <1>4, PassedKeeps

LEMMA PassedNext == IInv /\ CursorPassed /\ [Next]_vars => CursorPassed'
<1> SUFFICES ASSUME IInv, CursorPassed, [Next]_vars, NEW y \in Run PROVE PassedBy(y)'
  BY DEF CursorPassed
<1>0. PassedBy(y)
  BY DEF CursorPassed
<1>1. CASE Crash
  <2>1. phase'[y] = (IF phase[y] = "unused" THEN "unused" ELSE "done") /\ cursor' = cursor
    BY <1>1 DEF Crash
  <2> QED BY <1>0, <2>1 DEF PassedBy
<1>2. CASE Restart
  <2>1. phase[y] \notin {"loading", "working"} /\ UNCHANGED <<phase, cursor>>
    BY <1>2 DEF Restart, runVars, IInv, RunsHold
  <2> QED BY <1>0, <2>1 DEF PassedBy
<1>3. CASE UNCHANGED vars
  <2>1. UNCHANGED <<jobStatus, cancelRequested, recordStatus, phase, kind, runJob, cursor, queue, stage>>
    BY <1>3 DEF vars, jobVars, recordVars, runVars
  <2>2. ShouldStop(runJob[y])' <=> ShouldStop(runJob[y])
    BY <2>1 DEF ShouldStop
  <2> QED BY <2>1, <2>2, PassedKeeps
<1> QED BY <1>1, <1>2, <1>3, StartPasses, OwnPasses, OthersPass, OperatorPasses DEF Next

LEMMA PassedInit == Init => CursorPassed
BY DEF Init, CursorPassed, PassedBy

\* What a full batch run has passed with its cursor stays passed, see CursorPassed:
\* no later batch has to come back to it.
THEOREM PassedCorrect == Spec => [](IInv /\ CursorPassed)
BY InvInit, InvNext, PassedInit, PassedNext, PTL DEF Spec

\* A full batch run that nobody stopped ends with no record still waiting.
THEOREM NothingPending == Spec => BatchLeavesNothingPending
<1>1. IInv /\ CursorPassed /\ [Next]_vars => EndsWithNothingPending
  <2> SUFFICES ASSUME IInv, CursorPassed, [Next]_vars,
                      NEW x \in Run, up', phase[x] = "loading", phase'[x] = "done",
                      kind[x] = "batch", ~ShouldStop(runJob[x]),
                      NEW r \in RecordsOf(runJob[x]), recordStatus[r] = "pending"
               PROVE  FALSE
    BY DEF EndsWithNothingPending
  <2>0. TypeOK /\ r \in Record /\ r \in Nat /\ cursor[x] \in Nat
    BY RecordAssumption DEF IInv, TypeOK, RecordsOf, AllOf
  <2>1. ~(r <= cursor[x])
    <3>1. queue[x] = {} /\ stage[x][r] = "none"
      BY <2>0, LoadingIsIdle
    <3> QED BY <3>1 DEF CursorPassed, PassedBy, RecordsOf
  <2>2. NothingToLoad(x)
    <3>1. FinishBatch(x)
      <4>1. ASSUME NEW y \in Run, Start(y)
            PROVE  FALSE
        BY <2>0, <4>1 DEF Start, AnalyzeJob, AnalyzeTargeted, RetryFailed, AnalyzeRecord, AnalyzeField, Acquire, Free, TypeOK
      <4>2. ASSUME NEW y \in Run, RunStep(y), ~FinishBatch(x)
            PROVE  FALSE
        BY <2>0, <4>2 DEF RunStep, LoadBatch, DropBatch, BatchComplete, FinishBatch, FinishSingle, Release,
           RecordStep, TakeItem, BeginRecord, RecordDone, RecordThrows, RecordAborted, TypeOK
      <4>3. ~Operator /\ ~Crash /\ ~Restart /\ ~UNCHANGED vars
        BY DEF Operator, StartGivesUp, RequestPause, RequestCancel, DeleteJob, BindPlatform, ConfirmReview, AddRecords,
           Crash, Restart, vars, runVars
      <4> QED BY <4>1, <4>2, <4>3 DEF Next
    <3> QED BY <3>1 DEF FinishBatch
  <2>3. r \in Eligible(runJob[x])
    BY DEF Eligible, NormalBatchStatuses
  <2>4. r \in Waiting(x)
    BY <2>0, <2>1, <2>3 DEF Waiting
  <2> QED BY <2>2, <2>4 DEF NothingToLoad
<1> QED BY PassedCorrect, <1>1, PTL DEF Spec, BatchLeavesNothingPending

-----------------------------------------------------------------------------
(* JobRun implements JobFence *)

LEMMA FenceInit == Init => Fence!Init
BY RecordAssumption DEF Init, Fence!Init, RecordStatus

LEMMA StartIsTake ==
  ASSUME IInv, NEW x \in Run, Start(x)
  PROVE  \E j \in Job : Fence!Take(x, j)
<1>0. TypeOK /\ TypeOK' /\ JobOf \in [Record -> Job]
  BY TypeStart, RecordAssumption DEF IInv
<1>1. PICK j \in Job : /\ Acquire(x, j)
                       /\ \A r \in Record : JobOf[r] # j => recordStatus'[r] = recordStatus[r]
  BY <1>0 DEF Start, AnalyzeJob, AnalyzeTargeted, RetryFailed, AnalyzeRecord, AnalyzeField, FailedOf, RecordsOf, AllOf
<1>2. \E p \in {"loading", "working"} : phase' = [phase EXCEPT ![x] = p]
  BY DEF Start, AnalyzeJob, AnalyzeTargeted, RetryFailed, AnalyzeRecord, AnalyzeField
<1>3. phase[x] = "unused" /\ runToken[j] = None /\ runToken' = [runToken EXCEPT ![j] = x]
  BY <1>1 DEF Acquire, Free
<1>4. \A y \in Run : phase'[y] # "unused" <=> (y = x \/ phase[y] # "unused")
  BY <1>0, <1>2 DEF TypeOK
<1>5. {y \in Run : phase'[y] # "unused"} = {y \in Run : phase[y] # "unused"} \cup {x}
  BY <1>4
<1>6. recordStatus' \in [Record -> RecordStatus]
  BY <1>0 DEF TypeOK
<1>7. \/ stage' = stage
      \/ \E r \in Record : JobOf[r] = j /\ Fence!Moves(x, r)
  <2>1. CASE stage' = stage
    BY <2>1
  <2>2. ASSUME NEW r \in Record, AnalyzeRecord(x, r) \/ AnalyzeField(x, r)
        PROVE  JobOf[r] = j /\ Fence!Moves(x, r)
    <3>1. JobOf[r] = j
      <4>1. runToken'[JobOf[r]] = x /\ runToken[JobOf[r]] = None
        BY <1>0, <2>2 DEF AnalyzeRecord, AnalyzeField, Acquire, Free, TypeOK
      <4> QED BY <1>0, <1>3, <4>1, RunAssumption DEF TypeOK
    <3>2. stage[x][r] = "none"
      BY <1>3, FreshRun
    <3> QED BY <2>2, <3>1, <3>2 DEF AnalyzeRecord, AnalyzeField, Fence!Moves, Fence!Stage
  <2> QED BY <2>1, <2>2 DEF Start, AnalyzeJob, AnalyzeTargeted, RetryFailed
<1> QED BY <1>1, <1>3, <1>5, <1>6, <1>7 DEF Fence!Take, Fence!Confined

LEMMA RunStepIsFenced ==
  ASSUME IInv, NEW x \in Run, RunStep(x)
  PROVE  Fence!Next \/ UNCHANGED Fence!vars
<1>0. TypeOK /\ TypeOK' /\ JobOf \in [Record -> Job]
  BY TypeRunStep, RecordAssumption DEF IInv
<1>1. \A y \in Run : phase'[y] # "unused" <=> phase[y] # "unused"
  BY <1>0 DEF RunStep, LoadBatch, DropBatch, BatchComplete, FinishBatch, FinishSingle, Release, RecordStep,
     TakeItem, BeginRecord, RecordDone, RecordThrows, RecordAborted, TypeOK
<1>2. {y \in Run : phase'[y] # "unused"} = {y \in Run : phase[y] # "unused"}
  BY <1>1
<1>3. ASSUME NEW b \in BOOLEAN, Release(x, b), \A r \in Record : stage[x][r] = "none"
      PROVE  Fence!Next \/ UNCHANGED Fence!vars
  <2>1. recordStatus' = recordStatus
    BY <1>3 DEF Release, recordVars
  <2>2. CASE Owns(x)
    <3>1. /\ runJob[x] \in Job /\ runToken[runJob[x]] = x /\ stage' = stage
          /\ runToken' = [runToken EXCEPT ![runJob[x]] = None]
      BY <1>3, <2>2 DEF Owns, Release
    <3>2. Fence!GiveBack(x, runJob[x])
      BY <1>2, <1>3, <2>1, <3>1 DEF Fence!GiveBack
    <3> QED BY <3>1, <3>2 DEF Fence!Next
  <2>3. CASE ~Owns(x)
    BY <1>2, <1>3, <2>1, <2>3 DEF Release, Fence!vars
  <2> QED BY <2>2, <2>3
<1>4. CASE FinishBatch(x) \/ FinishSingle(x)
  <2>1. \A r \in Record : stage[x][r] = "none"
    BY <1>4, LoadingIsIdle DEF FinishBatch, FinishSingle, InFlight
  <2> QED BY <1>0, <1>3, <1>4, <2>1 DEF FinishBatch, FinishSingle, TypeOK
<1>5. CASE LoadBatch(x) \/ DropBatch(x) \/ BatchComplete(x)
  BY <1>2, <1>5 DEF LoadBatch, DropBatch, BatchComplete, jobVars, recordVars, Fence!vars
<1>6. ASSUME NEW r \in Record, RecordStep(x, r)
      PROVE  Fence!Next \/ UNCHANGED Fence!vars
  <2>1. runToken' = runToken
    BY <1>6 DEF RecordStep, TakeItem, BeginRecord, RecordDone, RecordThrows, RecordAborted, jobVars
  <2>2. PICK s \in {"none", "claimed", "analyzing"} : s # stage[x][r] /\ stage' = [stage EXCEPT ![x][r] = s]
    BY <1>0, <1>6 DEF RecordStep, TakeItem, BeginRecord, RecordDone, RecordThrows, RecordAborted, QueuesBelong, IInv
  <2>3. Fence!Moves(x, r)
    BY <2>2 DEF Fence!Moves, Fence!Stage
  <2>4. CASE Owns(x)
    <3>1. runJob[x] = JobOf[r]
      BY <1>0, <1>6, HandsBelong DEF RecordStep, TakeItem, BeginRecord, RecordDone, RecordThrows, RecordAborted, QueuesBelong, IInv
    <3>2. \E v \in RecordStatus : recordStatus' = [recordStatus EXCEPT ![r] = v]
      <4>1. recordStatus' = [recordStatus EXCEPT ![r] = recordStatus'[r]]
        BY <1>0, <1>6 DEF RecordStep, TakeItem, BeginRecord, RecordDone, RecordThrows, RecordAborted, recordVars, TypeOK
      <4>2. recordStatus'[r] \in RecordStatus
        BY <1>0 DEF TypeOK
      <4> QED BY <4>1, <4>2
    <3>3. Fence!Write(x, r)
      BY <1>2, <2>1, <2>3, <2>4, <3>1, <3>2 DEF Fence!Write, Owns
    <3> QED BY <3>3 DEF Fence!Next
  <2>5. CASE ~Owns(x)
    <3>1. /\ stage[x][r] # "none" /\ stage' = [stage EXCEPT ![x][r] = "none"]
          /\ recordStatus' = recordStatus
      BY <1>6, <2>5 DEF RecordStep, TakeItem, BeginRecord, RecordDone, RecordThrows, RecordAborted, Settles, recordVars
    <3>2. Fence!Drop(x, r)
      BY <1>2, <2>1, <3>1 DEF Fence!Drop
    <3> QED BY <3>2 DEF Fence!Next
  <2> QED BY <2>4, <2>5
<1> QED BY <1>4, <1>5, <1>6 DEF RunStep

LEMMA OthersAreFenced ==
  ASSUME IInv, Operator \/ Crash \/ Restart \/ UNCHANGED vars
  PROVE  Fence!Next \/ UNCHANGED Fence!vars
<1>0. TypeOK /\ TypeOK' /\ JobOf \in [Record -> Job]
  BY TypeOthers, RecordAssumption DEF IInv
<1>1. recordStatus' \in [Record -> RecordStatus]
  BY <1>0 DEF TypeOK
<1>2. \A y \in Run : phase'[y] # "unused" <=> phase[y] # "unused"
  BY <1>0 DEF Operator, StartGivesUp, RequestPause, RequestCancel, DeleteJob, BindPlatform, ConfirmReview, AddRecords,
     Crash, Restart, vars, runVars, TypeOK
<1>3. {y \in Run : phase'[y] # "unused"} = {y \in Run : phase[y] # "unused"}
  BY <1>2
<1>4. ASSUME NEW j \in Job, DeleteJob(j)
      PROVE  Fence!Revoke({j})
  <2>1. runToken' = [k \in Job |-> IF k \in {j} THEN None ELSE runToken[k]]
    BY <1>0, <1>4 DEF DeleteJob, TypeOK
  <2>2. Fence!Confined({j})
    BY <1>1, <1>4 DEF DeleteJob, Fence!Confined
  <2> QED BY <1>3, <1>4, <2>1, <2>2 DEF DeleteJob, runVars, Fence!Revoke
<1>5. ASSUME NEW r \in Record, ConfirmReview(r)
      PROVE  Fence!Decide(JobOf[r])
  <2>1. runToken[JobOf[r]] = None /\ runToken' = runToken
    BY <1>5 DEF ConfirmReview, jobVars
  <2>2. \A q \in Record \ {r} : recordStatus'[q] = recordStatus[q]
    BY <1>0, <1>5 DEF ConfirmReview, TypeOK
  <2>3. Fence!Confined({JobOf[r]})
    BY <1>1, <2>2 DEF Fence!Confined
  <2> QED BY <1>3, <1>5, <2>1, <2>3 DEF ConfirmReview, runVars, Fence!Decide
<1>6. CASE Operator
  <2>1. CASE \E j \in Job : DeleteJob(j)
    BY <1>4, <2>1 DEF Fence!Next
  <2>2. CASE \E r \in Record : ConfirmReview(r)
    BY <1>0, <1>5, <2>2 DEF Fence!Next
  <2>4. ASSUME NEW j \in Job, AddRecords(j)
        PROVE  Fence!Decide(j)
    <3>1. Fence!Confined({j})
      BY <1>1, <2>4 DEF AddRecords, Fence!Confined
    <3> QED BY <1>3, <2>4, <3>1 DEF AddRecords, jobVars, runVars, Fence!Decide
  <2>5. CASE \E j \in Job : AddRecords(j)
    BY <2>4, <2>5 DEF Fence!Next
  <2>3. CASE \E j \in Job : StartGivesUp(j) \/ RequestPause(j) \/ RequestCancel(j) \/ BindPlatform(j)
    BY <1>3, <2>3 DEF StartGivesUp, RequestPause, RequestCancel, BindPlatform, jobVars, recordVars, runVars, Fence!vars
  <2> QED BY <1>6, <2>1, <2>2, <2>3, <2>5 DEF Operator
<1>7. CASE Restart
  <2>1. runToken' = [k \in Job |-> IF k \in Job THEN None ELSE runToken[k]]
    BY <1>7 DEF Restart
  <2>2. Fence!Confined(Job)
    BY <1>0, <1>1 DEF Fence!Confined
  <2>3. Fence!Revoke(Job)
    BY <1>3, <1>7, <2>1, <2>2 DEF Restart, runVars, Fence!Revoke
  <2> QED BY <2>3 DEF Fence!Next
<1>8. CASE Crash
  <2>1. Fence!Die
    BY <1>3, <1>8 DEF Crash, jobVars, recordVars, Fence!Die
  <2> QED BY <2>1 DEF Fence!Next
<1>9. CASE UNCHANGED vars
  BY <1>3, <1>9 DEF vars, jobVars, recordVars, runVars, Fence!vars
<1> QED BY <1>6, <1>7, <1>8, <1>9

\* The run lock of the code is the fence: fresh tokens, one holder per job, and no
\* run takes up a record or writes a result of a record it has in hand unless it
\* is the holder itself; otherwise results change only by a person or the import
\* in a job that is free, or with the step that takes the token away.
THEOREM ImplementsFence == Spec => FenceSpec
<1>1. IInv /\ [Next]_vars => [Fence!Next]_(Fence!vars)
  <2> SUFFICES ASSUME IInv, [Next]_vars PROVE Fence!Next \/ UNCHANGED Fence!vars
    OBVIOUS
  <2>1. ASSUME NEW x \in Run, Start(x)
        PROVE  Fence!Next
    BY <2>1, StartIsTake DEF Fence!Next
  <2> QED BY <2>1, RunStepIsFenced, OthersAreFenced DEF Next
<1> QED BY FenceInit, InvCorrect, <1>1, PTL DEF Spec, FenceSpec, Fence!Spec
=============================================================================
