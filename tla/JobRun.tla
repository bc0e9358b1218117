------------------------------- MODULE JobRun -------------------------------
(***************************************************************************)
(* The analysis runs of import jobs: how a run takes a job's lock, works   *)
(* through its records, and gives the lock back, while operators pause,    *)
(* cancel, retry, review and delete, and while the process may crash.      *)
(*                                                                         *)
(* The server is one Node process on a synchronous SQLite database, so     *)
(* every stretch of code between two awaits is one atomic action here.     *)
(* Everything below the field level (which model is asked, which fields a  *)
(* record has) is the nondeterministic outcome of RecordDone/RecordThrows. *)
(***************************************************************************)
EXTENDS Naturals, FiniteSets

CONSTANTS
  Job,            \* import jobs
  Record,         \* their records, numbered in row order
  JobOf,          \* the job a record belongs to
  Run,            \* runs that may be started, a run is its token
  None,           \* SQL NULL
  BatchSize,      \* records loaded per batch
  Concurrency,    \* workers per batch
  Legacy,         \* jobs imported before platforms existed
  MaxCrashes      \* bound: how often the process may crash

ASSUME RecordAssumption == Record \subseteq Nat \ {0} /\ JobOf \in [Record -> Job]
ASSUME RunAssumption == None \notin Run
ASSUME BoundAssumption == BatchSize \in Nat \ {0} /\ Concurrency \in Nat \ {0} /\ MaxCrashes \in Nat
ASSUME LegacyAssumption == Legacy \subseteq Job

VARIABLES
  up,               \* the process runs (after recovery)
  crashes,          \* crashes so far
  \* rows of the jobs table
  jobStatus, runToken, cancelRequested, platformBound,
  \* rows of the records table
  recordStatus, reviewStatus, hasConversation,
  \* memory of the process, per run
  phase, kind, runJob, cursor, explicit, queue, stage, aborted, threw

jobVars == <<jobStatus, runToken, cancelRequested>>
recordVars == <<recordStatus, reviewStatus, hasConversation>>
runVars == <<phase, kind, runJob, cursor, explicit, queue, stage, aborted, threw>>
processVars == <<up, crashes>>
vars == <<processVars, jobVars, platformBound, recordVars, runVars>>

JobStatus == {"ready", "processing", "paused", "cancelled", "failed", "completed", "gone"}
\* "absent": the import has made the job's row and not yet its records;
\* "gone": deleted with the job
RecordStatus == {"absent", "pending", "processing", "completed", "failed", "needs_review", "gone"}
ReviewStatus == {"pending", "confirmed", "needs_review"}

\* jobs that acquireJobRun may take
Startable == {"ready", "failed", "paused", "cancelled", "completed"}
NormalBatchStatuses == {"pending", "failed", "needs_review"}

TypeOK ==
  /\ up \in BOOLEAN
  /\ crashes \in Nat
  /\ jobStatus \in [Job -> JobStatus]
  /\ runToken \in [Job -> Run \cup {None}]
  /\ cancelRequested \in [Job -> BOOLEAN]
  /\ platformBound \in [Job -> BOOLEAN]
  /\ recordStatus \in [Record -> RecordStatus]
  /\ reviewStatus \in [Record -> ReviewStatus]
  /\ hasConversation \in [Record -> BOOLEAN]
  /\ phase \in [Run -> {"unused", "loading", "working", "done"}]
  /\ kind \in [Run -> {"batch", "targeted", "record", "field"}]
  /\ runJob \in [Run -> Job \cup {None}]
  /\ cursor \in [Run -> Nat]
  /\ explicit \in [Run -> SUBSET Record]
  /\ queue \in [Run -> SUBSET Record]
  /\ stage \in [Run -> [Record -> {"none", "claimed", "analyzing"}]]
  /\ aborted \in [Run -> BOOLEAN]
  /\ threw \in [Run -> BOOLEAN]

\* The job rows are there and may be started, their records are still to come.
Init ==
  /\ up = TRUE
  /\ crashes = 0
  /\ jobStatus = [j \in Job |-> "ready"]
  /\ runToken = [j \in Job |-> None]
  /\ cancelRequested = [j \in Job |-> FALSE]
  /\ platformBound = [j \in Job |-> j \notin Legacy]
  /\ recordStatus = [r \in Record |-> "absent"]
  /\ reviewStatus = [r \in Record |-> "pending"]
  /\ hasConversation = [r \in Record |-> FALSE]
  /\ phase = [x \in Run |-> "unused"]
  /\ kind = [x \in Run |-> "batch"]
  /\ runJob = [x \in Run |-> None]
  /\ cursor = [x \in Run |-> 0]
  /\ explicit = [x \in Run |-> {}]
  /\ queue = [x \in Run |-> {}]
  /\ stage = [x \in Run |-> [r \in Record |-> "none"]]
  /\ aborted = [x \in Run |-> FALSE]
  /\ threw = [x \in Run |-> FALSE]

-----------------------------------------------------------------------------
(* What the handlers read *)

\* the records of a job's workbook, and those of them that have their row
AllOf(j) == {r \in Record : JobOf[r] = j}
RecordsOf(j) == {r \in AllOf(j) : recordStatus[r] # "absent"}

Eligible(j) == {r \in RecordsOf(j) : recordStatus[r] \in NormalBatchStatuses}

\* mutant: a paused batch goes on
StopsOnlyCancelled(j) == jobStatus[j] \in {"cancelled", "gone"} \/ cancelRequested[j]

\* shouldStopBatch(getJob(jobId) ?? cancelled)
ShouldStop(j) == jobStatus[j] \in {"paused", "cancelled", "gone"} \/ cancelRequested[j]

\* mutant: the token in the row is not compared
OwnsAnyway(x) == runJob[x] \in Job

\* assertRunOwnership: the row still carries this run's token
Owns(x) == runJob[x] \in Job /\ runToken[runJob[x]] = x

InFlight(x) == {r \in Record : stage[x][r] # "none"}

\* some BatchSize members of a set
IsSlice(S, E) ==
  /\ S = E \/ Cardinality(S) = BatchSize
  /\ Cardinality(S) <= BatchSize

\* the first BatchSize members of a set in row order
IsFirst(S, E) ==
  /\ \A r \in S, q \in E \ S : r < q
  /\ IsSlice(S, E)

\* mutant: the pending count is left out
FinalStatusIgnoringPending(j, hasThrown) ==
  IF jobStatus[j] \in {"cancelled", "paused"} THEN jobStatus[j]
  ELSE IF hasThrown \/ \E r \in RecordsOf(j) : recordStatus[r] = "failed" THEN "failed"
  ELSE "completed"

\* the status a run leaves behind
FinalStatus(j, hasThrown) ==
  LET statuses == {recordStatus[r] : r \in RecordsOf(j)} IN
  IF jobStatus[j] \in {"cancelled", "paused"} THEN jobStatus[j]
  ELSE IF hasThrown \/ "failed" \in statuses THEN "failed"
  ELSE IF statuses \cap {"pending", "processing"} # {} THEN "paused"
  ELSE "completed"

\* mutant: progress is always reported as processing
ReportedProcessing(j) == "processing"

\* the status written beside the counters after each batch
ReportedStatus(j) == jobStatus[j]

-----------------------------------------------------------------------------
(* Starting a run *)

\* the WHERE clause of acquireJobRun
Free(j) == runToken[j] = None /\ jobStatus[j] \in Startable

Acquire(x, j) ==
  /\ up
  /\ phase[x] = "unused"
  /\ Free(j)
  /\ runToken' = [runToken EXCEPT ![j] = x]
  /\ cancelRequested' = [cancelRequested EXCEPT ![j] = FALSE]
  /\ jobStatus' = [jobStatus EXCEPT ![j] = "processing"]
  /\ runJob' = [runJob EXCEPT ![x] = j]
  /\ UNCHANGED <<processVars, platformBound, hasConversation, cursor, queue, aborted, threw>>

AnalyzeJob(x, j) ==
  /\ Acquire(x, j)
  /\ phase' = [phase EXCEPT ![x] = "loading"]
  /\ kind' = [kind EXCEPT ![x] = "batch"]
  /\ UNCHANGED <<recordStatus, reviewStatus, explicit, stage>>

\* recordIds were checked against the job in the same request
AnalyzeTargeted(x, j, S) ==
  /\ S # {} /\ S \subseteq Eligible(j)
  /\ Acquire(x, j)
  /\ phase' = [phase EXCEPT ![x] = "loading"]
  /\ kind' = [kind EXCEPT ![x] = "targeted"]
  /\ explicit' = [explicit EXCEPT ![x] = S]
  /\ UNCHANGED <<recordStatus, reviewStatus, stage>>

FailedOf(j) == {r \in RecordsOf(j) : recordStatus[r] = "failed"}

RetryFailed(x, j) ==
  /\ FailedOf(j) # {}
  /\ Acquire(x, j)
  /\ phase' = [phase EXCEPT ![x] = "loading"]
  /\ kind' = [kind EXCEPT ![x] = "targeted"]
  /\ explicit' = [explicit EXCEPT ![x] = FailedOf(j)]
  /\ recordStatus' = [r \in Record |-> IF r \in FailedOf(j) THEN "pending" ELSE recordStatus[r]]
  /\ reviewStatus' = [r \in Record |-> IF r \in FailedOf(j) THEN "pending" ELSE reviewStatus[r]]
  /\ UNCHANGED stage

\* The lock is taken and given back inside one request: nothing had failed, or
\* the preparation threw (then a retry marks the failed records again). The
\* status is restored; the cancel flag the acquisition cleared stays cleared.
StartGivesUp(j) ==
  /\ up
  /\ Free(j)
  /\ cancelRequested' = [cancelRequested EXCEPT ![j] = FALSE]
  /\ reviewStatus' \in {reviewStatus,
       [r \in Record |-> IF r \in FailedOf(j) THEN "needs_review" ELSE reviewStatus[r]]}
  /\ UNCHANGED <<processVars, jobStatus, runToken, platformBound, recordStatus, hasConversation, runVars>>

\* withSingleAnalysisRun around analyzeRecordFields
AnalyzeRecord(x, r) ==
  /\ recordStatus[r] # "absent"
  /\ Acquire(x, JobOf[r])
  /\ phase' = [phase EXCEPT ![x] = "working"]
  /\ kind' = [kind EXCEPT ![x] = "record"]
  /\ stage' = [stage EXCEPT ![x][r] = "claimed"]
  /\ UNCHANGED <<recordStatus, reviewStatus, explicit>>

\* a field retry never marks its record as processing
AnalyzeField(x, r) ==
  /\ recordStatus[r] # "absent"
  /\ Acquire(x, JobOf[r])
  /\ phase' = [phase EXCEPT ![x] = "working"]
  /\ kind' = [kind EXCEPT ![x] = "field"]
  /\ stage' = [stage EXCEPT ![x][r] = "analyzing"]
  /\ UNCHANGED <<recordStatus, reviewStatus, explicit>>

-----------------------------------------------------------------------------
(* The batch loop *)

\* mutant: the cursor is ignored
WaitingFromStart(x) == Eligible(runJob[x])

\* listBatchRecordIds after the cursor, before the LIMIT
Waiting(x) == {r \in Eligible(runJob[x]) : cursor[x] < r}

LoadBatch(x) ==
  /\ up
  /\ phase[x] = "loading"
  /\ ~ShouldStop(runJob[x])
  /\ \/ /\ kind[x] = "batch"
        /\ \E S \in SUBSET Waiting(x) :
             /\ S # {} /\ IsFirst(S, Waiting(x))
             /\ queue' = [queue EXCEPT ![x] = S]
             /\ \E last \in S :
                  /\ \A r \in S : r <= last
                  /\ cursor' = [cursor EXCEPT ![x] = last]
        /\ UNCHANGED explicit
     \/ /\ kind[x] = "targeted"
        /\ \E S \in SUBSET explicit[x] :
             /\ S # {} /\ IsSlice(S, explicit[x])
             /\ queue' = [queue EXCEPT ![x] = S]
             /\ explicit' = [explicit EXCEPT ![x] = explicit[x] \ S]
        /\ UNCHANGED cursor
  /\ phase' = [phase EXCEPT ![x] = "working"]
  /\ UNCHANGED <<processVars, jobVars, platformBound, recordVars, kind, runJob, stage, aborted, threw>>

\* A free worker takes the next record of the batch.
TakeItem(x, r) ==
  /\ up
  /\ r \in queue[x]
  /\ kind[x] = "batch" => \A q \in queue[x] : r <= q
  /\ Cardinality(InFlight(x)) < Concurrency
  /\ ~ShouldStop(runJob[x])
  /\ Owns(x)
  /\ queue' = [queue EXCEPT ![x] = queue[x] \ {r}]
  /\ stage' = [stage EXCEPT ![x][r] = "claimed"]
  /\ UNCHANGED <<processVars, jobVars, platformBound, recordVars,
                 phase, kind, runJob, cursor, explicit, aborted, threw>>

\* Once the job must stop, the workers return for every record left.
DropBatch(x) ==
  /\ up
  /\ phase[x] = "working"
  /\ queue[x] # {}
  /\ ShouldStop(runJob[x])
  /\ queue' = [queue EXCEPT ![x] = {}]
  /\ UNCHANGED <<processVars, jobVars, platformBound, recordVars,
                 phase, kind, runJob, cursor, explicit, stage, aborted, threw>>

\* All workers have returned: onBatchComplete writes the progress with the
\* status it reads, and throws when the job no longer belongs to the run.
BatchComplete(x) ==
  /\ up
  /\ phase[x] = "working"
  /\ kind[x] \in {"batch", "targeted"}
  /\ queue[x] = {} /\ InFlight(x) = {}
  /\ IF Owns(x)
     THEN /\ jobStatus' = [jobStatus EXCEPT ![runJob[x]] = ReportedStatus(runJob[x])]
          /\ phase' = [phase EXCEPT ![x] = "loading"]
     ELSE /\ phase' = [phase EXCEPT ![x] = "done"]
          /\ UNCHANGED jobStatus
  /\ UNCHANGED <<processVars, runToken, cancelRequested, platformBound, recordVars,
                 kind, runJob, cursor, explicit, queue, stage, aborted, threw>>

\* writeProgress with the final status, then releaseJobRun; both need the token
Release(x, hasThrown) ==
  /\ phase' = [phase EXCEPT ![x] = "done"]
  /\ IF Owns(x)
     THEN /\ jobStatus' = [jobStatus EXCEPT ![runJob[x]] = FinalStatus(runJob[x], hasThrown)]
          /\ runToken' = [runToken EXCEPT ![runJob[x]] = None]
     ELSE UNCHANGED <<jobStatus, runToken>>
  /\ UNCHANGED <<processVars, cancelRequested, platformBound, recordVars,
                 kind, runJob, cursor, explicit, queue, stage, aborted, threw>>

NothingToLoad(x) ==
  \/ kind[x] = "batch" /\ Waiting(x) = {}
  \/ kind[x] = "targeted" /\ explicit[x] = {}

FinishBatch(x) ==
  /\ up
  /\ phase[x] = "loading"
  /\ ShouldStop(runJob[x]) \/ NothingToLoad(x)
  /\ Release(x, FALSE)

FinishSingle(x) ==
  /\ up
  /\ phase[x] = "working"
  /\ kind[x] \in {"record", "field"}
  /\ InFlight(x) = {}
  /\ Release(x, threw[x])

-----------------------------------------------------------------------------
(* One record of a run *)

\* the image is read, updateRecord(processing)
BeginRecord(x, r) ==
  /\ up
  /\ stage[x][r] = "claimed"
  /\ ~aborted[x] /\ Owns(x)
  /\ recordStatus' = [recordStatus EXCEPT ![r] = "processing"]
  /\ stage' = [stage EXCEPT ![x][r] = "analyzing"]
  /\ UNCHANGED <<processVars, jobVars, platformBound, reviewStatus, hasConversation,
                 phase, kind, runJob, cursor, explicit, queue, aborted, threw>>

\* a field retry leaves the record pending while other fields have no result
Outcomes(x) ==
  {"completed", "failed", "needs_review"} \cup (IF kind[x] = "field" THEN {"pending"} ELSE {})

ReviewAfter(outcome) ==
  IF outcome \in {"failed", "needs_review"} THEN "needs_review" ELSE "pending"

\* A result needs a conversation id, and a new one needs the job's platform.
ConversationReady(r) == hasConversation[r] \/ platformBound[JobOf[r]]

\* mutant: the id is rewritten with every result
ConversationAfterLast(r, outcome) == outcome \in {"completed", "needs_review"}

ConversationAfter(r, outcome) == hasConversation[r] \/ outcome \in {"completed", "needs_review"}

\* The last field is in and updateRecord writes the result. The model's late
\* answer is refused when the run was aborted or lost the job.
RecordDone(x, r, outcome) ==
  /\ up
  /\ stage[x][r] = "analyzing"
  /\ ~aborted[x] /\ Owns(x)
  /\ outcome \in {"completed", "needs_review"} => ConversationReady(r)
  /\ recordStatus' = [recordStatus EXCEPT ![r] = outcome]
  /\ reviewStatus' = [reviewStatus EXCEPT ![r] = ReviewAfter(outcome)]
  /\ hasConversation' = [hasConversation EXCEPT ![r] = ConversationAfter(r, outcome)]
  /\ stage' = [stage EXCEPT ![x][r] = "none"]
  /\ UNCHANGED <<processVars, jobVars, platformBound,
                 phase, kind, runJob, cursor, explicit, queue, aborted, threw>>

\* Anything else throws (unreadable image, no platform, ownership lost). A
\* batch marks the record failed and goes on; a single run marks it only if it
\* was processing, and rethrows.
RecordThrows(x, r) ==
  /\ up
  /\ stage[x][r] # "none"
  /\ ~aborted[x]
  /\ LET marked == /\ recordStatus[r] # "gone"
                   /\ kind[x] \in {"batch", "targeted"} \/ recordStatus[r] = "processing" IN
     /\ marked => Owns(x)
     /\ recordStatus' = IF marked THEN [recordStatus EXCEPT ![r] = "failed"] ELSE recordStatus
     /\ reviewStatus' = IF marked THEN [reviewStatus EXCEPT ![r] = "needs_review"] ELSE reviewStatus
  /\ stage' = [stage EXCEPT ![x][r] = "none"]
  /\ threw' = [threw EXCEPT ![x] = kind[x] \in {"record", "field"}]
  /\ UNCHANGED <<processVars, jobVars, platformBound, hasConversation,
                 phase, kind, runJob, cursor, explicit, queue, aborted>>

\* mutant: the WHERE clause asks for the wrong status
SettlesPending(x, r) ==
  /\ recordStatus[r] = "pending"
  /\ Owns(x)
  /\ cancelRequested[runJob[x]]

\* settleCancelledRecord's WHERE clause
Settles(x, r) ==
  /\ recordStatus[r] = "processing"
  /\ Owns(x)
  /\ cancelRequested[runJob[x]]

\* After the abort the record's next step throws and the record is settled.
RecordAborted(x, r) ==
  /\ up
  /\ stage[x][r] # "none"
  /\ aborted[x]
  /\ recordStatus' = IF Settles(x, r) THEN [recordStatus EXCEPT ![r] = "pending"] ELSE recordStatus
  /\ reviewStatus' = IF Settles(x, r) THEN [reviewStatus EXCEPT ![r] = "pending"] ELSE reviewStatus
  /\ stage' = [stage EXCEPT ![x][r] = "none"]
  /\ threw' = [threw EXCEPT ![x] = kind[x] \in {"record", "field"}]
  /\ UNCHANGED <<processVars, jobVars, platformBound, hasConversation,
                 phase, kind, runJob, cursor, explicit, queue, aborted>>

-----------------------------------------------------------------------------
(* The import that made the job *)

\* addRecords, one transaction for all records of the job. Since createJob the
\* import has awaited the move of its files, so the job may have been started,
\* stopped or deleted; a run of an empty job ends in the turn it began, and none
\* is there. An import that a crash cuts off makes another job.
AddRecords(j) ==
  /\ up
  /\ crashes = 0
  /\ runToken[j] = None
  /\ \E r \in AllOf(j) : recordStatus[r] = "absent"
  /\ recordStatus' = [r \in Record |->
       IF JobOf[r] = j /\ recordStatus[r] = "absent" THEN "pending" ELSE recordStatus[r]]
  /\ UNCHANGED <<processVars, jobVars, platformBound, reviewStatus, hasConversation, runVars>>

-----------------------------------------------------------------------------
(* Requests of operators *)

RequestPause(j) ==
  /\ up
  /\ jobStatus[j] = "processing"
  /\ jobStatus' = [jobStatus EXCEPT ![j] = "paused"]
  /\ UNCHANGED <<processVars, runToken, cancelRequested, platformBound, recordVars, runVars>>

\* cancelAnalysis finds the run by the token the row carries
RequestCancel(j) ==
  /\ up
  /\ jobStatus[j] \in {"ready", "processing", "paused"}
  /\ jobStatus' = [jobStatus EXCEPT ![j] = "cancelled"]
  /\ cancelRequested' = [cancelRequested EXCEPT ![j] = TRUE]
  /\ aborted' = [x \in Run |-> aborted[x] \/ x = runToken[j]]
  /\ UNCHANGED <<processVars, runToken, platformBound, recordVars,
                 phase, kind, runJob, cursor, explicit, queue, stage, threw>>

\* DELETE FROM jobs takes the records with it and asks no run.
DeleteJob(j) ==
  /\ up
  /\ jobStatus[j] # "gone"
  /\ jobStatus' = [jobStatus EXCEPT ![j] = "gone"]
  /\ runToken' = [runToken EXCEPT ![j] = None]
  /\ recordStatus' = [r \in Record |-> IF JobOf[r] = j THEN "gone" ELSE recordStatus[r]]
  /\ UNCHANGED <<processVars, cancelRequested, platformBound, reviewStatus, hasConversation, runVars>>

\* A reviewer confirms a record: refused while a run holds the job.
ConfirmReview(r) ==
  /\ up
  /\ recordStatus[r] \notin {"processing", "gone", "absent"}
  /\ runToken[JobOf[r]] = None
  /\ ConversationReady(r)
  /\ recordStatus' = [recordStatus EXCEPT ![r] = "completed"]
  /\ reviewStatus' = [reviewStatus EXCEPT ![r] = "confirmed"]
  /\ hasConversation' = [hasConversation EXCEPT ![r] = TRUE]
  /\ UNCHANGED <<processVars, jobVars, platformBound, runVars>>

BindPlatform(j) ==
  /\ up
  /\ jobStatus[j] # "gone"
  /\ ~platformBound[j]
  /\ platformBound' = [platformBound EXCEPT ![j] = TRUE]
  /\ UNCHANGED <<processVars, jobVars, recordVars, runVars>>

-----------------------------------------------------------------------------
(* The process *)

\* All memory is lost, the rows stay as they are.
Crash ==
  /\ up
  /\ crashes < MaxCrashes
  /\ up' = FALSE
  /\ crashes' = crashes + 1
  /\ phase' = [x \in Run |-> IF phase[x] = "unused" THEN "unused" ELSE "done"]
  /\ queue' = [x \in Run |-> {}]
  /\ stage' = [x \in Run |-> [r \in Record |-> "none"]]
  /\ UNCHANGED <<jobVars, platformBound, recordVars, kind, runJob, cursor, explicit, aborted, threw>>

\* recoverStaleJobRuns, before the server accepts requests
Restart ==
  /\ ~up
  /\ up' = TRUE
  /\ recordStatus' = [r \in Record |->
       IF recordStatus[r] = "processing" THEN "failed" ELSE recordStatus[r]]
  /\ reviewStatus' = [r \in Record |->
       IF recordStatus[r] = "processing" THEN "needs_review" ELSE reviewStatus[r]]
  /\ runToken' = [j \in Job |-> None]
  /\ jobStatus' = [j \in Job |-> IF jobStatus[j] = "processing" THEN "failed" ELSE jobStatus[j]]
  /\ UNCHANGED <<crashes, cancelRequested, platformBound, hasConversation, runVars>>

-----------------------------------------------------------------------------
RecordStep(x, r) ==
  \/ TakeItem(x, r)
  \/ BeginRecord(x, r)
  \/ \E outcome \in Outcomes(x) : RecordDone(x, r, outcome)
  \/ RecordThrows(x, r)
  \/ RecordAborted(x, r)

RunStep(x) ==
  \/ LoadBatch(x)
  \/ DropBatch(x)
  \/ BatchComplete(x)
  \/ FinishBatch(x)
  \/ FinishSingle(x)
  \/ \E r \in Record : RecordStep(x, r)

Start(x) ==
  \/ \E j \in Job :
       \/ AnalyzeJob(x, j)
       \/ \E S \in SUBSET Record : AnalyzeTargeted(x, j, S)
       \/ RetryFailed(x, j)
  \/ \E r \in Record : AnalyzeRecord(x, r) \/ AnalyzeField(x, r)

\* the operators, and the import that is still at work
Operator ==
  \/ \E j \in Job :
       \/ AddRecords(j)
       \/ StartGivesUp(j)
       \/ RequestPause(j)
       \/ RequestCancel(j)
       \/ DeleteJob(j)
       \/ BindPlatform(j)
  \/ \E r \in Record : ConfirmReview(r)

Next ==
  \/ \E x \in Run : Start(x) \/ RunStep(x)
  \/ Operator
  \/ Crash
  \/ Restart

Spec == Init /\ [][Next]_vars

\* A run keeps going: its awaits are file reads and model calls with time limits.
FairSpec == Spec /\ \A x \in Run : WF_vars(RunStep(x))

-----------------------------------------------------------------------------
(* Safety *)

\* A row in "processing" is always being worked on by the run that holds its
\* job: no path (abort, exception, deletion, crash and recovery) leaves a record
\* stuck, which no later batch would ever load again.
ProcessingIsOwned ==
  up => \A r \in Record : recordStatus[r] = "processing" =>
          /\ runToken[JobOf[r]] \in Run
          /\ stage[runToken[JobOf[r]]][r] = "analyzing"

\* A job's lock is only ever held by a live run of that job: a leaked token
\* would refuse every later run until the process restarts.
LockIsLive ==
  up => \A j \in Job : runToken[j] # None =>
          /\ runToken[j] \in Run
          /\ phase[runToken[j]] \in {"loading", "working"}
          /\ runJob[runToken[j]] = j

\* A record shows a result only together with its conversation id.
ResultHasConversation ==
  \A r \in Record : recordStatus[r] \in {"completed", "needs_review"} => hasConversation[r]

-----------------------------------------------------------------------------
(* The inductive invariant behind these *)

\* Taking the lock sets "processing", and the holder's job can only be stopped.
TokenStatus ==
  \A j \in Job : runToken[j] # None => jobStatus[j] \in {"processing", "paused", "cancelled"}

\* A run in memory holds its job, or the job was deleted under it.
RunsHold ==
  \A x \in Run : phase[x] \in {"loading", "working"} =>
    /\ up
    /\ runJob[x] \in Job
    /\ runToken[runJob[x]] = x \/ jobStatus[runJob[x]] = "gone"

\* What has no result under "completed" has not been begun.
CompletedIsSettled ==
  \A r \in Record : jobStatus[JobOf[r]] = "completed" =>
    recordStatus[r] \in {"absent", "pending", "completed", "needs_review"}

GoneTogether ==
  \A r \in Record : recordStatus[r] = "gone" <=> jobStatus[JobOf[r]] = "gone"

StagesBelong ==
  \A x \in Run, r \in Record : stage[x][r] # "none" =>
    phase[x] = "working" /\ runJob[x] = JobOf[r]

\* What is queued is of the run's job and not yet begun.
QueuesBelong ==
  \A x \in Run :
    /\ \A r \in queue[x] : /\ phase[x] = "working"
                           /\ runJob[x] = JobOf[r]
                           /\ stage[x][r] = "none"
                           /\ kind[x] \in {"batch", "targeted"}
    /\ (kind[x] = "targeted" /\ phase[x] # "unused") =>
         \A r \in explicit[x] : runJob[x] = JobOf[r]

\* While a run holds its job, the abort signal in memory and the cancel flag in
\* the row say the same.
AbortIsFlagged ==
  \A x \in Run :
    /\ phase[x] = "unused" => ~aborted[x]
    /\ Owns(x) => (aborted[x] <=> cancelRequested[runJob[x]])

\* What a batch run has passed and not in its hands is no longer waiting, unless
\* the job was stopped.
PassedBy(x) ==
  /\ phase[x] = "unused" => cursor[x] = 0
  /\ (/\ phase[x] \in {"loading", "working"}
      /\ kind[x] = "batch"
      /\ ~ShouldStop(runJob[x])) =>
       \A r \in AllOf(runJob[x]) :
         (r <= cursor[x] /\ recordStatus[r] = "pending") => (r \in queue[x] \/ stage[x][r] # "none")

CursorPassed == \A x \in Run : PassedBy(x)

IInv ==
  /\ TypeOK
  /\ TokenStatus
  /\ RunsHold
  /\ GoneTogether
  /\ StagesBelong
  /\ QueuesBelong
  /\ AbortIsFlagged
  /\ LockIsLive
  /\ ProcessingIsOwned
  /\ CompletedIsSettled
  /\ ResultHasConversation

-----------------------------------------------------------------------------
(* What a step may never do *)

WaitsUnderCompleted(r) ==
  recordStatus'[r] \in {"pending", "processing", "failed"} /\ jobStatus'[JobOf[r]] = "completed"

CompletesWhatIsThere ==
  \A r \in Record : WaitsUnderCompleted(r) =>
    /\ jobStatus[JobOf[r]] = "completed"
    /\ recordStatus[r] \in {"absent", "pending"} /\ recordStatus'[r] = "pending"

\* Every step that makes a job say "completed" finds a result in each record that
\* is there, after whatever retries, stops, exceptions and crashes, and while the
\* job says so no record loses its result. What may wait under "completed" are
\* only the records that the import added after the job, still without any, had
\* been started and finished: they are pending and the status is not taken back
\* (runPreparedAnalysisJob's final status, createJob against addRecords).
CompletedIsComplete == [][CompletesWhatIsThere]_vars

KeepsStop ==
  \A j \in Job :
    (jobStatus[j] \in {"paused", "cancelled"} /\ runToken[j] # None) =>
      \/ jobStatus'[j] \in {jobStatus[j], "gone"}
      \/ jobStatus[j] = "paused" /\ jobStatus'[j] = "cancelled"

\* Once an operator paused or cancelled a running job, nothing the run still
\* writes (progress after the batch, the final status, the release), no crash
\* and no recovery takes that back; a pause may only become a cancellation.
OperatorStopStands == [][KeepsStop]_vars

BeginsWhileRunning ==
  \A x \in Run, r \in Record :
    (stage[x][r] = "none" /\ stage'[x][r] # "none") => jobStatus'[JobOf[r]] = "processing"

\* After the stop no further record of the job is begun.
StopAdmitsNoRecord == [][BeginsWhileRunning]_vars

SettlesAsNotDone ==
  \A r \in Record :
    (/\ up /\ cancelRequested[JobOf[r]]
     /\ recordStatus[r] = "processing" /\ recordStatus'[r] # "processing") =>
      recordStatus'[r] \in {"pending", "gone"}

\* A cancelled run settles what it had in flight as not done, never as failed;
\* only the recovery after a crash may do that.
CancelNeverFailsRecords == [][SettlesAsNotDone]_vars

EndsWithNothingPending ==
  \A x \in Run :
    (/\ up' /\ phase[x] = "loading" /\ phase'[x] = "done"
     /\ kind[x] = "batch" /\ ~ShouldStop(runJob[x])) =>
      \A r \in RecordsOf(runJob[x]) : recordStatus[r] # "pending"

\* A full batch run that nobody stopped has visited every record: it never
\* ends with a record still waiting.
BatchLeavesNothingPending == [][EndsWithNothingPending]_vars

AbortsByCancel ==
  \A x \in Run : (~aborted[x] /\ aborted'[x]) =>
    /\ runJob[x] \in Job
    /\ jobStatus'[runJob[x]] = "cancelled"
    /\ cancelRequested'[runJob[x]]

\* A pause lets the records in flight finish: only a cancellation aborts a run,
\* and only the run of the cancelled job.
OnlyCancelAborts == [][AbortsByCancel]_vars

KeepsConversation ==
  \A r \in Record :
    /\ hasConversation[r] => hasConversation'[r]
    /\ (~hasConversation[r] /\ hasConversation'[r]) => recordStatus'[r] \in {"completed", "needs_review"}

\* A conversation id is assigned in the step that shows a result, and stays.
ConversationIsPermanent == [][KeepsConversation]_vars

\* The run lock is the fence that JobFence specifies: one holder per job, fresh
\* tokens, and no run that has a record in hand writes its result, or takes up
\* another one, unless the row still carries that run's own token; a run that
\* lost its job can only drop what it has in hand (assertRunOwnership).
Fence == INSTANCE JobFence WITH
  holder <- runToken,
  spent <- {x \in Run : phase[x] # "unused"},
  doing <- stage,
  result <- recordStatus,
  Result <- RecordStatus

FenceSpec == Fence!Spec

-----------------------------------------------------------------------------
(* Liveness *)

\* Every run ends, however it is paused, cancelled or its job deleted, and its
\* job's lock is given back, or the process is down.
EveryRunEnds ==
  /\ \A x \in Run : phase[x] \in {"loading", "working"} ~> phase[x] = "done"
  /\ \A j \in Job : runToken[j] # None ~> (runToken[j] = None \/ ~up)
=============================================================================
