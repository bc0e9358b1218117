--------------------------- MODULE RecordAnalysis ---------------------------
(***************************************************************************)
(* One record and its fields: which fields an analysis repeats, in which   *)
(* order their handlers are called and on which inputs, what is written,   *)
(* and what an abort or a crash leaves behind. JobRun sees of this only    *)
(* the record's outcome; its lock makes at most one analysis of a record   *)
(* run at a time, which is taken as given here, as is the job's platform.  *)
(***************************************************************************)
EXTENDS Naturals

CONSTANTS
  Field,          \* the enabled fields of the job's configuration version
  DependsOn,      \* the fields a field depends on
  Rowless,        \* fields whose handler may throw before it writes a run
  None,           \* no field
  MaxAnalyses,    \* bound: analyses of the record
  MaxAccidents    \* bound: aborts, crashes and failures that left no run

ASSUME DependsAssumption == DependsOn \in [Field -> SUBSET Field]
ASSUME AcyclicAssumption ==
  \A S \in SUBSET Field : S # {} => \E f \in S : DependsOn[f] \cap S = {}
ASSUME RowlessAssumption == Rowless \subseteq Field /\ None \notin Field
ASSUME BoundAssumption == MaxAnalyses \in Nat /\ MaxAccidents \in Nat

VARIABLES
  status, review,     \* the record's row
  latest,             \* status of the latest run of each field
  basis,              \* the dependencies whose latest result that run has read
  phase, mode,        \* the analysis under way
  selected,           \* the fields it repeats
  state,              \* what has become of them, FieldExecutionState
  context,            \* the fields whose result it can read
  calling,            \* the field whose handler is awaited
  analyses, accidents

rowVars == <<status, review>>
fieldVars == <<latest, basis>>
runVars == <<phase, mode, selected, state, context, calling>>
vars == <<rowVars, fieldVars, runVars, analyses, accidents>>

Outcome == {"completed", "needs_review", "failed"}
Usable == {"completed", "needs_review"}

TypeOK ==
  /\ status \in {"pending", "processing", "completed", "failed", "needs_review"}
  /\ review \in {"pending", "confirmed", "needs_review"}
  /\ latest \in [Field -> Outcome \cup {"none", "skipped"}]
  /\ basis \in [Field -> SUBSET Field]
  /\ phase \in {"idle", "reading", "running"}
  /\ mode \in {"record", "field"}
  /\ selected \in SUBSET Field
  /\ state \in [Field -> Outcome \cup {"none", "skipped"}]
  /\ context \in SUBSET Field
  /\ calling \in Field \cup {None}
  /\ analyses \in Nat
  /\ accidents \in Nat

Init ==
  /\ status = "pending" /\ review = "pending"
  /\ latest = [f \in Field |-> "none"]
  /\ basis = [f \in Field |-> {}]
  /\ phase = "idle" /\ mode = "record"
  /\ selected = {}
  /\ state = [f \in Field |-> "none"]
  /\ context = {}
  /\ calling = None
  /\ analyses = 0 /\ accidents = 0

-----------------------------------------------------------------------------
(* Which fields are repeated *)

\* With a field, what depends on it.
Closed(S) == \A f \in Field : DependsOn[f] \cap S # {} => f \in S

\* mutant: only direct dependants are added
DirectDependants(S) == S \cup {f \in Field : DependsOn[f] \cap S # {}}

\* descendantKeys: the least such set around S
Descendants(S) ==
  {f \in Field : \A T \in SUBSET Field : (S \subseteq T /\ Closed(T)) => f \in T}

Unfinished == {f \in Field : latest[f] # "completed"}

\* An analysis of a record that is not completed resumes where runs are missing.
Repeated ==
  IF status # "completed" /\ \E f \in Field : latest[f] # "none"
  THEN Descendants(Unfinished)
  ELSE Field

-----------------------------------------------------------------------------
(* An analysis begins *)

Begin(kind, fields, inputs) ==
  /\ phase = "idle"
  /\ analyses < MaxAnalyses
  /\ phase' = "reading"
  /\ mode' = kind
  /\ selected' = fields
  /\ state' = [f \in Field |-> "none"]
  /\ context' = inputs
  /\ analyses' = analyses + 1
  /\ UNCHANGED <<rowVars, fieldVars, calling, accidents>>

\* analyzeRecordFields, up to the image: what is not repeated is completed
AnalyzeRecord == Begin("record", Repeated, Field \ Repeated)

\* analyzeField, refused when the field lacks the result of a dependency
AnalyzeField(f) ==
  LET others == {g \in Field \ Descendants({f}) : latest[g] \in Usable} IN
  /\ DependsOn[f] \subseteq others
  /\ Begin("field", Descendants({f}), others)

\* The image has been read. Only the analysis of a record marks it.
ImageRead ==
  /\ phase = "reading"
  /\ phase' = "running"
  /\ status' = IF mode = "record" THEN "processing" ELSE status
  /\ UNCHANGED <<review, fieldVars, mode, selected, state, context, calling, analyses, accidents>>

\* The image cannot be read: a batch marks the record, a single run does not.
ImageUnreadable ==
  /\ phase = "reading"
  /\ phase' = "idle"
  /\ \/ UNCHANGED rowVars
     \/ mode = "record" /\ status' = "failed" /\ review' = "needs_review"
  /\ UNCHANGED <<fieldVars, mode, selected, state, context, calling, analyses, accidents>>

-----------------------------------------------------------------------------
(* executeFieldGraph *)

Todo == {f \in selected : state[f] = "none"}

\* mutant: a field waits for the results of its dependencies
IsNextWithInputs(f) ==
  /\ phase = "running"
  /\ calling = None
  /\ f \in Todo
  /\ DependsOn[f] \subseteq context

\* the next field in an order in which dependencies come first
IsNext(f) ==
  /\ phase = "running"
  /\ calling = None
  /\ f \in Todo
  /\ DependsOn[f] \cap Todo = {}

\* mutant: a skipped dependency does not count
DependencyOnlyFailed(f) == \E d \in DependsOn[f] : state[d] = "failed"

DependencyFailed(f) == \E d \in DependsOn[f] : state[d] \in {"failed", "skipped"}

SkipField(f) ==
  /\ IsNext(f)
  /\ DependencyFailed(f)
  /\ state' = [state EXCEPT ![f] = "skipped"]
  /\ UNCHANGED <<rowVars, fieldVars, phase, mode, selected, context, calling, analyses, accidents>>

CallField(f) ==
  /\ IsNext(f)
  /\ ~DependencyFailed(f)
  /\ calling' = f
  /\ UNCHANGED <<rowVars, fieldVars, phase, mode, selected, state, context, analyses, accidents>>

\* The fields of S have new runs that read the results of inputs: what was
\* computed from their earlier results no longer is from their latest.
BasisAfter(S, inputs) ==
  [g \in Field |-> (IF g \in S THEN DependsOn[g] \cap inputs ELSE basis[g]) \ S]

ContextAfter(f, outcome) == IF outcome \in Usable THEN context \cup {f} ELSE context

\* The handler returns and has written its run.
FieldDone(f, outcome) ==
  /\ calling = f
  /\ calling' = None
  /\ latest' = [latest EXCEPT ![f] = outcome]
  /\ basis' = BasisAfter({f}, context)
  /\ state' = [state EXCEPT ![f] = outcome]
  /\ context' = ContextAfter(f, outcome)
  /\ UNCHANGED <<rowVars, phase, mode, selected, analyses, accidents>>

\* The handler throws before it has written anything: the hot-topic capture
\* when the request budget is used up or runs out while it queues.
FieldThrows(f) ==
  /\ f \in Rowless
  /\ accidents < MaxAccidents
  /\ calling = f
  /\ calling' = None
  /\ state' = [state EXCEPT ![f] = "failed"]
  /\ accidents' = accidents + 1
  /\ UNCHANGED <<rowVars, fieldVars, phase, mode, selected, context, analyses>>

-----------------------------------------------------------------------------
(* The analysis ends *)

Skipped == {f \in selected : state[f] = "skipped"}

WriteSkipped(S) ==
  /\ latest' = [f \in Field |-> IF f \in S THEN "skipped" ELSE latest[f]]
  /\ basis' = BasisAfter(S, {})

\* mutant: fields that need review are forgotten
RecordOutcomeUnreviewed ==
  IF \E f \in selected : state[f] = "failed" THEN "failed" ELSE "completed"

\* from the states of this analysis
RecordOutcome ==
  IF \E f \in selected : state[f] = "failed" THEN "failed"
  ELSE IF \E f \in selected : state[f] \in {"needs_review", "skipped"} THEN "needs_review"
  ELSE "completed"

\* from the latest run of every field
FieldOutcome(runs) ==
  LET statuses == {runs[f] : f \in Field} IN
  IF "failed" \in statuses THEN "failed"
  ELSE IF statuses \cap {"needs_review", "skipped"} # {} THEN "needs_review"
  ELSE IF "none" \in statuses THEN "pending"
  ELSE "completed"

Conclude ==
  /\ phase = "running"
  /\ calling = None /\ Todo = {}
  /\ WriteSkipped(Skipped)
  /\ status' = IF mode = "record" THEN RecordOutcome ELSE FieldOutcome(latest')
  /\ review' = IF status' \in {"failed", "needs_review"} THEN "needs_review" ELSE "pending"
  /\ phase' = "idle"
  /\ UNCHANGED <<mode, selected, state, context, calling, analyses, accidents>>

\* The job is cancelled while something is awaited; a late answer is refused,
\* and only a record in "processing" is settled.
Abort ==
  /\ phase = "reading" \/ calling # None
  /\ accidents < MaxAccidents
  /\ accidents' = accidents + 1
  /\ phase' = "idle"
  /\ calling' = None
  /\ status' = IF status = "processing" THEN "pending" ELSE status
  /\ review' = IF status = "processing" THEN "pending" ELSE review
  /\ UNCHANGED <<fieldVars, mode, selected, state, context, analyses>>

\* The process dies, perhaps with some of the skipped fields written, and
\* recovers before it serves another request.
Crash(S) ==
  /\ phase # "idle"
  /\ accidents < MaxAccidents
  /\ accidents' = accidents + 1
  /\ S \subseteq Skipped /\ (S # {} => (phase = "running" /\ calling = None /\ Todo = {}))
  /\ WriteSkipped(S)
  /\ phase' = "idle"
  /\ calling' = None
  /\ status' = IF status = "processing" THEN "failed" ELSE status
  /\ review' = IF status = "processing" THEN "needs_review" ELSE review
  /\ UNCHANGED <<mode, selected, state, context, analyses>>

-----------------------------------------------------------------------------
(* Requests between analyses *)

\* a retry of the job's failed records
ResetFailed ==
  /\ phase = "idle"
  /\ status = "failed"
  /\ status' = "pending" /\ review' = "pending"
  /\ UNCHANGED <<fieldVars, runVars, analyses, accidents>>

ConfirmReview ==
  /\ phase = "idle"
  /\ status' = "completed" /\ review' = "confirmed"
  /\ UNCHANGED <<fieldVars, runVars, analyses, accidents>>

FieldStep(f) ==
  \/ SkipField(f)
  \/ CallField(f)
  \/ \E outcome \in Outcome : FieldDone(f, outcome)
  \/ FieldThrows(f)

AnalysisStep ==
  \/ ImageRead
  \/ ImageUnreadable
  \/ \E f \in Field : FieldStep(f)
  \/ Conclude

Next ==
  \/ AnalyzeRecord
  \/ \E f \in Field : AnalyzeField(f)
  \/ AnalysisStep
  \/ Abort
  \/ \E S \in SUBSET Field : Crash(S)
  \/ ResetFailed
  \/ ConfirmReview

Spec == Init /\ [][Next]_vars

\* An analysis keeps going: it awaits one file and model calls with time limits.
FairSpec == Spec /\ WF_vars(AnalysisStep)

-----------------------------------------------------------------------------
(* What holds during an analysis *)

\* Handlers are called while the graph is executed, on a field whose
\* dependencies are through and did not fail.
CallingIsNext ==
  calling # None =>
    /\ phase = "running"
    /\ calling \in Todo
    /\ DependsOn[calling] \cap Todo = {}
    /\ ~DependencyFailed(calling)

\* What has a state was selected; a usable result can be read, and is the
\* field's latest run.
StatesAreRuns ==
  phase # "idle" => \A f \in Field :
    /\ state[f] # "none" => f \in selected
    /\ f \in selected => (f \in context <=> state[f] \in Usable)
    /\ state[f] \in Usable => latest[f] = state[f]
    /\ (state[f] = "failed" /\ accidents = 0) => latest[f] = "failed"
    /\ state[f] = "skipped" => DependencyFailed(f)

\* A field gets its state after its dependencies.
DependenciesFirst ==
  phase # "idle" => \A f \in Field : state[f] # "none" => DependsOn[f] \cap Todo = {}

\* What is not selected can be read if it has a usable result, and in the
\* analysis of a record it has a completed one.
OthersAreKept ==
  phase # "idle" => \A f \in Field \ selected :
    /\ latest[f] \in Usable => f \in context
    /\ mode = "record" => (f \in context /\ latest[f] = "completed")

SelectedIsClosed == phase # "idle" => Closed(selected)

\* What a resumed analysis selects is unfinished, or follows from what is selected.
SelectedIsNeeded ==
  (phase # "idle" /\ mode = "record" /\ selected # Field) =>
    \A f \in Todo : latest[f] = "completed" => DependsOn[f] \cap selected # {}

\* What an analysis reads is always the latest run of a field, never one that
\* failed or was replaced since.
ContextIsLatest ==
  phase # "idle" => \A f \in context : latest[f] \in Usable

\* The analysis of a record calls a field only with a result of each of its
\* dependencies, whether made now or kept from an interrupted analysis.
InputsComplete ==
  (mode = "record" /\ calling # None) => DependsOn[calling] \subseteq context

\* the fields whose latest run the analysis under way will not replace
Settles(f) == phase # "running" \/ f \notin selected \/ state[f] \in Outcome

BasisIsLatest ==
  accidents = 0 => \A f \in Field : (Settles(f) /\ latest[f] = "completed") =>
    \A d \in DependsOn[f] : latest[d] = "completed" => d \in basis[f]

SkipsAreCaused ==
  accidents = 0 => \A f \in Field : (Settles(f) /\ latest[f] = "skipped") =>
    \E d \in DependsOn[f] : latest[d] \in {"failed", "skipped"}

CompletedMeansAll ==
  (accidents = 0 /\ phase # "running" /\ status = "completed" /\ review # "confirmed") =>
    \A f \in Field : latest[f] = "completed"

AInv ==
  /\ TypeOK
  /\ CallingIsNext
  /\ StatesAreRuns
  /\ DependenciesFirst
  /\ OthersAreKept
  /\ SelectedIsClosed
  /\ SelectedIsNeeded
  /\ ContextIsLatest
  /\ BasisIsLatest
  /\ SkipsAreCaused
  /\ CompletedMeansAll

-----------------------------------------------------------------------------
(* What an analysis promises *)

\* A record that says completed, and that no person confirmed, shows for each
\* field the result of the latest results of the field's dependencies.
CompletedIsConsistent ==
  (phase = "idle" /\ status = "completed" /\ review # "confirmed") =>
    \A f \in Field : DependsOn[f] \subseteq basis[f]

\* That is so as long as no analysis was aborted, no process died and no
\* failure went unrecorded, after any order of analyses, retries and reviews.
UndisturbedIsConsistent == accidents = 0 => CompletedIsConsistent

\* As long as nothing was disturbed, a skipped field has a dependency to blame:
\* retries leave no field behind that could have run.
SkippedHasCause ==
  (accidents = 0 /\ phase = "idle") =>
    \A f \in Field : latest[f] = "skipped" =>
      \E d \in DependsOn[f] : latest[d] \in {"failed", "skipped"}

\* the analysis came to its end
Concludes == phase = "running" /\ phase' = "idle" /\ accidents' = accidents

ConcludesAsCompleted ==
  (Concludes /\ status' = "completed") => \A f \in Field : latest'[f] = "completed"

\* An analysis that ends by itself calls the record completed only when the
\* latest run of every field is, also of the fields it did not repeat.
CompletedOnlyIfAllAre == [][ConcludesAsCompleted]_vars

CallsForCause ==
  (/\ calling = None /\ calling' # None
   /\ mode = "record" /\ selected # Field
   /\ latest[calling'] = "completed") => \E d \in DependsOn[calling'] : state[d] # "none"

\* A resumed analysis pays again for a field that has a result only when one of
\* the field's dependencies was repeated before it.
RepeatsNothingInVain == [][CallsForCause]_vars

\* Every analysis ends: dependencies never leave fields waiting for each other.
AnalysisEnds == phase # "idle" ~> phase = "idle"
=============================================================================
