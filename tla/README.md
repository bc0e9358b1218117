# A TLA+ verification of the customer-chat analysis centre

The program is a local web service (Node, Express, synchronous SQLite) that
imports workbooks of customer chats, analyses every chat field by field with
language models, and lets people review, confirm and export the results. This
directory holds TLA+ modules translated from its source, the TLC configurations
that check them on small instances, and theorems that TLAPS proves for every
value of the constants. Paths below are relative to the repository;
`services/`, `db/` and `auth/` are under `src/server/`.

## 1. The system

### 1.1 Components

| Component | State it keeps | Operations | Talks to |
|---|---|---|---|
| Analysis runs of jobs (`services/batch-analysis-service.ts`, `run-ownership.ts`, `analysis-cancellation.ts`, `db/repositories.ts`) | `jobs.status`, `run_token`, `cancel_requested`; an abort controller per run in memory | start, targeted start, retry failed, single record, single field, pause, cancel, batch loop, release, recovery | record analysis, the rows, HTTP routes |
| Job and record rows (`db/repositories.ts`, `job-management-service.ts`) | status, review status, errors, results, reviews | progress, review, platform binding, deletion with files | everything |
| Conversation ids (`conversation-id-service.ts`) | `records.conversation_id`, unique and permanent | assigned with the first result | record rows |
| Record and field analysis (`services/execution/`, `field-analysis-service.ts`, `field-run-service.ts`) | field runs, the latest result per field | run a record's field graph, repeat one field | model pool, record rows |
| Field handlers (`services/fields/`, `structured.ts`) | what one field stores beside its run: links, copies, facts | one field: prompt, call, parse, store | model pool, knowledge |
| Model pool and routing (`model-pool-service.ts`, `ai/`) | per-model health, cooldown, failures, rotation | pick candidates, call, retry, switch, disable | budget, model rows |
| Paid token budget (`ai/model-budget.ts`, `model-pool-service.ts`) | per-batch counters, daily and monthly usage rows | reserve, settle, release | model pool |
| Model administration (`model-config-service.ts`, `bailian-free-pool-sync-service.ts`) | rows of models and providers, previews, checks under way | edit, check a capability, preview and apply a catalogue | model pool |
| Section configuration versions (`section-config-version-service.ts`, `field-config-service.ts`) | drafts, published and archived versions, the live table of fields | draft, publish, activate, archive, restore, edit the live table | jobs and imports are bound to a version |
| Import pipeline (`import-worker.ts`, `streaming-xlsx-import-service.ts`) | import rows, staging and job directories | preview, accept, claim, stage, create job and records, recover | disk reservations, jobs |
| Disk reservations (`security/disk-reservations.ts`) | leases on free space | reserve, check, consume, release | imports, uploads |
| Knowledge synchronisation (`services/knowledge/knowledge-sync-service.ts`) | outbox row, catalogue file, state file, a hash in memory | initialise, export, restore, repository and tool | knowledge rows |
| Hot-topic capture (`hot-topic-service.ts`) | a serial queue of promises, the question base, links | capture, match, commit, abort | knowledge base |
| Knowledge bases (`knowledge-*-service.ts`) | bases, items, uploads, match cache and copies | edit, preview and import, match | fields, versions |
| Identity, sessions, audit (`auth/`) | users, sessions | sign in and out, edit users, host commands | every route |
| Backup and maintenance (`backup-scheduler.ts`, `server/backup/`) | a lock file, backup directories | back up, restore, clean up | jobs and imports postpone it |
| Start-up (`startup.ts`, instance lock) | one listening port | open the data, upgrade, recover, serve | all |
| Migrations and seed (`db/migrations/`, `db/seed.ts`) | `schema_migrations`, sections and their versions | migrate, reconcile, seed | versions |
| Reception quality, lost deals (`reception-quality*.ts`, `lost-deal-*.ts`) | the judgement of a conversation, links to reasons | check an answer, derive cells, store | fields, export |
| Export (`excel-export-service.ts`, `excel-template-service.ts`) | none | place columns, merge runs and corrections | rows |
| Client (`src/client/`) | what a tab shows, drafts, polls, dialogs | navigate, save, poll, start, import | routes |
| Encryption keys, capacity reports and logs, scripts | none that runs keep | one-off or pure | - |

`PROJECT.json` has a row for each with what is modelled of it.

### 1.2 What is hard

The server is single-threaded, so code between two `await`s is atomic, but its
operations live across many awaits (file reads, model calls), and everything
read before one may be false after it:

* operators pause, cancel, delete, bind, edit and review while a run is between
  awaits; the run's later writes must not undo that;
* a pause and a cancellation are two different promises: a pause lets records
  in flight finish, a cancellation drops them;
* a late model answer of an old run must not be written under a new one; a
  capability check, a match, a capture, an import must not write what it learned
  of something that has since become something else;
* what was previewed (a catalogue of models, a knowledge workbook, an imported
  workbook) is applied later, to rows that changed;
* an exception in one record, one start or one final write must neither leave a
  row in `processing` nor keep the lock; an import that fails half way must leave
  neither files without rows nor rows without files;
* a crash leaves `processing` rows, tokens, reservations, directories and a
  catalogue half exported, and the next start must repair them;
* limits are shared: paid tokens over midnight, free disk space, six requests a
  call, a queue of captures;
* the browser receives its replies late, out of order or not at all, while the
  person goes on.

`PROJECT.json` lists the hazards at their lines under "hazards", with the
properties that guard them. Two are known and have none, because the model
leaves out what it takes to meet them: a write that throws inside a worker's
`catch` lets `Promise.all` return while its siblings go on
(`services/batch-analysis-service.ts:109`; a single SQLite statement does not
fail in the models), and deleting a model deletes its usage events and with them
what was spent today (`services/model-config-service.ts:146`).

### 1.3 What makes each component correct

* Runs: one holder per job; no orphaned `processing` row; stops stand; a job comes
  to say `completed` only over records that have results; every run ends.
* Record analysis: fields are called with their inputs; what is shown follows
  from the latest results; every analysis ends.
* Budget: what is reserved and not settled is bounded and given back once.
* Model pool: nobody is asked in vain and nobody who could answer is left out.
* Model rows: what was measured and decided of a model is of that model.
* Versions: what was accepted under a version is carried out under that content;
  one published version is current; every published one can be gone back to.
* Imports: rows and files agree; one job per import; a backup restores; every
  claimed import ends.
* Disk: the minimum stays free, and what was granted is honoured.
* Knowledge sync: no edit is replaced unseen; "ready" is true.
* Captures, matches, attributions: a record's links and copies are those of its
  newest run that counts, and a late answer changes nothing.
* Sessions: nobody is signed in whose account would not let them; an
  administrator remains.
* Upgrades: every path from an earlier release ends in one configuration, and
  nothing that was published or found changes on the way.
* Quality check: deductions are proven, an incomplete answer is seen by a person,
  and the workbook says what the screen says.
* Client: what a tab shows belongs together, drafts are not lost to replies, and
  what runs is what was asked for.

## 2. Plan

1. Runs (`JobRun`, `JobFence`), records (`RecordAnalysis`), paid tokens
   (`PaidBudget`). **Done, with proofs.**
2. Routing and catalogue of models (`ModelRouting`, `ModelCatalog`). **Done, with
   proofs.**
3. Imports from upload to deletion and backup (`Imports`) and disk
   (`DiskReservations`), and what becomes of a workbook (`SheetImport`). **Done, with
   proofs.**
4. Versions (`SectionVersions`) and upgrades (`Upgrades`). **Done, with proofs.**
5. Knowledge: `KnowledgeSync`, `HotTopic`, `KnowledgeImport`, `KnowledgeMatch`,
   `KnowledgeDesk`. **Done, with proofs.**
6. Accounts (`Identity`). **Done, with proofs.**
7. What an answer is worth and what is made of it: `ReceptionQuality`, `ReceptionReport`,
   `LostDeal`, `Workbook`. **Done, with proofs.**
8. The browser tab: `ClientViews`, `ClientPolling`, `ClientStarts`. **Done, with
   proofs.**
9. Left: changes of the paid limits and deletion of models in `PaidBudget`; the
   administration dialogs and the batch control of several tasks in the client;
   the backup schedule and its retention. Every invariant and action property of a
   passing run that holds is a theorem too; liveness is left to TLC (section 5.6).

Every module takes its sets and limits as CONSTANTS with named assumptions, has
one action per operation and states its invariants as conjunctions of named
parts, so that TLAPS can be used on it.

## 3. Modules

| Module | What it is |
|---|---|
| `JobRun`, `JobFence` | The analysis runs of jobs, and everything that acts on them; what the run lock promises, abstractly. |
| `JobRunProofs` | Type correctness; the inductive invariant and the state properties; the action properties, and that `JobRun` implements `JobFence`. |
| `RecordAnalysis`, `RecordAnalysisProofs` | The analyses of one record, field by field. |
| `PaidBudget`, `PaidBudgetProofs` | The paid tokens of a batch, a day and a month. |
| `ModelRouting` | Concurrent calls over the members of the model pool. |
| `ModelCatalog` | The rows of a provider's models, their checks and synchronisation. |
| `SectionVersions` | Versions of a section, the live table, and what is bound to them. |
| `Upgrades` | Starts of several releases on old and new databases. |
| `ConfigurationProofs` | Proofs of the last four modules: routing, catalogue, versions, upgrades. |
| `Imports`, `ImportsProofs` | From the upload of a workbook to a job, its removal, its backup. |
| `SheetImport` | What is previewed and made of a workbook. |
| `DiskReservations` | Leases on the free space of the disk. |
| `KnowledgeSync` | The knowledge snapshot beside the code. |
| `HotTopic` | The capture of customer questions. |
| `KnowledgeImport` | Knowledge bases, edited and imported. |
| `KnowledgeMatch` | The choice of a knowledge item for a record. |
| `KnowledgeDesk` | The page on which a person keeps the bases. |
| `KnowledgeProofs` | Proofs of these five modules. |
| `Identity` | Accounts, passwords, sessions. |
| `ReceptionQuality`, `ReceptionReport` | The evidence of a quality check; the report made of it. |
| `LostDeal` | The attribution of a lost deal. |
| `Workbook` | Results of a record, corrected by people and exported. |
| `ClientViews` | What a tab shows and saves. |
| `ClientPolling`, `ClientStarts` | How it polls, and what it starts. |
| `FilesProofs` | Proofs of `DiskReservations`, `SheetImport` and `Workbook`. |
| `SurroundingsProofs` | Proofs of `Identity`, `ReceptionQuality`, `ReceptionReport`, `LostDeal` and the three modules of the tab. |
| `MCJobRun`, `MCRecordAnalysis`, `MCPaidBudget`, `MCImports` | Values of the constants for TLC. |
| `MCConfiguration`, `MCKnowledge`, `MCSurroundings` | Several modules side by side, with values for TLC. |

How they meet. `JobRun` treats a record's analysis as one step with any outcome,
between `BeginRecord` and `RecordDone`; `RecordAnalysis` opens that step. Its
record is analysed by one run at a time, which is what `JobRun` proves of the
lock. `RecordAnalysis` treats a field as one step with any outcome, which
`ReceptionQuality`, `LostDeal`, `KnowledgeMatch` and `HotTopic` open for the
fields that keep state of their own. A model call in any of them is a call of
`ModelRouting`, whose paid requests are the routes of `PaidBudget` and whose rows
are those of `ModelCatalog`. The jobs of `JobRun` are what `Imports` makes; which
records they have is the matter of `SheetImport`, the bytes that of
`DiskReservations`, the version they are bound to that of `SectionVersions`.
`ClientStarts` sends the requests that are the starts of `JobRun`.

### 3.1 State of `JobRun`

| Variable | Code |
|---|---|
| `jobStatus`, `runToken`, `cancelRequested`, `platformBound` | columns of `jobs` (`"gone"`: the row was deleted) |
| `recordStatus`, `reviewStatus`, `hasConversation` | columns of `records` (`conversation_id` only as present or not; `"absent"`: the import has made the job and not yet its records) |
| `phase`, `kind`, `runJob` | where `runBatchLoop` or `withSingleAnalysisRun` of a run is |
| `cursor`, `explicit`, `queue` | the loop's cursor, a targeted run's remaining ids, the batch's records no worker has taken |
| `stage` | what a worker does with a record: `claimed` until it is marked as processing, then `analyzing` |
| `aborted` | the run's `AbortController` |
| `threw` | a single run is about to rethrow |
| `up`, `crashes` | the process |

A run is its token (`randomUUID`), so a value of `Run` is used once.

`JobFence` says what the lock promises without the lock: who holds a job, which records
each run has in hand (`doing`), and what the records say. A run takes up a record or
writes a result of it (`Write`) only while it is itself the holder of the record's job.
What it has in hand after its job was taken away it can only `Drop`. Everybody else
writes results of jobs that no run holds (`Decide`), or takes the job away with the same
step (`Revoke`); `Take` may reset results as it takes the job.

### 3.2 Actions of `JobRun`

| Action | Code |
|---|---|
| `AnalyzeJob`, `AnalyzeTargeted`, `RetryFailed`, `StartGivesUp` | the three start functions, with their early exits and `catch` |
| `AnalyzeRecord`, `AnalyzeField` | `withSingleAnalysisRun` |
| `LoadBatch`, `TakeItem`, `DropBatch`, `BatchComplete`, `FinishBatch`, `FinishSingle` | the loop, its workers, `onBatchComplete`, the final `writeProgress` and `releaseJobRun` |
| `BeginRecord`, `RecordDone`, `RecordThrows`, `RecordAborted` | one record: marking, the result, an exception, the settlement after an abort |
| `AddRecords` | `addRecords`, which the import calls two awaits after `createJob`; the job is visible in between |
| `RequestPause`, `RequestCancel`, `DeleteJob`, `ConfirmReview`, `BindPlatform` | the routes of operators |
| `Crash`, `Restart` | the process, and `recoverStaleJobRuns` before it serves requests |

### 3.3 Abstractions

* Which model answers what is the nondeterministic outcome of a record.
* `heartbeat_at` is written and never read: left out. The stored counters are
  recomputed from the rows whenever they are read: left out.
* The entry of the in-memory `active` map is removed a microtask after the
  release, and no request can come in between: one step.
* The worker loop's check and the load are one action each; the code takes some
  of these steps in one turn, so the model has more interleavings, not fewer.
* A targeted run's ids may be passed in any order; the model slices its set
  arbitrarily. A full run goes in row order, as `ORDER BY` does.
* A single SQLite statement does not fail. So a write that throws inside the
  `catch` of a worker, which would let `Promise.all` return while other workers
  go on (`batch-analysis-service.ts:109`), is outside the model.
* One process on one database: the instance lock is the operating system's.

### 3.4 `RecordAnalysis`

| Variable | Code |
|---|---|
| `status`, `review` | the columns of the record's row |
| `latest` | status of each field's latest row in `analysis_field_runs` |
| `basis` | ghost: the dependencies whose *current* latest result that row has read |
| `phase`, `mode` | before the image is read, or in `executeFieldGraph`; of the whole record or of one field |
| `selected`, `state`, `context`, `calling` | `fieldsToRun`, the graph's `states` and `context`, the handler that is awaited |
| `analyses`, `accidents` | counters for the bounds; `accidents` also tells the properties whether anything was disturbed |

| Action | Code |
|---|---|
| `AnalyzeRecord`, `AnalyzeField` | `analyzeRecordFieldsWithinRun`, `analyzeFieldWithinRun` up to the image: what is repeated (`descendantKeys`), what is kept, the check of the dependencies |
| `ImageRead`, `ImageUnreadable` | the `await` of the file; only a whole analysis writes `processing` |
| `SkipField`, `CallField`, `FieldDone`, `FieldThrows` | the loop of `executeFieldGraph` and the handlers' `createFieldRun` |
| `Conclude` | `createSkippedRuns` and the final `updateRecord`, which are one turn |
| `Abort`, `Crash` | the settlement after a cancellation, and recovery |
| `ResetFailed`, `ConfirmReview` | what happens to the row between two analyses |

Abstractions: a result is only "the latest of its field" or not, which `basis`
records; the order of fields is any in which dependencies come first, where the
code takes one such order by `sortOrder`; the fields are the enabled ones of the
job's version, so that dependencies on imported columns, which are always there,
and on disabled fields, which a published version excludes, do not appear. The
file is awaited also when no field needs the image, which adds an interleaving. `FieldThrows` is
possible for fields in `Rowless`: the hot-topic capture checks the request budget
before it has written anything (`hot-topic-service.ts:139`), all other handlers
turn an exception into a row. A failed write is left out as in `JobRun`.

### 3.5 `PaidBudget`

| Variable | Code |
|---|---|
| `used` | the counter in the closure of `withPaidTokenBudget`, one per batch |
| `tokens`, `heldOn` | `reserved` and `paidReservation` of a `transportCall`; a call in flight has `heldOn` # 0 |
| `rowDay`, `dayReserved`, `monthReserved` | `paid_reservation_day` and the two counters in the row of `model_pool_settings` |
| `daySpent`, `monthSpent` | `paidUsageSince` the start of the day and of the month |
| `dayExcess`, `monthExcess` | ghosts: what was billed without having been reserved on that limit |
| `today`, `crashes` | the clock, the process |

| Action | Code |
|---|---|
| `Reserve` | `reservePaidTokens` and `reservePersistedPaidAllowance`, one turn; a refusal by the second takes the first back, so that it changes nothing |
| `Settle` | the answer: `settle`, then `markSuccess` or `markFailure` writes the usage event. What the batch refuses is accounted as 0, as is the answer of a cancelled call |
| `Fail` | the `catch` of `transportCall` |
| `NewBatch` | the next `withPaidTokenBudget`, with a counter of its own |
| `Midnight`, `Crash` | the clock; a crash loses batches and calls, the row stays |

Abstractions: a call of a free model reserves nothing and is left out; the two
columns of day and month are always written together, so the day stands for both;
days are days in UTC, as in `toISOString`. The event and the settlement before it
are one step: there is no `await` between them, and a crash exactly there, which
would lose the event of a paid answer, is left out. The retry loop around the
call is that of `ModelRouting`; here a route may call again as often as it likes.


### 3.6 `ModelRouting` and `ModelCatalog`

A call of `ModelRouting` resolves and ranks the members once (`Begin`) and then
asks them one after the other. Each `await` of `routeModelPool` is a state of the
call; each way a request ends is an action: `Answered`, `Rejected` (the answer is
no use), `GivenUp`, `Retry`, `CoolDown`, `OutOfQuota`, `DisableMember`,
`DisableProvider`, `WithoutProvider`. They write the shared rows (failures, cooldown,
switches) at once, so that two calls and an operator's `Edit` interleave at every
request. `Tick` lets time go by in units of the first cooldown; a call has at most
`MaxRequests` requests and may be aborted at any `await`. Whom to ask next
is stated as the set of those who come first in the ranking (`NextCandidates`),
without sorting; ranks are never equal, so that it is one member.

`ModelCatalog` keeps the same rows from the side of their administration, one
provider's: creating, editing, deleting, defaults, removal from and restoring to
the pool, capability checks that await the provider (`Verify`, `CheckEnds`), and
the synchronisation with the provider's catalogue, whose preview stores a
fingerprint of the rows (`PreviewPool`, `ApplyPool`, `DropPreview`). Names, tiers
and priorities are left out, credentials are treated in the module's comment.

### 3.7 `SectionVersions` and `Upgrades`

A snapshot of a version is a function from the ids of its fields to their key,
switch and dependencies. The actions are those of
`section-config-version-service.ts` (`CreateDraft` to `Restore`), the older routes
that edit the live table (`UpsertField`, `DeleteField`), and what imports and jobs do
with a version: `AcceptImport`, then `BeginImport` and `CreateJob` after two awaits,
and `BindLegacy` for jobs older than the versions. `Project` is
`syncPublishedRuntimeProjection`; a projection that the table's UNIQUE constraint
refuses rolls its transaction back, and does not happen.

`Upgrades` starts programs of several releases on one database: `Migrate` takes the
pending steps in one transaction as `runMigrations` does, `Reconcile` is the repair
of one known history, `Seed` fills a database without sections. Each migration that
touches the reception section is an operator on the store named after its function
(`FirstVersion`, `Dimensions`, `TwoStages`, ... `ProtocolV2`), on five groups of fields
that the migrations treat alike. Between two starts the operator publishes,
goes back to earlier versions, edits the live table and analyses. `Stop` comes at any
point; a migration that throws leaves the store as it was. The runs of the steps
(`Migrated`, `Seeded`) are recursive functions of the schema reached so far.

### 3.8 `Imports`, `SheetImport` and `DiskReservations`

| `Imports` | Code |
|---|---|
| `imp`, `job` | rows of `import_jobs`, of `jobs` with their records |
| `files` | what lies under the data directory, one element per file |
| `wk`, `removing` | where the worker of an import is; what is still to be removed |
| `bk`, `locked`, `packs` | the backup under way, its lock, the promoted backups |
| `Upload`, `Refuse`, `Accept`, `AcceptFails` | `createSafeUpload`, `POST /api/jobs/import` |
| `Work` (`CopySource`, `ExtractAndCreateJob`, `Move`, `Attach`, `Clear`, `Purge` and their failures) | `importWorkbookStreaming`, `runImportJob` |
| `RemoveJob`, `RemoveFiles` | `removeJob` |
| `Backup`, `Maintain` | `createFullBackup`, `maintainFiles` (stopped server only) |
| `CrashInAccept`, `CrashInAttach`, `Crash`, `Restart` | a crash, also between two statements that are not one transaction; `recoverImportJobs` |
| `RestoredImport`, `RestoreVerifies` | `restoreFullBackup`, `verifyRestoredEnvironment`, as functions of a backup |

`SheetImport` is the other half: the sequential judgement of a workbook by the
preview (`PreviewOf`) and again by the worker (`Make`), and the dialog between them,
while an operator renames the platform. A sheet is its headers (keyed or plain),
which result columns each row fills (a cell is read by the header above it, so there is none
without one), and the anchors of its pictures. A picture is its number on its sheet; the task is
a function from the pictures that count to records, since nothing depends on the records' order.
`DiskReservations` counts bytes: `Reserve`, `Write`, `Land` (the operating system),
`Consume` after the write has returned, `Release`, and other programs.

### 3.9 `KnowledgeSync`

The catalogue is a function from entries to their standing, its hash is the
catalogue itself. `Open`, `Initialize`, `BeginExport`, `WriteFile`, `WriteState`, `Confirm`,
`Reload`, `BeginRestore` are the steps of a process between two writes, each of which
may fail (`WriteFails`) or be the last of its process (`Step`); `Save` and `SaveAside` are
edits through the routes that export at once and those that do not; `Pull` is git.
A process is the server, or the command-line tool beside it.

### 3.10 `HotTopic`, `KnowledgeImport`, `KnowledgeMatch`

`HotTopic`: a capture goes through the queue (`Enqueue`, `BeginCapture`), its model calls
(`Extracted`, `Match`) and one transaction (`Commit`, or `Refuse`), while its analysis may
be aborted (`AbortCapture`: the caller gives up, the queue goes on) and operators switch
or delete items and the base.

`KnowledgeImport`: `RequestPreview`, `Stage`, `Previewed` are the awaits of the first request,
`ConfirmImport`, `Keep`, `Import` (or `Refused`) those of the second; tokens `Expire`; `Restart`
empties the staging directory. Beside them bases and items are edited and deleted. Where a file
is, is told by directory (`Places`). The code ignores that a removal fails (`removeFile`,
`deleteKnowledgeBase`), so that every removal may leave its file behind (`Remains`, `Cleared`):
as `leftover` in a directory that a start empties, as `orphan` in that of imports.

`KnowledgeMatch`: `BeginMatch` ranks the candidates of the version's snapshot and asks the
cache; `Choose`, `NoChoice`, `DropLate` end the call; `ExtractValue` reads the stored copy;
`Forget` is the expiry of the cache; `SaveItem`, `DropItem`, `PublishKnowledge` go on
meanwhile. The candidates are a set (`Best`): those that fewer than `CandidateLimit` others come
before. Any of them may be chosen, since what the model answers is not known; the key of the
cache has the ids and scores offered, which tell their order (`Ranked`), and not their texts. The
history in `cache` and `result` (`seen`, `query`) remembers the question and the candidates that
the model was shown when it chose.

### 3.11 `Identity`

One action per request or host command, each resolving its session as the code
does (`Resolves`, `ByAdmin`). Host commands run while the server is down: they take the
instance lock. Passwords are counted per account; a session remembers, as a ghost,
the one it was opened with.

### 3.12 `ReceptionQuality`, `ReceptionReport`, `LostDeal`, `Workbook`

`ReceptionQuality` is the check of one answer of the model under the second protocol
(`ParseV2`) and under the strict one (`ParseStrict`): every answer that the constants allow
is an initial state, and `Parse` gives the result. A reference is the source it names
and whether the quoted text is there; `Material` is what may be at hand of a conversation and of
the knowledge. `ReceptionReport` follows one conversation
through `Upload`, `Extract`, `Judge` (three protocols), `DeriveCells` and `ExportReport`. A version
is published with a threshold for each grade, in any order: two may be equal (the first in the
list counts, `RankOf`) and A may lie above the score a conversation starts from. The loops of the code (rounds, totals, the insertion by priority, the issues matched with names) are
recursive functions of how far the loop has come, each with a named step (`Heard`, `Kept`,
`ByPriority`, `Matched`).

`LostDeal`: `Summarise`, `BeginAttribution`, then `Attribute` (parsing, field run and links
in one transaction, rolled back together), `AttributionFails`, `StopAttribution`,
`LateAttribution`, `Derive`. `Workbook`: field runs, the run of the whole record that older
versions made (`old`), corrections of people from several tabs (`Open`, `Change`, `Note`,
`SaveReview`), and the export, which merges values by itself: `Aggregated` puts the old run
under the field runs, field by field, and `Cell` the two reviews over them, where the browser
takes the old run only while no field was run (`Latest`) and merges in `Shows`. The columns are
placed (`OutputPlan`) in a part of their own (`PlanSpec`), since they depend on the sheet
and the version only.

### 3.13 The client: `ClientViews`, `ClientPolling`, `ClientStarts`, `KnowledgeDesk`

Counters that tell the newest request from older ones are represented by what they
decide: a request that was replaced is forgotten at once where the code would drop
its reply. What the code does not guard this way (the lists of knowledge bases, the
dialog of a batch) is kept and may be answered late. `ClientViews`: the page and record
shown with its draft, `Navigate`, `OpenRecord`, `Edit`, `Save` in three steps (sent, written,
answered), replies and failures, other tabs and the server's runs. `ClientPolling`: the
timer, one poll at a time, suspensions that overlap. `ClientStarts`: ticked records, the
dialogs of a batch and a retry, the requests and their answers; `ServeStart` and
`ServeAction` are the server's side, `prepareTargetedRecordIds` included. Every request carries
as history what its button was pressed for (`Asked`: the job shown, the records, the job that
was being opened), and `by` keeps that of a job's last run. Two ways of opening a job are left
out: the end of an import, which reloads the list and opens its job
(`useImportWorkflow.ts:60`), and the first job of the list being shown when the one shown was deleted.
`KnowledgeDesk`: one list of items with its ticks, editor and deletion, the list of bases,
the import dialog and the trial search.

## 4. Runs

TLC checks twelve runs. `MCConfiguration`, `MCKnowledge` and `MCSurroundings` put several
modules side by side that have no variable in common: the variable `part` chooses one
in the initial state and the others stand still, so that a behaviour is one of one
module and the state space is the sum, not the product. A part that does not take
part starts in one way only.

| Run | Instance | What it shows |
|---|---|---|
| `batch` | one job, three records added after it, two runs, batches of two, two workers, one crash | Ownership, completion, stops and the cursor, with two records in flight, a second batch, and a second run after the first was stopped, ended or lost in a crash. |
| `ends` | one job without platform, two records, two runs, one crash, with fairness | Every run ends and gives the lock back; conversation ids are permanent; the lock implements `JobFence`. |
| `record_fields` | four fields, three analyses, two accidents, with fairness | What an analysis or a retry repeats, on which inputs, what the record then says, and that every analysis ends. |
| `imports` | two imports, or one beside a backup, one crash, with fairness | Rows and files, one job per import, backups restore, imports end. |
| `configuration` | `ModelRouting`, `ModelCatalog`, `PaidBudget`, `SectionVersions`, `Upgrades`, `Identity` | Candidates, capabilities and decisions, limits, versions, upgrades, access. |
| `knowledge` | `KnowledgeSync`, `HotTopic`, `KnowledgeImport`, `KnowledgeMatch`, `KnowledgeDesk` | The snapshot, captures, imports, matches and the page. |
| `surroundings` | `DiskReservations`, `ReceptionQuality`, `ReceptionReport`, `LostDeal`, `Workbook`, `SheetImport`, `ClientViews`, `ClientPolling`, `ClientStarts` | Disk, judgements and reports, links, workbooks, and the tab. |
| `record_stale`, `paid_month`, `imports_staging`, `sync_refused`, `disk_granted` | small instances of one module | Five counterexamples, see section 4.2. |

The bounds of each part are named at the head of the `.cfg` files. Why they are enough:

* `batch`: three records with a batch size of two give two batches, the second shorter,
  with two records in flight in the first and one queued. The job is there before its
  records, so that a run may start and end before they come. Two runs give every overlap
  of an old run's remains with a new run, as a job has one holder. One crash is enough:
  recovery leaves no memory of it but the cancel flag.
* `record_fields`: four fields, two of which feed a third that feeds a fourth, are the
  least with a join and a chain: the join makes one dependency fail while the other is
  retried, the chain makes `descendantKeys` follow more than one edge. Three analyses
  allow a full one, a disturbed one and the one that resumes.
* `imports`: the pipeline is serial, so two imports show that one does not take the other's
  directory, and a crash at every statement with the recovery of both.
* routing: two calls over three members, two of one provider, suffice for a call to
  learn of a member what the other disabled, and for a provider to fall with two members;
  an edit and a tick come at any point. Three requests allow a retry and a switch.
* catalogue: three rows and three operations beside a check and two previews let each
  row be renamed, removed and measured anew between a preview and its use.
* paid tokens: two routes share a batch and a third has its own; models reserve up to 2 and
  are billed up to 3, more and less than reserved; the limits are each reached first by
  some interleaving; three days give a midnight within the month and one that ends it.
* versions: three versions are needed for two drafts written side by side on one current
  version; two fields and two keys for a key that two drafts give to different fields.
* upgrades: seven releases are those between which the reception section differs; three
  starts allow an upgrade of an upgrade with the operator's changes between.
* knowledge: one edit on either side and one fault give every order of an edit, a failed
  write and a pull; two captures of each record give a repeated analysis behind another
  record's; two uploads meet in one base; two matches of two records share the cache. Of three
  texts two score alike and one better: an edit changes the best candidate, or only its words.
* accounts: three are an administrator, the one who becomes one, and a third to do it; two
  passwords and two sessions give one session that a new password ends and one opened with it.
* surroundings: three writers are needed for one to be refused by two; dialogues of two
  turns give every order of dates, of four silent turns every pairing of rounds; two jobs, one
  of two records, and two pages give replies for another job, another page, another record. The
  record of the workbook has two fields and two tabs; what a run finds and what a person types
  are different values, so that each of the four sources (field run, old run, review of the
  record, review of the section) can win over another. The plan has up to two columns and two headers
  out of five, shared ones, like-named ones and keyed ones among them. Four kinds of material are
  those under which the two protocols differ.

Deadlock is not checked: runs, captures, edits and gestures may be used up, and a
server or a tab may rest. Symmetry is used over runs' tokens (`batch`) and two like records
of a tab (`surroundings`); none of the properties under it is a liveness property.

### 4.1 Properties

Runs and records:

* `ProcessingIsOwned`: a row in `processing` is being worked on by the holder. No later
  batch loads such a row, so an orphan would be lost to its job.
* `CompletedIsComplete`: a step that makes a job say `completed` finds results on all records that
  are there, and while it says so no record loses its result. Exempted by name: records that
  the import adds to a job that was started, and finished, while it was empty (section 4.3).
* `OperatorStopStands`: progress writes, final status, crash and recovery never take back a
  pause or a cancellation.
* `StopAdmitsNoRecord`: after a stop no further record begins, whichever await the workers
  were in (`README.md:184`).
* `BatchLeavesNothingPending`: a full run that nobody stopped visited all.
* `FenceSpec`: one holder, fresh tokens (`README.md:172`); a run writes a result only while it
  holds the record's job itself, and what comes back later is dropped (section 3.1).
* `ConversationIsPermanent`: ids come with the first result (`CONTEXT.md:27`) and stay.
* `EveryRunEnds`, `AnalysisEnds`, `ImportsEnd`: liveness.
* `InputsComplete`, `UndisturbedIsConsistent`, `CompletedOnlyIfAllAre`: a resumed analysis
  calls fields with all inputs; without accidents a `completed` record shows what follows
  from the latest results; `completed` is said of all fields.

Configuration:

* `TriedInTurn`: in one call a member is asked twice at most and not again after another,
  none after its provider refused the credential; and a call fails as exhausted only after
  everyone who could answer was asked.
* `CatalogStands`: a stored capability was measured on this model at this address; a
  removal by an operator stands against edits, checks and synchronisation.
* `AppliedIsPlanned`: a preview that is applied, after whatever edits, leaves exactly one managed
  row for each model it announced, for the purpose the catalogue gives it, no other managed row in
  the pool, and every default as it was. Rows made a default are not counted (section 4.3).
* `LimitsHold`, `DayReturns`: no batch, day or month is overspent beyond what nobody can
  reserve; every way a call ends gives its reservation back.
* `HistoryStands`: an accepted import keeps version and content; one version is current;
  no two published versions use one key for different fields, so each can be activated.
* `DraftsContinue`: a new draft says what the current version says.
* `AccessHolds`: an administrator remains, and sessions that count are of enabled accounts with
  the password they have now.
* `UpgradeStands`, `WhatWasDoneStands`: an upgrade ends in one configuration wherever it is
  read, and nothing published, bound or found changes on the way.

Knowledge:

* `ReplacesOnlyKnown`, `ReadyIsTrue`: no edit on either side is replaced unseen, and
  "ready" means equal.
* `OneEntryPerQuestion`, `LateAnswerWritesNothing`: the queue is serial, a question is held
  once, links are those of the newest run, late captures change nothing.
* `ImportChangesItsLines`: an import previewed against one state, read in a second and
  written into a third changes its own lines of it and reports that.
* `BasesStand`: files, tokens and history of imports agree; the page shows one base.
* `MatchStands`: the chosen item is enabled in the version of the record's own job and among the
  best there, and what is stored and extracted is that version's text. A remembered choice is only
  used for candidates of the same items and scores as those it was made from. It may have been
  made from older texts: section 4.3.

Surroundings:

* `MinimumIsKept`, `LinksStand`, `ViewStands`.
* `TabHolds`: the page belongs together, one poll at a time, and what runs is what was asked for
  (`AsAsked`): ticked records in the job they were ticked in and no others with them, a retry
  or a batch in the job it was asked for. One exception is named in it: a batch of a whole job
  that was asked for while another job was being opened may be of that one.
* `JudgementStands`: an answer nobody looks at is complete, and deductions are proven.
* `ReportStands`: facts are read from the dialogue; the workbook says what the screen says, but for
  the A of a spotless conversation where the thresholds give the whole score another grade (with
  the shipped ones they do not: `TopIsA`).
* `WorkbooksHold`: what is imported is what was announced; the export says what the screen
  says, but for what only an old run found (`OnlyOld`). A column is placed where a header stands
  for it, else behind the sheet; two share a place only if one header stands for both (`OwnPlaces`);
  and the plan ends if no column has the header of a shared one that is not configured
  (`OwnHeaders`). Both conditions are named in the property because nothing checks them: section 4.3.

Conjunctions such as these are named for the reader; their parts are definitions of
their own with comments in the modules.

### 4.2 Disagreements

Five properties do not hold; each is what a test or guide says.

* `record_stale` (`CompletedIsConsistent`): a field retry does not mark the record, so after
  a cancellation or crash in the middle of it the record still says `completed`, with
  dependants computed from the result that was replaced. Nothing repeats them later.
* `paid_month` (`MonthReturns`): a release matches the reservation's day. A call begun before
  midnight that ends after another has reserved on the new day releases nothing, and
  the month's counter keeps its tokens until the month ends.
* `imports_staging` (`StagingIsCleaned`): when the staging directory cannot be moved, the
  `catch` removes the directory it was to become and leaves the staging directory.
* `sync_refused` (`RefusedOnlyIfEdited`): a field that an earlier snapshot dropped stays in
  the database for its runs, so the database never equals the baseline again and the next
  pulled snapshot is refused although nobody edited anything.
* `disk_granted` (`GrantedIsHonoured`): a chunk is on the disk and still in its writer's lease
  until the write returns; another writer within its own lease is refused then.

### 4.3 Observations

Seen while modelling. Each was followed in the code, not in a run of its own; where a
document or test says otherwise it is named.

Analyses and models:

* A field retry sees no failure that wrote no row (`field-analysis-service.ts:223`; the guide
  `docs/guides/cancellation-and-model-budget.md:7`), and calls a dependant whose other
  dependency failed (`:213`), where a whole analysis skips it.
* A person's confirmation is reset when a re-run of that record is cancelled
  (`db/repositories.ts:587`).
* A job that is started between `createJob` and `addRecords` finds no record, says `completed`, and
  keeps saying so when its records come, pending (`streaming-xlsx-import-service.ts:487`, `:501`;
  `docs/archive/targeted-stability-remediation-plan.md:80`, pending records are to leave a job that
  can go on). Only another start takes them up.
* A managed row that was made a default is not seen by the synchronisation, which makes a second
  managed row of its model (`bailian-free-pool-sync-service.ts:137`;
  `docs/superpowers/specs/2026-10-10-bailian-free-model-pool-sync-design.md:112`).
* A cooldown is computed from the failures a call read when it began: of calls that fail together
  the later may write the shorter one (`model-pool-service.ts:248`;
  `docs/superpowers/specs/2026-09-16-model-pool-design.md:170`).

Versions and upgrades:

* A new installation is seeded after its migrations are recorded, and the seed stops at
  024: it never takes 025 to 030. `reconcileReceptionV9` recognises the history it repairs by
  two numbers, which an operator's own publications reach as well. Core rows that were deleted
  from the live table are not made again. A section with versions cannot be deleted
  (trigger `section_versions_restrict_section_delete`), so that the seed never comes a second
  time, as `docs/guides/database-migrations-and-recovery.md:21` has it.
* The guides run `bootstrap:admin` beside the service, which holds the instance lock
  (`docs/guides/lan-operations.md:27`).

Imports and exports:

* Plain results are overlooked, and later written over, in sheets that mix keyed and plain
  headers or under a version with keyed columns; an all-historical workbook makes a job without
  records; a platform renamed between preview and acceptance refuses the announced import.
* Of two pictures on one row the first is kept silently, though the comment at
  `streaming-xlsx-import-service.ts:237` says otherwise; in a generic sheet they make two records
  of one row, which the export writes over one another.
* An export with a configured column that has the header of an added shared column does not
  terminate (`excel-template-service.ts:71`; `README.md:168`). Two columns may match one sheet
  column: the last value stays. Two exports of one job write one file at the same time.
* What a run older than the field runs found is left out on the screen once any field was run
  (`App.tsx:566`), and still exported (`excel-export-service.ts:227`;
  `docs/superpowers/plans/2026-09-08-field-level-analysis-dependencies.md:21` asks for both).
* A reviewer's correction of a reception cell is not exported (`README.md:174`). A note or one
  edit freezes all shown values as the person's result, and a stale pane overwrites newer ones.

Knowledge:

* An import of a knowledge workbook creates a base again that was deleted, and switches on one
  that was switched off, while the workbook was read (`knowledge-import-service.ts:303`, `:326`).
* A file whose removal fails is left without a word (`knowledge-routes.ts:39`,
  `knowledge-repository.ts:148`): the next start empties the directories of uploads and previews,
  and nothing that of imports.
* Candidates with equal scores reuse the choice for a quarter of an hour although their text
  changed (`knowledge-match-service.ts:104`; `README.md:176`). A base that is off in the version is
  still matched (`:160`).
* Hot topics: under a version a record is linked to a question of its snapshot although the
  question was switched off or deleted since
  (`hot-topic-service.ts:278`; `docs/guides/hot-topic-knowledge-capture.md:38`).
* Lost deals: a reason whose name has surrounding spaces is never linked
  (`lost-deal-capture.ts:60`); one item named twice violates the primary key and fails the field.

Quality check:

* With the rules as shipped any after-sale or mixed answer of the second protocol asks for a
  review, as do older results with more than three issues. Knowledge bases over 20 000
  characters are left out silently under the strict protocol. If a section's score base is below
  its threshold for A, or another grade starts as high, a clean conversation is A in the workbook
  and less on the screen (`excel-export-service.ts:142`); publication asks neither
  (`configuration-input.ts:172`).

Client:

* A poll whose page no longer has the record that is open closes it with its unsaved draft
  (`useRecordWorkspace.ts:140`; `docs/archive/frontend-state-modules.md:24`).
* The dialog of a batch is not tied to the job it was asked for: opened while another job loads,
  it starts that one. The dialog of a retry is tied.
* Knowledge page: a save answered after its editor was closed closes whichever editor is open
  (`KnowledgeItemList.tsx:314`); lists of bases are taken in the order they arrive; a ticked item
  that was deleted makes every batch fail for it; the import dialog keeps the first file's name.

### 4.4 Fairness

`JobRun` assumes weak fairness of each run's own steps, and of nothing else: no
operator, crash or restart is ever bound to happen. What a run waits for is a file
read or a model call, and a record's calls are limited to six requests and five
minutes (`docs/guides/cancellation-and-model-budget.md:9`), after which the await returns or
throws. All other steps follow in the event loop. In `RecordAnalysis` it is weak
fairness of `AnalysisStep`, the steps of the analysis under way, for the same reason;
aborts, crashes and requests have none. In `Imports` it is that of the work on an import
that has begun (file operations end, one way or the other) and of `Restart`: the
launcher starts the server again (`scripts/keep-server-alive.ps1`), and an import that
was claimed before a crash is only ended by the next start. The other modules state no
liveness: their operations wait for people.

## 5. Proofs

Of `JobRun` TLAPS checks, for every number of jobs, records and runs, every batch size and
concurrency, and any number of crashes:

* `TypeCorrect`.
* `InvCorrect`: `IInv` is an invariant. `ProcessingIsOwned` alone is not
  inductive: that the holder's worker is still `analyzing` needs that stages
  belong to live runs (`StagesBelong`), that a live run holds its job or the job
  was deleted (`RunsHold`, `GoneTogether`), and, since the settlement after an
  abort asks for the cancel flag in the row, that the signal in memory and the
  flag agree while the run owns the job (`AbortIsFlagged`). `LockIsLive` needs
  `RunsHold` the other way round. `ProcessingOwned`, `LockLive` and `ResultConversation`
  follow.
* `CompletedComplete`, an action property: it needs `TokenStatus` (a held job is never
  `completed`), so that nobody turns a record back under it, and `CompletedIsSettled` (under
  `completed` a record has a result, or came after it and is pending).
* `StopStands`, `StopAdmits`, `CancelSettles`, `CancelAborts`,
  `ConversationStays`: the action properties, from `IInv`.
* `NothingPending`: needs in addition `CursorPassed`, that a record at or before
  a running batch's cursor is queued, in a worker's hands, or no longer pending
  (`PassedCorrect`).
* `ImplementsFence`: every step of `JobRun` is a step or a stutter of `JobFence`
  under the mapping `holder <- runToken`, `doing <- stage`, `result <- recordStatus`,
  `spent <-` the runs that were started. The work is to show of each action of a worker that
  it either finds its own token in the job's row, or changes no record (`Owns`).

The assumptions are those of `JobRun`: records are positive numbers, each of one
job; `None` is no run; batch size and concurrency are positive. Finiteness is not
assumed. The proofs go action by action: a leaf per conjunct that the action
disturbs, lemmas shared by actions that change the same rows (`StartKeeps`,
`RecordStepKeeps`, `InHandsKeeps`, `JobChangeKeeps`, `InvRelease`).

Of `RecordAnalysis` TLAPS checks, for every finite or infinite set of fields,
every graph in which each nonempty set of fields has one with no dependency inside
it, and any number of analyses and accidents:

* `RecordTypes` and `AnalysisInvariant` (`AInv`). What a handler is called with
  depends on the context, so the invariant says of every selected field that it is
  in the context exactly when its state is usable (`StatesAreRuns`), of every
  other field that it is there if its latest run is (`OthersAreKept`), and that
  states are given in dependency order (`DependenciesFirst`). That a field's basis
  is up to date once the analysis will not replace it any more (`BasisIsLatest`)
  needs that what is selected is closed under dependants (`SelectedIsClosed`):
  `descendantKeys` is a least fixed point, and only that it is closed is used,
  except for `SelectedIsNeeded`, which uses that it is the least.
* `CallsHaveInputs`, `UndisturbedConsistent`, `SkippedCaused`, `CompletedAll`,
  `NothingInVain`: the properties, from `AInv`.

Of `PaidBudget` TLAPS checks `PaidInvariant` (`PInv`) and from it `WithinLimits`,
`RowCoversCalls` and `DayGetsBack`, for every
finite set of routes, all batches and limits, every calendar whose months do not go
back, and any number of crashes. The sum of what calls have reserved is defined
as the number of single tokens (`Units`), so that adding and removing a call is a
fact on cardinalities (`TotalWithout`, `TotalJoins`, `TotalLeaves`) and needs no
induction over a fold. The limits are not inductive alone: a reservation is checked
against the counters, so they must cover the calls in flight (`RowCovers`); that a
release cannot take away another call's tokens, and that midnight forgets only
what it may, needs that no call is younger than the row (`CallsInOrder`). `Settle`
and `Fail` are proved together, as the end of a call with an accounted number of
tokens (`EndKeeps`).

Of `Identity` TLAPS checks `IdentityInvariant` (`SInv`) and from it `AccessKept`, for any
accounts, roles, sessions and number of passwords. That sessions are current needs that a
session which counts has an account (`SessionsHaveUsers`), and that a new password has a number no
earlier one had, so that no older session can match it; the proof then shows of each request
that it revokes, in its own step, every session its change of an account would falsify.

### 5.1 Configuration (`ConfigurationProofs`)

* `SectionVersions`: `HistoryInvariant` (`HInv`), `HistoryKept` and `DraftsGoOn`, for any fields,
  keys, baseline, imports and bounds. `HistoryStands` is not inductive: that a published version
  still fits the live table needs that the live rows have every field that was ever published
  with its key (`KeysAreKept`) and that the table itself has unique keys (`FitsTable(live)`); the
  validation at publication (`KeepsIdentity`) keeps both although drafts are written side by
  side, and only a deletion or a new key by the older routes ends the first (`rekeyed`). That
  accepted content stands needs that it was published (`AcceptedIsPublished`), since drafts change.
  `DraftsGoOn` needs that the rows that are on are the current version's (`LiveRowsAreCurrent`).
* `ModelCatalog`: `CatalogInvariant` (`CatInv`), `RowsKeepWhatWasDecided` and
  `PreviewIsCarriedOut`, for any models, addresses, purposes and bounds, the catalogue being
  finite. A check that is answered after its row was removed would enable it, so the invariant
  says that the removal has taken that from the check (`RemovalUnchecked`). What a preview
  announced is carried out because it is the plan of the rows in its own fingerprint
  (`PreviewsArePlans`), which the application compares.
* `ModelRouting`: `CallsTryInTurn`, for any members, providers, classes and limits and finitely
  many calls. Its invariant (`RouteInv`) says of each call that whoever it has given up it has asked,
  or the provider has refused it; a bound on failures is kept as a cardinality: no member has
  more failures than there are calls that can no longer find one (`MayFail`).
* `Upgrades`: `UpgradeInvariant` (`UpInv`), `UpgradesEndAlike`, `UpgradesHarmNothing`, for every set
  of releases from 13 to 30, any jobs, any number of starts and of the operator's changes. Neither
  property speaks of a database in the midst of its releases. `Standing(n, ...)` does: what
  the migrations up to schema n leave in the section, the current version and the jobs
  (`Bound`, `Agree`, `PassesAt`, `SaysAt`), with a lemma for every migration that it takes a database
  that stands at n - 1 to one that stands at n or throws, and loses no version, binding or result
  (`Keeps`). The migrations of one start are then followed from schema to schema (`RunStands`), the
  seed step by step. `Started` says where a start may have been cut off.

### 5.2 Imports, disk and workbooks (`ImportsProofs`, `FilesProofs`)

* `ImportInvariant` (`ImportInv`), `RowsKeepTheirFiles`, `ImportsGiveOneJob`, `BackupsRestore`, for any
  imports, crashes and amount of work. The invariant follows each attempt from the directory it
  stages to the job it fills (`RowAgrees`, `JobAgrees`): an attempt that has not been made leaves no
  trace, and one that was made is not made again in the same life of the server, so what is
  still to be removed of it stays without a row (`Abandoned`). A backup under way has a copy
  of the rows at one moment (`Whole`) and copies what they name.
* `MinimumKept`, for any finite set of writers, any size of disk and any minimum not above it (without
  that the first reservation is the question of an operator's setting, not of the code). The
  free space, the leases and what has landed are related as three sums over the writers;
  the invariant (`DiskInv`) adds that what is not free was written by somebody. How a sum changes with
  one writer is an induction over finite sets. The library's theorems of induction take an
  operator and cannot be used; instead the set of numbers for which the claim holds is shown to
  have 0 and every successor (`AllNumbers`, from the well-foundedness of < on Nat).
* `SheetsStand` and `BookHolds`, which `WorkbooksStand` (in `SurroundingsProofs`) puts together, for any
  workbooks, versions, fields and tabs. The preview shown, or the one that was confirmed, is that of its
  workbook under some name of the platform (`SheetInv`); that the numbers announced are those made
  needs that the pictures that count are finitely many and, for a quality check, one of each row. What
  is saved for a section, or is on a screen to be saved, says something wherever the record's own review
  does (`CarriedOn`): that is why the export, which asks one review after the other, and the screen, which
  starts from the older one, say the same. The columns of a plan are followed one by one
  (`PlacedSoFar`): a place behind the sheet is given once, and a search that does not end is one
  for a header given before, which `OwnHeaders` excludes (`PlanInv`).

### 5.3 Knowledge (`KnowledgeProofs`)

* `KnowledgeSync`: `SyncInvariant` (`SyncInv`), `ReadyStands`, `NothingReplacedUnseen`, for any entries,
  processes, edits and faults. Needed is what a process relies on between two of its writes
  (`AtWork`), that one process at a time is between two waits (`OneAtWork`), that every hash held was
  once in the database and in the file (`HashesKnown`), and that without a newer revision the
  database is that of the last agreement, up to the disabled fields of section 4.2 (`BaseAgrees`).
* `HotTopic`: `CaptureInvariant` (`HotInv`), `QuestionsOnce`, `LateWritesNothing`, for any records,
  questions and attempts. The queue holds each capture that has begun and not settled once,
  and those behind its head wait (`QueueIsWhole`); a newer capture of a record begins when the older
  is over for its analysis (`NewestLives`); items are named by their questions (`IdsName`), which is
  what makes a question that two captures create one row.
* `KnowledgeImport`: `WorkbookInvariant` (`ImpInv`), `ImportsChangeTheirLines`, for any bases, columns
  and workbooks. That the import adds up to its report needs that imports under way have read the same
  columns of one base, also when it is deleted and made again (`ColumnsStand`), and that one path
  names one entry (`LinesStand`).
* `KnowledgeMatch`: `MatchesStand`, for any items, texts, queries and scores, with `MatchInv`: a model is asked
  with the best items of the version of the record's own job (`AskedStand`), and what is stored is the
  text of that version (`RecordsHold`). That a remembered choice is among the candidates follows from
  the key of the cache, which lists them with their scores; the candidates it was made from are
  those of its key.
* `KnowledgeDesk`: `DeskInvariant` (`DeskInv`), for any bases, items and gestures: what each answer under
  way may still change, and that the page is locked exactly while an operation of its own is under
  way. `BasesAndPageStand` puts it together with `KnowledgeImport`.

### 5.4 Surroundings (`SurroundingsProofs`)

* `ClientViews`: `ViewInvariant` (`VInv`), `ShownStaysTogether` and `DraftsStand`, for any jobs, records
  and bounds. The invariant adds to what is shown (`ShownTogether`) what each request under way may
  still change: the newest request for a page is for the job shown or one navigated to
  (`ListIsOfActive`), that for a record and the save are of the record open (`DetailIsOfOpen`,
  `SaveIsOfOpen`), and the tab is never ahead of the server (`OpenIsOfServer`).
* `ClientPolling` and `ClientStarts`: `PollsOnce` (`PollInv`: a poller has a timer exactly when no poll of
  it is under way, unless it is suspended) and `StartsStand` (`StartsInv`: operations are numbered, a
  number is given once, the tab is busy with a number that an operation has, and what an
  operation or a dialog is for is what was asked for when it began, `Means`). With `ShownStaysTogether`
  they are `TabStands`.
* `ReceptionQuality`: `JudgementsStand`, for any rules, sources, deductions and bounds on evidence. The
  state is an answer and its judgement; the proof is the one of the two parsers, case by case.
* `ReceptionReport`: `ReportsStand`, for any rules, dialogues, priorities, deductions, thresholds and
  knowledge. The state is small (`ReportInv`: the judgement is one of the three protocols' on findings
  that name each rule once and no rule under both headings, and one that no person looks at has a
  start and was asked with all it answers for); the work is in the loops. One lemma, `Recursion`, says that
  a function given by a first value and a step exists; with it each loop has an invariant of its
  own: rounds count the turns that answer (`RoundsAre`), the order by priority neither loses nor
  repeats an issue (`OrderHas`), names match issues exactly when both are of the same rules
  (`AlignedIf`), which is why the export, which goes through the issues by heading, asks for review
  exactly when the screen does.
* `LostDeal`: `LinksFollowTheRun`, for any reasons, deals and attributions. The links are those of the
  greatest number among the runs that count (`LinksFollow`), runs are only of certain reasons
  (`RunsAreCertain`), and what is derived is of a run there is (`DerivedFollow`). The property leaves out a
  reason called "review", which the module uses for the person's turn.

### 5.5 What the assumptions ask

Besides typing, the constants are asked for what the code or the database gives: that the
values which stand for "none" are none of the others; that members, items and records are
numbers where the code orders them; that the sets that are counted are finite (calls, catalogue
models, writers, items of the page); that a record is of one job, an item of one base; that the
baseline of a section has unique keys; that releases have schema 13 or a later one, as the
migrations before it came in one batch (`docs/archive/fix-plan-2026-09-17.md:74`); that a version
names each rule once and has one threshold for each grade, in an order of their own.

### 5.6 Only model-checked

* Liveness under fairness: `EveryRunEnds`, `AnalysisEnds`, `ImportsEnd`. It and ENABLED are beyond
  the prover.
* The five disagreements of section 4.2, which are counterexamples.

## 6. Not modelled

* Paid tokens: the change of a limit by an operator, and the deletion of a model, which
  deletes its usage events.
* Model administration: creating and deleting providers, the connection test, the settings of
  the pool.
* Client: the administration dialogs, which edit one object each and reload after saving; the
  batch control of several tasks; filters, layout and drawing. In the dialog that manages
  versions, an answer that comes after another version was opened is not guarded.
* Backups: the schedule, retention, verification by hashes, and drills.
* For good: the parsing and writing of workbooks and images, cryptography, hashing, prompts and
  the wording of rules, reports computed on request, log files, and scripts run by hand. They
  are sequential, or input and output, and hold no state that a model checker could reach more
  of than their tests do.
* A failing SQLite statement, and two processes on one database: the instance lock is the
  operating system's port.
* Confidentiality is out of scope.
