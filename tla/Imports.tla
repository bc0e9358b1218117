------------------------------- MODULE Imports -------------------------------
(***************************************************************************)
(* The import pipeline of a server process, from the upload of a workbook  *)
(* to a job with its records, beside the operators who remove jobs, the    *)
(* backups of a running server, the file cleanup of a stopped one, and a   *)
(* crash between any two statements of importance.                         *)
(*                                                                         *)
(* Each import starts at most one attempt in the life of a server process, *)
(* so an attempt is named by the import and the number of the life.  The   *)
(* staging directory, the job and the job's directory of an attempt (all   *)
(* named by fresh UUIDs in the code) carry the attempt's name.             *)
(*                                                                         *)
(* A directory is the set of its files; the extracted images of a workbook *)
(* are one file.  A workbook that is accepted holds at least one image to  *)
(* import.  The bytes of the files are the matter of DiskReservations, the *)
(* analysis of the jobs that of JobRun.                                    *)
(***************************************************************************)
EXTENDS Naturals, FiniteSets

CONSTANTS Import,      \* the uploads
          MaxCrashes,  \* bound on the crashes of the server
          MaxWork,     \* bound on the imports and backups of one behaviour
          None         \* no attempt

ASSUME ImportAssumption == /\ MaxCrashes \in Nat
                           /\ MaxWork \in Nat
                           /\ None \notin Import \X (0 .. MaxCrashes)

Attempt == Import \X (0 .. MaxCrashes)

VARIABLES
  imp,       \* imp[i]: the row of import_jobs, [st, src, job]
  job,       \* job[a]: the row of jobs and its records
  files,     \* the files under the data directory
  wk,        \* wk[i]: what the server is doing for import i
  removing,  \* directories and files the server has still to remove
  bk,        \* the backup that is being made
  locked,    \* the backup directory holds .backup.lock
  packs,     \* the backups that were promoted
  up,        \* the server runs
  life,      \* how often it crashed
  cut        \* (history) imports whose rows a crash or a failure cut in two

vars == <<imp, job, files, wk, removing, bk, locked, packs, up, life, cut>>

UploadsDir == <<"uploads">>
Up(i) == <<"uploads", i>>
Durable(i) == <<"imports", i>>
Staged(a) == {<<"job-staging", a, "source">>, <<"job-staging", a, "images">>}
Final(a) == {<<"jobs", a, "source">>, <<"jobs", a, "images">>}
StagedSource(a) == <<"job-staging", a, "source">>
FinalSource(a) == <<"jobs", a, "source">>
FinalImages(a) == <<"jobs", a, "images">>

ImportFiles == {UploadsDir} \cup (UNION {{Up(i), Durable(i)} : i \in Import})
                 \cup (UNION {Staged(a) \cup Final(a) : a \in Attempt})

\* A job row is absent; points at the staging directory; points at its own
\* directory but has no records; or has them.
JobState == {"none", "staged", "bare", "full"}
ImportRow == [st : {"none", "queued", "processing", "completed", "failed"},
              src : {"none", "uploads", "imports", "jobs"}, job : Attempt \cup {None}]
NoBackup == [st |-> "none", imp |-> <<>>, job |-> <<>>, todo |-> {}, got |-> {}]

\* The file an import row names.
SourceOf(row, i) == CASE row.src = "uploads" -> {Up(i)}
                      [] row.src = "imports" -> {Durable(i)}
                      [] row.src = "jobs" -> {FinalSource(row.job)}
                      [] OTHER -> {}
\* The files a job row and its records name.
FilesOf(state, a) == CASE state = "staged" -> {StagedSource(a)}
                       [] state = "bare" -> {FinalSource(a)}
                       [] state = "full" -> Final(a)
                       [] OTHER -> {}

Now(i) == <<i, life>>
\* The bound: an import is begun with its upload, a backup with its lock file.
Begun(i) == imp[i].st # "none" \/ wk[i] # "off"
Load == Cardinality({i \in Import : Begun(i)}) + Cardinality(packs)
          + (IF bk.st = "none" THEN 0 ELSE 1)

InFlight(i) == imp[i].st \in {"queued", "processing"}
----------------------------------------------------------------------------
Init == /\ imp = [i \in Import |-> [st |-> "none", src |-> "none", job |-> None]]
        /\ job = [a \in Attempt |-> "none"]
        /\ files = {UploadsDir}
        /\ wk = [i \in Import |-> "off"]
        /\ removing = {}
        /\ bk = NoBackup
        /\ locked = FALSE
        /\ packs = {}
        /\ up = TRUE
        /\ life = 0
        /\ cut = {}

(* The request that uploads a workbook. *)

\* multer has stored the file under uploads; validateXlsx is awaited.
Upload(i) == /\ up /\ wk[i] = "off" /\ imp[i].st = "none"
             /\ UploadsDir \in files /\ Load < MaxWork
             /\ files' = files \cup {Up(i)}
             /\ wk' = [wk EXCEPT ![i] = "checked"]
             /\ UNCHANGED <<imp, job, removing, bk, locked, packs, up, life, cut>>

\* The workbook, the section version or the platform is refused.
Refuse(i) == /\ wk[i] = "checked"
             /\ files' = files \ {Up(i)}
             /\ wk' = [wk EXCEPT ![i] = "off"]
             /\ UNCHANGED <<imp, job, removing, bk, locked, packs, up, life, cut>>

\* The row is created, the file moved to its own directory, the row updated
\* and the worker started, which claims the row, in one turn of the event loop.
Accept(i) ==
  /\ wk[i] = "checked" /\ Up(i) \in files
  /\ imp' = [imp EXCEPT ![i] = [st |-> "processing", src |-> "imports", job |-> None]]
  /\ files' = (files \ {Up(i)}) \cup {Durable(i)}
  /\ wk' = [wk EXCEPT ![i] = "read"]
  /\ UNCHANGED <<job, removing, bk, locked, packs, up, life, cut>>

\* renameSync throws: the request removes the file, the row stays queued.
AcceptFails(i) ==
  /\ wk[i] = "checked"
  /\ imp' = [imp EXCEPT ![i] = [st |-> "queued", src |-> "uploads", job |-> None]]
  /\ files' = files \ {Up(i)}
  /\ wk' = [wk EXCEPT ![i] = "off"]
  /\ cut' = cut \cup {i}
  /\ UNCHANGED <<job, removing, bk, locked, packs, up, life>>

(* The worker. *)

Fail(i) == /\ imp' = [imp EXCEPT ![i].st = "failed"]
           /\ wk' = [wk EXCEPT ![i] = "off"]

\* The workbook cannot be read, lacks a header, contradicts the platform, or
\* finds no room on the disk.
ReadFails(i) == /\ wk[i] = "read"
                /\ Fail(i)
                /\ UNCHANGED <<job, files, removing, bk, locked, packs, up, life, cut>>

\* The disk space is reserved, the staging directory made, the workbook copied.
CopySource(i) == /\ wk[i] = "read"
                 /\ SourceOf(imp[i], i) \subseteq files
                 /\ files' = files \cup {StagedSource(Now(i))}
                 /\ wk' = [wk EXCEPT ![i] = "extract"]
                 /\ UNCHANGED <<imp, job, removing, bk, locked, packs, up, life, cut>>

\* The last image is written; the turn goes on to create the job.
ExtractAndCreateJob(i) ==
  /\ wk[i] = "extract"
  /\ files' = files \cup Staged(Now(i))
  /\ job' = [job EXCEPT ![Now(i)] = "staged"]
  /\ wk' = [wk EXCEPT ![i] = "made"]
  /\ UNCHANGED <<imp, removing, bk, locked, packs, up, life, cut>>

\* The copy fails, or an image does, with a part of it written; or createJob
\* refuses a version that is no longer published or a platform that is no
\* longer enabled.
CopyFails(i) == /\ \/ wk[i] = "read" /\ files' = files \cup {StagedSource(Now(i))}
                   \/ wk[i] = "extract" /\ files' = files \cup Staged(Now(i))
                /\ wk' = [wk EXCEPT ![i] = "clear staging"]
                /\ UNCHANGED <<imp, job, removing, bk, locked, packs, up, life, cut>>

Moved(a) == (files \ Staged(a))
              \cup (IF StagedSource(a) \in files THEN {FinalSource(a)} ELSE {})
              \cup {FinalImages(a)}

Move(i) == /\ wk[i] = "made"
           /\ files' = Moved(Now(i))
           /\ wk' = [wk EXCEPT ![i] = "moved"]
           /\ UNCHANGED <<imp, job, removing, bk, locked, packs, up, life, cut>>

\* mkdir or rename rejects: the job is deleted, and then the directory the
\* files were to be moved to.
MoveFails(i) == /\ wk[i] = "made"
                /\ job' = [job EXCEPT ![Now(i)] = "none"]
                /\ wk' = [wk EXCEPT ![i] = "clear final"]
                /\ UNCHANGED <<imp, files, removing, bk, locked, packs, up, life, cut>>

\* updateJobSourcePath, addRecords and the completion of the import.
Attach(i) ==
  /\ wk[i] = "moved"
  /\ job[Now(i)] # "none"
  /\ job' = [job EXCEPT ![Now(i)] = "full"]
  /\ imp' = [imp EXCEPT ![i] = [st |-> "completed", src |-> "jobs", job |-> Now(i)]]
  /\ wk' = [wk EXCEPT ![i] = IF imp[i].src = "uploads" THEN "purge uploads" ELSE "purge"]
  /\ UNCHANGED <<files, removing, bk, locked, packs, up, life, cut>>

\* An operator removed the job meanwhile: its records have no job to belong to.
AttachFails(i) == /\ wk[i] = "moved"
                  /\ job[Now(i)] = "none"
                  /\ wk' = [wk EXCEPT ![i] = "clear final"]
                  /\ UNCHANGED <<imp, job, files, removing, bk, locked, packs, up, life, cut>>

\* The catch of the import removes the directory of the attempt, as far as it
\* can, and the worker marks the import failed.
Cleared(i) == IF wk[i] = "clear staging" THEN Staged(Now(i)) ELSE Final(Now(i))
Clear(i) == /\ wk[i] \in {"clear staging", "clear final"}
            /\ files' = files \ Cleared(i)
            /\ Fail(i)
            /\ UNCHANGED <<job, removing, bk, locked, packs, up, life, cut>>

\* (mutant) the directory the completed row names
PurgedOfRow(i) == Final(Now(i))

\* The directory of the uploaded workbook: an import resumed on a row that
\* still names the file in uploads removes the whole of uploads.
Purged(i) == IF wk[i] = "purge uploads" THEN {UploadsDir} \cup {Up(k) : k \in Import} ELSE {Durable(i)}
Purge(i) == /\ wk[i] \in {"purge", "purge uploads"}
            /\ files' = files \ Purged(i)
            /\ wk' = [wk EXCEPT ![i] = "off"]
            /\ UNCHANGED <<imp, job, removing, bk, locked, packs, up, life, cut>>

\* Removing it fails: the catch marks the finished import failed.
PurgeFails(i) == /\ wk[i] \in {"purge", "purge uploads"}
                 /\ Fail(i)
                 /\ UNCHANGED <<job, files, removing, bk, locked, packs, up, life, cut>>

Work(i) == \/ ReadFails(i) \/ CopySource(i) \/ ExtractAndCreateJob(i)
           \/ CopyFails(i) \/ Move(i) \/ MoveFails(i) \/ Attach(i) \/ AttachFails(i)
           \/ Clear(i) \/ Purge(i) \/ PurgeFails(i)
----------------------------------------------------------------------------
(* Operators remove jobs: the row first, then the file it names and the     *)
(* directory of the job, in any order.                                      *)
RemoveJob(a) ==
  /\ up /\ job[a] # "none"
  /\ job' = [job EXCEPT ![a] = "none"]
  /\ removing' = removing \cup {Final(a)}
                   \cup (IF job[a] = "staged" THEN {{StagedSource(a)}} ELSE {})
  /\ UNCHANGED <<imp, files, wk, bk, locked, packs, up, life, cut>>

RemoveFiles(paths) == /\ paths \in removing
                      /\ files' = files \ paths
                      /\ removing' = removing \ {paths}
                      /\ UNCHANGED <<imp, job, wk, bk, locked, packs, up, life, cut>>

(* Backups of the running server. *)

\* What the rows of a snapshot refer to. A finished import may name a file
\* that is gone.
References(imps, jobs) ==
  (UNION {FilesOf(jobs[a], a) : a \in Attempt})
    \cup (UNION {IF imps[i].st \in {"completed", "failed"}
                 THEN SourceOf(imps[i], i) \cap files
                 ELSE SourceOf(imps[i], i) : i \in Import})

\* The scheduler's tick does not begin while an import is in flight.
Busy == \E i \in Import : InFlight(i)

\* An administrator may ask for a backup at any time, the scheduler asks for
\* one while nothing is busy; the lock file admits one at a time.
BeginBackup == /\ up /\ ~locked /\ bk.st = "none"
               /\ Load < MaxWork
               /\ locked' = TRUE
               /\ bk' = [NoBackup EXCEPT !.st = "begun"]
               /\ UNCHANGED <<imp, job, files, wk, removing, packs, up, life, cut>>

\* The online copy of the database, and the references of its rows.
Snapshot == /\ bk.st = "begun"
            /\ bk' = [st |-> "copying", imp |-> imp, job |-> job,
                      todo |-> References(imp, job), got |-> {}]
            /\ UNCHANGED <<imp, job, files, wk, removing, locked, packs, up, life, cut>>

CopyFile(f) == /\ bk.st = "copying" /\ f \in bk.todo /\ f \in files
               /\ bk' = [bk EXCEPT !.todo = @ \ {f}, !.got = @ \cup {f}]
               /\ UNCHANGED <<imp, job, files, wk, removing, locked, packs, up, life, cut>>

\* A file of the snapshot is gone: the partial backup is removed.
CopyMisses == /\ bk.st = "copying" /\ ~(bk.todo \subseteq files)
              /\ bk' = NoBackup
              /\ locked' = FALSE
              /\ UNCHANGED <<imp, job, files, wk, removing, packs, up, life, cut>>

\* verifyBackup: every job and every record of the package's database has a
\* file in the package.
Verified(p) == \A a \in Attempt : FilesOf(p.job[a], a) \subseteq p.got

Promote == /\ bk.st = "copying" /\ bk.todo = {}
           /\ LET p == [imp |-> bk.imp, job |-> bk.job, got |-> bk.got]
              IN packs' = IF Verified(p) THEN packs \cup {p} ELSE packs
           /\ bk' = NoBackup
           /\ locked' = FALSE
           /\ UNCHANGED <<imp, job, files, wk, removing, up, life, cut>>

\* After a crash the lock file stays until an operator has removed it.
Unlock == /\ locked /\ bk.st = "none"
          /\ locked' = FALSE
          /\ UNCHANGED <<imp, job, files, wk, removing, bk, packs, up, life, cut>>

Backup == BeginBackup \/ Snapshot \/ (\E f \in bk.todo : CopyFile(f))
            \/ CopyMisses \/ Promote \/ Unlock

(* The cleanup, with the server stopped. *)

\* The files some row names: these are never removed.
Referenced == (UNION {FilesOf(job[a], a) : a \in Attempt})
                \cup (UNION {SourceOf(imp[i], i) : i \in Import})

\* A file under uploads or job-staging, old enough and named by no row.
Maintain(f) == /\ ~up /\ ~Busy
               /\ f \in files \ (Referenced \cup {UploadsDir})
               /\ f[1] \in {"uploads", "job-staging"}
               /\ files' = files \ {f}
               /\ UNCHANGED <<imp, job, wk, removing, bk, locked, packs, up, life, cut>>

(* Crash and restart. *)

Lost == /\ up /\ life < MaxCrashes
        /\ up' = FALSE
        /\ life' = life + 1
        /\ wk' = [i \in Import |-> "off"]
        /\ removing' = {}
        /\ bk' = NoBackup
        /\ UNCHANGED <<locked, packs>>

\* Between two turns. A job whose files have moved keeps the path they had.
Crash == /\ Lost
         /\ cut' = cut \cup {i \in Import : wk[i] = "moved"}
         /\ UNCHANGED <<imp, job, files>>

\* Within the turn that accepts an upload, before or after the file is moved.
CrashInAccept(i) ==
  /\ wk[i] = "checked"
  /\ Lost
  /\ imp' = [imp EXCEPT ![i] = [st |-> "queued", src |-> "uploads", job |-> None]]
  /\ \/ UNCHANGED files
     \/ Up(i) \in files /\ files' = (files \ {Up(i)}) \cup {Durable(i)}
  /\ cut' = cut \cup {i} \cup {k \in Import : wk[k] = "moved"}
  /\ UNCHANGED job

\* Within the turn that fills the job, before or after its records are added.
CrashInAttach(i) ==
  /\ wk[i] = "moved" /\ job[Now(i)] # "none"
  /\ Lost
  /\ \E s \in {"bare", "full"} : job' = [job EXCEPT ![Now(i)] = s]
  /\ cut' = cut \cup {k \in Import : wk[k] = "moved"}
  /\ UNCHANGED <<imp, files>>

\* (mutant) a failed import is run again
RestartFailed ==
  /\ ~up /\ up' = TRUE
  /\ wk' = [i \in Import |-> IF InFlight(i) \/ imp[i].st = "failed" THEN "read" ELSE "off"]
  /\ imp' = [i \in Import |-> IF wk'[i] = "read" THEN [imp[i] EXCEPT !.st = "processing"] ELSE imp[i]]
  /\ files' = files \cup {UploadsDir}
  /\ UNCHANGED <<job, removing, bk, locked, packs, life, cut>>

\* (mutant) only an import that was still queued is run again
RestartQueued ==
  /\ ~up /\ up' = TRUE
  /\ files' = files \cup {UploadsDir}
  /\ imp' = [i \in Import |-> IF imp[i].st = "queued" THEN [imp[i] EXCEPT !.st = "processing"] ELSE imp[i]]
  /\ wk' = [i \in Import |-> IF imp[i].st = "queued" THEN "read" ELSE "off"]
  /\ UNCHANGED <<job, removing, bk, locked, packs, life, cut>>

\* createSafeUpload makes the directory of the uploads, and every import that was
\* in flight is claimed and read again.
Restart ==
  /\ ~up /\ up' = TRUE
  /\ files' = files \cup {UploadsDir}
  /\ imp' = [i \in Import |-> IF InFlight(i) THEN [imp[i] EXCEPT !.st = "processing"] ELSE imp[i]]
  /\ wk' = [i \in Import |-> IF InFlight(i) THEN "read" ELSE "off"]
  /\ UNCHANGED <<job, removing, bk, locked, packs, life, cut>>

Next == \/ \E i \in Import : \/ Upload(i) \/ Refuse(i) \/ Accept(i) \/ AcceptFails(i)
                             \/ Work(i)
                             \/ CrashInAccept(i) \/ CrashInAttach(i)
        \/ \E a \in Attempt : RemoveJob(a)
        \/ \E paths \in removing : RemoveFiles(paths)
        \/ Backup
        \/ \E f \in files : Maintain(f)
        \/ Crash
        \/ Restart

Spec == Init /\ [][Next]_vars

\* The worker's awaits end, and a crashed server is started again.
Fairness == /\ \A i \in Import : WF_vars(Work(i))
            /\ WF_vars(Restart)
FairSpec == Spec /\ Fairness
----------------------------------------------------------------------------
ImportsTypeOK ==
  /\ imp \in [Import -> ImportRow]
  /\ job \in [Attempt -> JobState]
  /\ files \subseteq ImportFiles
  /\ wk \in [Import -> {"off", "checked", "read", "extract", "made", "moved",
                        "clear staging", "clear final", "purge", "purge uploads"}]
  /\ removing \subseteq SUBSET ImportFiles
  /\ locked \in BOOLEAN /\ up \in BOOLEAN /\ life \in 0 .. MaxCrashes /\ cut \subseteq Import

JobsOf(i) == {a \in Attempt : a[1] = i /\ job[a] = "full"}

\* An import gives one job at most, and none as long as it may still be run,
\* unless a crash cut the turn in two that fills the job and completes the
\* import (runImportJob, recoverImportJobs).
OneJobPerImport ==
  \A i \in Import \ cut : /\ Cardinality(JobsOf(i)) <= 1
                          /\ InFlight(i) => (JobsOf(i) = {})

\* Whatever crashed, failed, was cleaned up or removed meanwhile: a job with
\* records has its workbook and its images, and an import that a restart would
\* resume still has its workbook, unless its acceptance was cut in two
\* (importWorkbookStreaming, runImportJob, removeJob, maintainFiles,
\* recoverImportJobs).
RowsHaveFiles ==
  /\ ImportsTypeOK
  /\ \A a \in Attempt : (job[a] = "full") => (Final(a) \subseteq files)
  /\ \A i \in Import \ cut : InFlight(i) => (SourceOf(imp[i], i) \subseteq files)

\* While nothing is in flight every file a backup would look for is there, so
\* that it can succeed, unless a crash or a failed rename left a row that names
\* a file elsewhere (createFullBackup's references against the import, the
\* removal of jobs and the cleanup).
QuietIsBackupable ==
  ((\A i \in Import : wk[i] = "off") /\ (removing = {}) /\ (cut = {}))
     => (References(imp, job) \subseteq files)

\* The rows and the files agree: in every state for the jobs and the imports
\* that need their files, and at rest for a backup.
FilesStand == RowsHaveFiles /\ QuietIsBackupable

\* (mutant) only a queued import is failed
RestoredQueued(p, i) ==
  [p.imp[i] EXCEPT !.st = IF @ = "queued" THEN "failed" ELSE @]

\* restoreFullBackup: paths of rows without a reference become empty, what was
\* in flight is failed.
RestoredImport(p, i) ==
  [p.imp[i] EXCEPT !.st = IF @ \in {"queued", "processing"} THEN "failed" ELSE @,
                   !.src = IF SourceOf(p.imp[i], i) \subseteq p.got THEN @ ELSE "none"]
\* verifyRestoredEnvironment on the restored rows and files.
RestoreVerifies(p) ==
  \A a \in Attempt : FilesOf(p.job[a], a) \subseteq p.got

\* A promoted backup restores to an environment in which every job and record
\* has its file, nothing is in flight, and a completed import has its job with
\* all its records unless it had been removed (createFullBackup,
\* restoreFullBackup, verifyRestoredEnvironment).
PacksRestore ==
  \A p \in packs : /\ RestoreVerifies(p)
                   /\ \A i \in Import : LET r == RestoredImport(p, i)
                                        IN /\ r.st \notin {"queued", "processing"}
                                           /\ (r.st = "completed") => (p.job[r.job] \in {"full", "none"})

\* "Success, failure ... clean up this attempt's staging": after an import has
\* ended without a crash nothing of it is left under job-staging
\* (docs/guides/shared-disk-reservations.md:19).
StagingIsCleaned ==
  \A i \in Import : (imp[i].st \in {"completed", "failed"} /\ wk[i] = "off" /\ life = 0)
                       => (Staged(Now(i)) \cap files = {})

\* A claimed import is completed or failed in the end, across a restart.
ImportsEnd == \A i \in Import : (imp[i].st = "processing") ~> (imp[i].st \in {"completed", "failed"})
=============================================================================
