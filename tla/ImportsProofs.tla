---------------------------- MODULE ImportsProofs ----------------------------
(***************************************************************************)
(* What Imports promises for any number of imports, crashes and backups:   *)
(* the rows and the files agree, an import gives one job, and a backup     *)
(* that was promoted restores.                                             *)
(*                                                                         *)
(* The inductive invariant follows each attempt from the directory it      *)
(* stages to the job it fills.  An attempt that has not been made leaves   *)
(* no trace; one that was made is not made again in the same life of the   *)
(* server, so that what is still to be removed of it stays without a row.  *)
(***************************************************************************)
EXTENDS Imports, FiniteSetTheorems, TLAPS

Attempting == {"read", "extract", "made", "moved", "clear staging", "clear final"}

\* The worker of an import and its row.
RowAgrees(i) ==
  /\ wk[i] = "checked" => imp[i].st = "none"
  /\ wk[i] \in Attempting => imp[i].st = "processing"
  /\ wk[i] \in {"purge", "purge uploads"} => imp[i].st = "completed"
  /\ imp[i].st = "none" => imp[i].src = "none"
  /\ imp[i].src = "jobs" => imp[i].job # None
  /\ imp[i].st = "completed" => imp[i].job # None
  /\ imp[i].job # None => imp[i].st \in {"completed", "failed"}
  /\ InFlight(i) /\ i \notin cut => imp[i].src = "imports" /\ Durable(i) \in files

\* The attempt has got as far as creating its job, or has given up before.
Tried(a) == \/ a[2] < life
            \/ /\ a[2] = life /\ up
               /\ wk[a[1]] \notin {"checked", "read", "extract"} /\ imp[a[1]].st # "none"

Current(a) == a[2] = life /\ up

\* The job of an attempt, its files, and the worker that makes them.
JobAgrees(a) ==
  /\ ~Tried(a) => job[a] = "none"
  /\ Current(a) /\ job[a] = "staged" => wk[a[1]] \in {"made", "moved"}
  /\ Current(a) /\ wk[a[1]] \in {"made", "moved"} => job[a] \in {"none", "staged"}
  /\ Current(a) /\ wk[a[1]] \in {"clear staging", "clear final"} => job[a] = "none"
  /\ Current(a) /\ wk[a[1]] = "made" /\ job[a] = "staged" => StagedSource(a) \in files
  /\ Current(a) /\ wk[a[1]] = "moved" /\ job[a] = "staged" => Final(a) \subseteq files
  /\ ~Current(a) /\ job[a] = "staged" /\ a[1] \notin cut => StagedSource(a) \in files
  /\ job[a] = "bare" => a[1] \in cut
  /\ job[a] = "full" => Final(a) \subseteq files
  /\ job[a] = "full" /\ a[1] \notin cut => imp[a[1]].job = a
  /\ imp[a[1]].job = a => job[a] \in {"full", "none"}

\* Only what no row names is still to be removed.
Abandoned(paths) == \E a \in Attempt : /\ paths \in {Final(a), {StagedSource(a)}}
                                       /\ job[a] = "none" /\ Tried(a)

\* In a copy of the database a completed import has its job, or had it removed.
Whole(rows, jobs) ==
  /\ rows \in [Import -> ImportRow]
  /\ \A i \in Import : rows[i].st = "completed" => jobs[rows[i].job] \in {"full", "none"}

IsBackup(b) == b = [st |-> b.st, imp |-> b.imp, job |-> b.job, todo |-> b.todo, got |-> b.got]

ImportInv ==
  /\ ImportsTypeOK
  /\ \A i \in Import : /\ imp[i].job # None => imp[i].job[1] = i
                       /\ RowAgrees(i)
  /\ \A a \in Attempt : JobAgrees(a)
  /\ \A paths \in removing : Abandoned(paths)
  /\ ~up => (\A i \in Import : wk[i] = "off") /\ removing = {} /\ bk.st = "none"
  /\ IsBackup(bk)
  /\ bk.st = "copying" => Whole(bk.imp, bk.job)
  /\ \A p \in packs : Whole(p.imp, p.job) /\ Verified(p)
----------------------------------------------------------------------------
(* Names of attempts and of files. *)

LEMMA AttemptNames ==
  ASSUME NEW a \in Attempt
  PROVE  /\ a[1] \in Import /\ a[2] \in 0 .. MaxCrashes
         /\ \A i \in Import : (a = Now(i)) <=> (a[1] = i /\ a[2] = life)
BY DEF Attempt, Now

LEMMA NowIsAttempt ==
  ASSUME ImportsTypeOK, NEW i \in Import
  PROVE  Now(i) \in Attempt /\ Now(i)[1] = i /\ Now(i)[2] = life
BY DEF Attempt, Now, ImportsTypeOK

\* No two of the files have the same name.
LEMMA FileNames ==
  /\ \A a \in Attempt : /\ StagedSource(a) \in Staged(a)
                        /\ Final(a) = {FinalSource(a), FinalImages(a)}
  /\ \A a, b \in Attempt : /\ Final(a) \cap Staged(b) = {}
                           /\ StagedSource(a) \notin Final(b)
                           /\ FinalSource(a) # FinalImages(b)
                           /\ StagedSource(a) \in Staged(b) => a = b
                           /\ StagedSource(a) = StagedSource(b) => a = b
                           /\ Final(a) \cap Final(b) # {} => a = b
  /\ \A a \in Attempt, i \in Import :
       {Up(i), Durable(i), UploadsDir} \cap (Final(a) \cup Staged(a)) = {}
  /\ \A i, k \in Import : /\ Durable(i) \notin {Up(k), UploadsDir}
                          /\ Durable(i) = Durable(k) => i = k
<1>1. \A a, b : /\ <<"jobs", a, "source">> # <<"jobs", b, "images">>
                /\ <<"job-staging", a, "source">> # <<"job-staging", b, "images">>
                /\ <<"job-staging", a, "source">> = <<"job-staging", b, "source">> => a = b
                /\ <<"jobs", a, "source">> = <<"jobs", b, "source">> => a = b
                /\ <<"jobs", a, "images">> = <<"jobs", b, "images">> => a = b
                /\ <<"imports", a>> = <<"imports", b>> => a = b
                /\ <<"imports", a>> # <<"uploads", b>>
  OBVIOUS
<1>2. \A a, b, c, d : /\ <<"jobs", a, c>> # <<"job-staging", b, d>>
                      /\ <<"jobs", a, c>>[1] = "jobs" /\ <<"job-staging", a, c>>[1] = "job-staging"
                      /\ <<"uploads", a>>[1] = "uploads" /\ <<"imports", a>>[1] = "imports"
                      /\ <<"uploads">>[1] = "uploads"
  OBVIOUS
<1>3. \A a \in Attempt, i \in Import :
       {Up(i), Durable(i), UploadsDir} \cap (Final(a) \cup Staged(a)) = {}
  <2> SUFFICES ASSUME NEW a \in Attempt, NEW i \in Import,
                      NEW f \in {Up(i), Durable(i), UploadsDir}, f \in Final(a) \cup Staged(a)
               PROVE  FALSE
    OBVIOUS
  <2>1. f[1] \in {"uploads", "imports"}
    BY <1>2 DEF Up, Durable, UploadsDir
  <2>2. f[1] \in {"jobs", "job-staging"}
    BY <1>2 DEF Final, Staged
  <2> QED BY <2>1, <2>2
<1>4. \A i, k \in Import : /\ Durable(i) \notin {Up(k), UploadsDir}
                           /\ Durable(i) = Durable(k) => i = k
  <2> SUFFICES ASSUME NEW i \in Import, NEW k \in Import
               PROVE  Durable(i) \notin {Up(k), UploadsDir} /\ (Durable(i) = Durable(k) => i = k)
    OBVIOUS
  <2>1. Durable(i)[1] = "imports" /\ Up(k)[1] = "uploads" /\ UploadsDir[1] = "uploads"
    BY <1>2 DEF Durable, Up, UploadsDir
  <2> QED BY <1>1, <2>1 DEF Durable
<1>5. \A a \in Attempt : /\ StagedSource(a) \in Staged(a)
                         /\ Final(a) = {FinalSource(a), FinalImages(a)}
  BY DEF StagedSource, Staged, Final, FinalSource, FinalImages
<1>6. \A a, b \in Attempt : /\ Final(a) \cap Staged(b) = {}
                            /\ StagedSource(a) \notin Final(b)
                            /\ FinalSource(a) # FinalImages(b)
                            /\ StagedSource(a) \in Staged(b) => a = b
                            /\ StagedSource(a) = StagedSource(b) => a = b
                            /\ Final(a) \cap Final(b) # {} => a = b
  BY <1>1, <1>2 DEF StagedSource, Staged, Final, FinalSource, FinalImages
<1> QED BY <1>3, <1>4, <1>5, <1>6

\* The files of an import's rows are typed.
LEMMA FileTypes ==
  /\ UploadsDir \in ImportFiles
  /\ \A i \in Import : Up(i) \in ImportFiles /\ Durable(i) \in ImportFiles
  /\ \A a \in Attempt : /\ Staged(a) \subseteq ImportFiles /\ StagedSource(a) \in ImportFiles
                        /\ Final(a) \subseteq ImportFiles
                        /\ FinalSource(a) \in ImportFiles /\ FinalImages(a) \in ImportFiles
<1>1. \A i \in Import : Up(i) \in ImportFiles /\ Durable(i) \in ImportFiles
  <2> SUFFICES ASSUME NEW i \in Import PROVE {Up(i), Durable(i)} \subseteq ImportFiles
    OBVIOUS
  <2>1. {Up(i), Durable(i)} \subseteq UNION {{Up(k), Durable(k)} : k \in Import}
    OBVIOUS
  <2> QED BY <2>1 DEF ImportFiles
<1>2. \A a \in Attempt : Staged(a) \subseteq ImportFiles /\ Final(a) \subseteq ImportFiles
  <2> SUFFICES ASSUME NEW a \in Attempt PROVE Staged(a) \cup Final(a) \subseteq ImportFiles
    OBVIOUS
  <2> DEFINE made == UNION {Staged(b) \cup Final(b) : b \in Attempt}
             taken == UNION {{Up(i), Durable(i)} : i \in Import}
  <2>1. Staged(a) \cup Final(a) \subseteq made
    OBVIOUS
  <2>2. ImportFiles = {UploadsDir} \cup taken \cup made
    BY Zenon DEF ImportFiles
  <2> HIDE DEF made, taken
  <2> QED BY <2>1, <2>2
<1>3. \A a \in Attempt : /\ StagedSource(a) \in Staged(a)
                         /\ FinalSource(a) \in Final(a) /\ FinalImages(a) \in Final(a)
  BY DEF Staged, Final, StagedSource, FinalSource, FinalImages
<1> QED BY <1>1, <1>2, <1>3 DEF ImportFiles
----------------------------------------------------------------------------
(* What the inductive invariant says of the properties. *)

LEMMA JobsAreOne ==
  ASSUME ImportInv, NEW i \in Import \ cut
  PROVE  /\ Cardinality(JobsOf(i)) <= 1
         /\ InFlight(i) => (JobsOf(i) = {})
<1>1. \A a \in JobsOf(i) : a = imp[i].job
  <2> SUFFICES ASSUME NEW a \in JobsOf(i) PROVE a = imp[i].job
    OBVIOUS
  <2>1. a \in Attempt /\ a[1] = i /\ job[a] = "full"
    BY DEF JobsOf
  <2>2. JobAgrees(a)
    BY <2>1 DEF ImportInv
  <2> QED BY <2>1, <2>2 DEF JobAgrees
<1>2. RowAgrees(i)
  BY DEF ImportInv
<1>3. CASE JobsOf(i) = {}
  <2>1. Cardinality(JobsOf(i)) = 0
    BY <1>3, FS_EmptySet
  <2> QED BY <1>3, <2>1
<1>4. CASE JobsOf(i) # {}
  <2>1. JobsOf(i) = {imp[i].job} /\ imp[i].job \in Attempt
    BY <1>1, <1>4 DEF JobsOf
  <2>2. Cardinality(JobsOf(i)) = 1
    BY <2>1, FS_Singleton
  <2>3. ~InFlight(i)
    BY <1>2, <2>1, ImportAssumption DEF RowAgrees, InFlight, Attempt
  <2> QED BY <2>2, <2>3
<1> QED BY <1>3, <1>4

LEMMA QuietHasItsFiles ==
  ASSUME ImportInv, \A i \in Import : wk[i] = "off", cut = {}
  PROVE  References(imp, job) \subseteq files
<1>1. \A a \in Attempt : FilesOf(job[a], a) \subseteq files
  <2> SUFFICES ASSUME NEW a \in Attempt PROVE FilesOf(job[a], a) \subseteq files
    OBVIOUS
  <2>1. JobAgrees(a) /\ job[a] \in JobState /\ a[1] \in Import
    BY AttemptNames DEF ImportInv, ImportsTypeOK
  <2>2. job[a] = "staged" => StagedSource(a) \in files
    BY <2>1 DEF JobAgrees
  <2>3. job[a] # "bare" /\ (job[a] = "full" => Final(a) \subseteq files)
    BY <2>1 DEF JobAgrees
  <2> QED BY <2>1, <2>2, <2>3 DEF FilesOf, JobState
<1>2. \A i \in Import : imp[i].st \notin {"completed", "failed"} => SourceOf(imp[i], i) \subseteq files
  <2> SUFFICES ASSUME NEW i \in Import, imp[i].st \notin {"completed", "failed"}
               PROVE  SourceOf(imp[i], i) \subseteq files
    OBVIOUS
  <2>1. RowAgrees(i) /\ imp[i] \in ImportRow
    BY DEF ImportInv, ImportsTypeOK
  <2> QED BY <2>1 DEF RowAgrees, ImportRow, InFlight, SourceOf
<1> DEFINE ofJobs == UNION {FilesOf(job[a], a) : a \in Attempt}
           wanted(i) == IF imp[i].st \in {"completed", "failed"}
                        THEN SourceOf(imp[i], i) \cap files
                        ELSE SourceOf(imp[i], i)
           ofImports == UNION {wanted(i) : i \in Import}
<1>3. \A i \in Import : wanted(i) \subseteq files
  BY <1>2
<1>4. References(imp, job) = ofJobs \cup ofImports
  BY Zenon DEF References
<1>5. ofJobs \subseteq files
  BY <1>1
<1>6. ofImports \subseteq files
  <2> HIDE DEF wanted
  <2> QED BY <1>3
<1> HIDE DEF ofJobs, ofImports
<1> QED BY <1>4, <1>5, <1>6
----------------------------------------------------------------------------
(* The steps of an import: they change its row, its worker and the job of   *)
(* its present attempt, and leave the files of other attempts alone.        *)

WorkerState == {"off", "checked", "read", "extract", "made", "moved",
                "clear staging", "clear final", "purge", "purge uploads"}

\* The files that others than the present attempt of i count on stay.
OthersKeepFiles(i) ==
  /\ \A a \in Attempt : a # Now(i) =>
       /\ Final(a) \subseteq files => Final(a) \subseteq files'
       /\ job[a] = "staged" /\ StagedSource(a) \in files => StagedSource(a) \in files'
  /\ \A k \in Import \ {i} : Durable(k) \in files => Durable(k) \in files'

\* i goes on with the given row, worker and job.
GoesOn(i, row, worker, state) ==
  /\ row \in ImportRow /\ worker \in WorkerState /\ state \in JobState
  /\ imp' = [imp EXCEPT ![i] = row]
  /\ wk' = [wk EXCEPT ![i] = worker]
  /\ job' = [job EXCEPT ![Now(i)] = state]
  /\ files' \subseteq ImportFiles
  /\ cut \subseteq cut' /\ cut' \subseteq cut \cup {i}
  /\ up /\ UNCHANGED <<removing, bk, locked, packs, up, life>>

LEMMA RowTypes ==
  ASSUME ImportsTypeOK, NEW i \in Import
  PROVE  imp[i] \in ImportRow /\ wk[i] \in WorkerState
         /\ \A a \in Attempt : job[a] \in JobState
BY DEF ImportsTypeOK, WorkerState

LEMMA TypeGoesOn ==
  ASSUME ImportsTypeOK, NEW i \in Import, NEW row, NEW worker, NEW state, GoesOn(i, row, worker, state)
  PROVE  ImportsTypeOK'
BY DEF ImportsTypeOK, GoesOn, WorkerState

LEMMA StepOfImport ==
  ASSUME ImportInv, NEW i \in Import, NEW row, NEW worker, NEW state,
         GoesOn(i, row, worker, state), OthersKeepFiles(i),
         \/ row.job = imp[i].job
         \/ imp[i].job = None /\ row.job = Now(i),
         Tried(Now(i)) => /\ worker \notin {"checked", "read", "extract"} /\ row.st # "none"
                          /\ job[Now(i)] = "none" => state = "none",
         RowAgrees(i)', \A a \in Attempt : a = Now(i) => JobAgrees(a)'
  PROVE  ImportInv'
<1>1. /\ ImportsTypeOK
      /\ \A k \in Import : (imp[k].job # None => imp[k].job[1] = k) /\ RowAgrees(k)
      /\ \A a \in Attempt : JobAgrees(a)
      /\ \A paths \in removing : Abandoned(paths)
  BY DEF ImportInv
<1>2. ImportsTypeOK'
  BY <1>1, TypeGoesOn
<1>3. Now(i) \in Attempt /\ Now(i)[1] = i /\ Now(i)[2] = life /\ life' = life /\ up /\ up'
  BY <1>1, NowIsAttempt DEF GoesOn
<1>4. /\ imp' \in [Import -> ImportRow] /\ imp'[i] = row
      /\ \A k \in Import \ {i} : imp'[k] = imp[k] /\ wk'[k] = wk[k]
      /\ wk'[i] = worker /\ job'[Now(i)] = state
      /\ \A a \in Attempt : a # Now(i) => job'[a] = job[a]
  BY <1>1, <1>3 DEF GoesOn, ImportsTypeOK
<1>5. \A k \in Import : (imp'[k].job # None => imp'[k].job[1] = k) /\ RowAgrees(k)'
  <2> SUFFICES ASSUME NEW k \in Import
               PROVE  (imp'[k].job # None => imp'[k].job[1] = k) /\ RowAgrees(k)'
    OBVIOUS
  <2>1. CASE k = i
    BY <1>1, <1>3, <1>4, <2>1
  <2>2. CASE k # i
    <3>1. k \in cut' <=> k \in cut
      BY <2>2 DEF GoesOn
    <3> QED BY <1>1, <1>4, <2>2, <3>1 DEF RowAgrees, InFlight, OthersKeepFiles
  <2> QED BY <2>1, <2>2
<1>6. \A a \in Attempt : Tried(a) => Tried(a)'
  <2> SUFFICES ASSUME NEW a \in Attempt, Tried(a) PROVE Tried(a)'
    OBVIOUS
  <2>1. a[1] \in Import /\ (a = Now(i) <=> a[1] = i /\ a[2] = life)
    BY AttemptNames
  <2>2. CASE a = Now(i)
    BY <1>3, <1>4, <2>1, <2>2 DEF Tried
  <2>3. CASE a # Now(i)
    BY <1>3, <1>4, <2>1, <2>3 DEF Tried
  <2> QED BY <2>2, <2>3
<1>7. \A a \in Attempt : JobAgrees(a)'
  <2> SUFFICES ASSUME NEW a \in Attempt, a # Now(i) PROVE JobAgrees(a)'
    OBVIOUS
  <2>1. a[1] \in Import /\ ~(a[1] = i /\ a[2] = life) /\ JobAgrees(a) /\ job'[a] = job[a]
    BY <1>1, <1>4, AttemptNames
  <2>2. /\ Current(a)' <=> Current(a)
        /\ Tried(a) => Tried(a)'
    BY <1>3, <1>6 DEF Current
  <2>3. /\ Final(a) \subseteq files => Final(a) \subseteq files'
        /\ job[a] = "staged" /\ StagedSource(a) \in files => StagedSource(a) \in files'
        /\ a[1] \in cut => a[1] \in cut'
    BY <2>1 DEF OthersKeepFiles, GoesOn
  <2>4. CASE a[1] # i
    BY <1>4, <2>1, <2>2, <2>3, <2>4 DEF JobAgrees
  <2>5. CASE a[1] = i
    <3>1. ~Current(a) /\ ~Current(a)'
      BY <1>3, <2>1, <2>5 DEF Current
    <3>2. job[a] = "full" /\ a[1] \notin cut => imp[i].job = a
      BY <2>1, <2>5 DEF JobAgrees
    <3>3. a # None
      BY ImportAssumption DEF Attempt
    <3>4. imp'[i].job = a => imp[i].job = a
      BY <1>4
    <3>5. job[a] = "full" /\ a[1] \notin cut' => imp'[i].job = a
      BY <1>4, <2>3, <3>2, <3>3
    <3> QED BY <2>1, <2>2, <2>3, <2>5, <3>1, <3>4, <3>5 DEF JobAgrees
  <2> QED BY <2>4, <2>5
<1>8. \A paths \in removing' : Abandoned(paths)'
  <2> SUFFICES ASSUME NEW paths \in removing PROVE Abandoned(paths)'
    BY DEF GoesOn
  <2>1. PICK a \in Attempt : paths \in {Final(a), {StagedSource(a)}} /\ job[a] = "none" /\ Tried(a)
    BY <1>1 DEF Abandoned
  <2>2. job'[a] = "none" /\ Tried(a)'
    BY <1>4, <1>6, <2>1
  <2> QED BY <2>1, <2>2 DEF Abandoned
<1>9. /\ ~up' => (\A k \in Import : wk'[k] = "off") /\ removing' = {} /\ bk'.st = "none"
      /\ bk'.st = "copying" => Whole(bk'.imp, bk'.job)
      /\ \A p \in packs' : Whole(p.imp, p.job) /\ Verified(p)
      /\ IsBackup(bk')
  BY <1>3 DEF ImportInv, GoesOn
<1> QED BY <1>2, <1>5, <1>7, <1>8, <1>9 DEF ImportInv

\* What is known of an import and of its present attempt at any time.
KnownHere(i) ==
  /\ ImportsTypeOK /\ RowAgrees(i) /\ JobAgrees(Now(i))
  /\ Now(i) \in Attempt /\ Now(i)[1] = i /\ Now(i)[2] = life /\ Now(i) # None
  /\ imp[i] \in ImportRow /\ wk[i] \in WorkerState /\ job[Now(i)] \in JobState
  /\ wk[i] # "off" => up
  /\ Tried(Now(i)) <=> (up /\ wk[i] \notin {"checked", "read", "extract"} /\ imp[i].st # "none")

\* Its files.
FilesHere(i) ==
  /\ StagedSource(Now(i)) \in Staged(Now(i))
  /\ Final(Now(i)) = {FinalSource(Now(i)), FinalImages(Now(i))}
  /\ Final(Now(i)) \cap Staged(Now(i)) = {} /\ StagedSource(Now(i)) \notin Final(Now(i))
  /\ {Up(i), Durable(i), UploadsDir} \cap (Final(Now(i)) \cup Staged(Now(i))) = {}
  /\ Durable(i) \notin {Up(i), UploadsDir}
  /\ {Up(i), Durable(i), UploadsDir} \subseteq ImportFiles
  /\ Staged(Now(i)) \subseteq ImportFiles /\ Final(Now(i)) \subseteq ImportFiles

LEMMA Here ==
  ASSUME ImportInv, NEW i \in Import
  PROVE  KnownHere(i) /\ FilesHere(i)
<1>1. ImportsTypeOK /\ RowAgrees(i) /\ life \in Nat
  <2>1. ImportsTypeOK /\ RowAgrees(i)
    BY DEF ImportInv
  <2>2. life \in 0 .. MaxCrashes /\ MaxCrashes \in Nat
    BY <2>1, ImportAssumption DEF ImportsTypeOK
  <2> QED BY <2>1, <2>2
<1>2. Now(i) \in Attempt /\ Now(i)[1] = i /\ Now(i)[2] = life
  BY <1>1, NowIsAttempt
<1>3. JobAgrees(Now(i)) /\ (wk[i] # "off" => up)
  BY <1>2 DEF ImportInv
<1>4. Tried(Now(i)) <=> (up /\ wk[i] \notin {"checked", "read", "extract"} /\ imp[i].st # "none")
  BY <1>1, <1>2 DEF Tried
<1>5. Now(i) # None
  BY <1>2, ImportAssumption DEF Attempt
<1>6. FilesHere(i)
  BY <1>2, FileNames, FileTypes DEF FilesHere
<1> QED BY <1>1, <1>2, <1>3, <1>4, <1>5, <1>6, RowTypes DEF KnownHere

\* A step that leaves the row of an import, or the job of its attempt, as it is.
LEMMA SameRow ==
  ASSUME ImportsTypeOK, NEW i \in Import
  PROVE  imp = [imp EXCEPT ![i] = imp[i]] /\ job = [job EXCEPT ![Now(i)] = job[Now(i)]]
BY DEF ImportsTypeOK

\* A new upload has not been tried.
LEMMA UploadKeeps ==
  ASSUME ImportInv, NEW i \in Import, Upload(i)
  PROVE  ImportInv'
<1> DEFINE row == imp[i]
           worker == "checked"
           state == job[Now(i)]
<1>1. KnownHere(i) /\ FilesHere(i)
  BY Here
<1>2. row.st = imp[i].st /\ row.src = imp[i].src /\ row.job = imp[i].job
  BY <1>1 DEF KnownHere, ImportRow
<1>3. GoesOn(i, row, worker, state)
  <2>1. row \in ImportRow /\ worker \in WorkerState /\ state \in JobState
    BY <1>1 DEF KnownHere, Upload, ImportRow, WorkerState, JobState
  <2>2. files' \subseteq ImportFiles
    BY <1>1 DEF KnownHere, FilesHere, Upload, ImportsTypeOK
  <2>3. /\ imp' = [imp EXCEPT ![i] = row] /\ wk' = [wk EXCEPT ![i] = worker]
        /\ job' = [job EXCEPT ![Now(i)] = state]
    BY <1>1, SameRow DEF KnownHere, Upload
  <2>4. /\ cut \subseteq cut' /\ cut' \subseteq cut \cup {i}
        /\ up /\ UNCHANGED <<removing, bk, locked, packs, up, life>>
    BY <1>1 DEF KnownHere, Upload
  <2> QED BY <2>1, <2>2, <2>3, <2>4 DEF GoesOn
<1>4. OthersKeepFiles(i)
  BY <1>1, FileNames DEF KnownHere, OthersKeepFiles, Upload
<1>5. imp'[i] = row /\ wk'[i] = worker /\ job'[Now(i)] = state /\ life' = life /\ up /\ up'
  BY <1>1, <1>3 DEF KnownHere, GoesOn, ImportsTypeOK
<1>6. RowAgrees(i)'
  <2> HIDE DEF row
  <2> QED BY <1>1, <1>5, <1>2
             DEF KnownHere, FilesHere, RowAgrees, InFlight, ImportRow, Upload, Attempting
<1>7. \A a \in Attempt : a = Now(i) => JobAgrees(a)'
  <2> SUFFICES ASSUME NEW a \in Attempt, a = Now(i) PROVE JobAgrees(a)'
    OBVIOUS
  <2>1. /\ a[1] = i /\ a[2] = life /\ JobAgrees(a) /\ imp'[i] = row /\ wk'[i] = worker
        /\ job'[a] = state /\ state \in JobState
        /\ (~Tried(a) => job[a] = "none")
    BY <1>1, <1>3, <1>5 DEF KnownHere, GoesOn, JobAgrees
  <2>2. Tried(a)' \/ worker \in {"checked", "read", "extract"} \/ row.st = "none"
    BY <1>5, <2>1 DEF Tried
  <2>3. Current(a) /\ Current(a)'
    BY <1>5, <2>1 DEF Current
  <2> HIDE DEF row
  <2> QED BY <1>1, <1>5, <1>2, <2>1, <2>2, <2>3
             DEF KnownHere, FilesHere, JobAgrees, RowAgrees, Attempting, Upload
<1>8. row.job = imp[i].job \/ (imp[i].job = None /\ row.job = Now(i))
  BY <1>1 DEF KnownHere, RowAgrees, Attempting, ImportRow, Upload
<1>9. Tried(Now(i)) =>
        /\ worker \notin {"checked", "read", "extract"} /\ row.st # "none"
        /\ job[Now(i)] = "none" => state = "none"
  BY <1>1 DEF KnownHere, RowAgrees, JobAgrees, Attempting, ImportRow, Upload
<1> HIDE DEF row, worker, state
<1> QED BY <1>3, <1>4, <1>6, <1>7, <1>8, <1>9, StepOfImport

LEMMA RefuseKeeps ==
  ASSUME ImportInv, NEW i \in Import, Refuse(i)
  PROVE  ImportInv'
<1> DEFINE row == imp[i]
           worker == "off"
           state == job[Now(i)]
<1>1. KnownHere(i) /\ FilesHere(i)
  BY Here
<1>2. row.st = imp[i].st /\ row.src = imp[i].src /\ row.job = imp[i].job
  BY <1>1 DEF KnownHere, ImportRow
<1>3. GoesOn(i, row, worker, state)
  <2>1. row \in ImportRow /\ worker \in WorkerState /\ state \in JobState
    BY <1>1 DEF KnownHere, Refuse, ImportRow, WorkerState, JobState
  <2>2. files' \subseteq ImportFiles
    BY <1>1 DEF KnownHere, FilesHere, Refuse, ImportsTypeOK
  <2>3. /\ imp' = [imp EXCEPT ![i] = row] /\ wk' = [wk EXCEPT ![i] = worker]
        /\ job' = [job EXCEPT ![Now(i)] = state]
    BY <1>1, SameRow DEF KnownHere, Refuse
  <2>4. /\ cut \subseteq cut' /\ cut' \subseteq cut \cup {i}
        /\ up /\ UNCHANGED <<removing, bk, locked, packs, up, life>>
    BY <1>1 DEF KnownHere, Refuse
  <2> QED BY <2>1, <2>2, <2>3, <2>4 DEF GoesOn
<1>4. OthersKeepFiles(i)
  BY <1>1, FileNames DEF KnownHere, OthersKeepFiles, Refuse
<1>5. imp'[i] = row /\ wk'[i] = worker /\ job'[Now(i)] = state /\ life' = life /\ up /\ up'
  BY <1>1, <1>3 DEF KnownHere, GoesOn, ImportsTypeOK
<1>6. RowAgrees(i)'
  <2> HIDE DEF row
  <2> QED BY <1>1, <1>5, <1>2
             DEF KnownHere, FilesHere, RowAgrees, InFlight, ImportRow, Refuse, Attempting
<1>7. \A a \in Attempt : a = Now(i) => JobAgrees(a)'
  <2> SUFFICES ASSUME NEW a \in Attempt, a = Now(i) PROVE JobAgrees(a)'
    OBVIOUS
  <2>1. /\ a[1] = i /\ a[2] = life /\ JobAgrees(a) /\ imp'[i] = row /\ wk'[i] = worker
        /\ job'[a] = state /\ state \in JobState
        /\ (~Tried(a) => job[a] = "none")
    BY <1>1, <1>3, <1>5 DEF KnownHere, GoesOn, JobAgrees
  <2>2. Tried(a)' \/ worker \in {"checked", "read", "extract"} \/ row.st = "none"
    BY <1>5, <2>1 DEF Tried
  <2>3. Current(a) /\ Current(a)'
    BY <1>5, <2>1 DEF Current
  <2> HIDE DEF row
  <2> QED BY <1>1, <1>5, <1>2, <2>1, <2>2, <2>3
             DEF KnownHere, FilesHere, JobAgrees, RowAgrees, Attempting, Refuse
<1>8. row.job = imp[i].job \/ (imp[i].job = None /\ row.job = Now(i))
  BY <1>1 DEF KnownHere, RowAgrees, Attempting, ImportRow, Refuse
<1>9. Tried(Now(i)) =>
        /\ worker \notin {"checked", "read", "extract"} /\ row.st # "none"
        /\ job[Now(i)] = "none" => state = "none"
  BY <1>1 DEF KnownHere, RowAgrees, JobAgrees, Attempting, ImportRow, Refuse
<1> HIDE DEF row, worker, state
<1> QED BY <1>3, <1>4, <1>6, <1>7, <1>8, <1>9, StepOfImport

LEMMA AcceptKeeps ==
  ASSUME ImportInv, NEW i \in Import, Accept(i)
  PROVE  ImportInv'
<1> DEFINE row == [st |-> "processing", src |-> "imports", job |-> None]
           worker == "read"
           state == job[Now(i)]
<1>1. KnownHere(i) /\ FilesHere(i)
  BY Here
<1>2. row.st = "processing" /\ row.src = "imports" /\ row.job = None
  BY <1>1 DEF KnownHere, ImportRow
<1>3. GoesOn(i, row, worker, state)
  <2>1. row \in ImportRow /\ worker \in WorkerState /\ state \in JobState
    BY <1>1 DEF KnownHere, Accept, ImportRow, WorkerState, JobState
  <2>2. files' \subseteq ImportFiles
    BY <1>1 DEF KnownHere, FilesHere, Accept, ImportsTypeOK
  <2>3. /\ imp' = [imp EXCEPT ![i] = row] /\ wk' = [wk EXCEPT ![i] = worker]
        /\ job' = [job EXCEPT ![Now(i)] = state]
    BY <1>1, SameRow DEF KnownHere, Accept
  <2>4. /\ cut \subseteq cut' /\ cut' \subseteq cut \cup {i}
        /\ up /\ UNCHANGED <<removing, bk, locked, packs, up, life>>
    BY <1>1 DEF KnownHere, Accept
  <2> QED BY <2>1, <2>2, <2>3, <2>4 DEF GoesOn
<1>4. OthersKeepFiles(i)
  BY <1>1, FileNames DEF KnownHere, OthersKeepFiles, Accept
<1>5. imp'[i] = row /\ wk'[i] = worker /\ job'[Now(i)] = state /\ life' = life /\ up /\ up'
  BY <1>1, <1>3 DEF KnownHere, GoesOn, ImportsTypeOK
<1>6. RowAgrees(i)'
  <2> HIDE DEF row
  <2> QED BY <1>1, <1>5, <1>2
             DEF KnownHere, FilesHere, RowAgrees, InFlight, ImportRow, Accept, Attempting
<1>7. \A a \in Attempt : a = Now(i) => JobAgrees(a)'
  <2> SUFFICES ASSUME NEW a \in Attempt, a = Now(i) PROVE JobAgrees(a)'
    OBVIOUS
  <2>1. /\ a[1] = i /\ a[2] = life /\ JobAgrees(a) /\ imp'[i] = row /\ wk'[i] = worker
        /\ job'[a] = state /\ state \in JobState
        /\ (~Tried(a) => job[a] = "none")
    BY <1>1, <1>3, <1>5 DEF KnownHere, GoesOn, JobAgrees
  <2>2. Tried(a)' \/ worker \in {"checked", "read", "extract"} \/ row.st = "none"
    BY <1>5, <2>1 DEF Tried
  <2>3. Current(a) /\ Current(a)'
    BY <1>5, <2>1 DEF Current
  <2> HIDE DEF row
  <2> QED BY <1>1, <1>5, <1>2, <2>1, <2>2, <2>3
             DEF KnownHere, FilesHere, JobAgrees, RowAgrees, Attempting, Accept
<1>8. row.job = imp[i].job \/ (imp[i].job = None /\ row.job = Now(i))
  BY <1>1 DEF KnownHere, RowAgrees, Attempting, ImportRow, Accept
<1>9. Tried(Now(i)) =>
        /\ worker \notin {"checked", "read", "extract"} /\ row.st # "none"
        /\ job[Now(i)] = "none" => state = "none"
  BY <1>1 DEF KnownHere, RowAgrees, JobAgrees, Attempting, ImportRow, Accept
<1> HIDE DEF row, worker, state
<1> QED BY <1>3, <1>4, <1>6, <1>7, <1>8, <1>9, StepOfImport

LEMMA AcceptFailsKeeps ==
  ASSUME ImportInv, NEW i \in Import, AcceptFails(i)
  PROVE  ImportInv'
<1> DEFINE row == [st |-> "queued", src |-> "uploads", job |-> None]
           worker == "off"
           state == job[Now(i)]
<1>1. KnownHere(i) /\ FilesHere(i)
  BY Here
<1>2. row.st = "queued" /\ row.src = "uploads" /\ row.job = None
  BY <1>1 DEF KnownHere, ImportRow
<1>3. GoesOn(i, row, worker, state)
  <2>1. row \in ImportRow /\ worker \in WorkerState /\ state \in JobState
    BY <1>1 DEF KnownHere, AcceptFails, ImportRow, WorkerState, JobState
  <2>2. files' \subseteq ImportFiles
    BY <1>1 DEF KnownHere, FilesHere, AcceptFails, ImportsTypeOK
  <2>3. /\ imp' = [imp EXCEPT ![i] = row] /\ wk' = [wk EXCEPT ![i] = worker]
        /\ job' = [job EXCEPT ![Now(i)] = state]
    BY <1>1, SameRow DEF KnownHere, AcceptFails
  <2>4. /\ cut \subseteq cut' /\ cut' \subseteq cut \cup {i}
        /\ up /\ UNCHANGED <<removing, bk, locked, packs, up, life>>
    BY <1>1 DEF KnownHere, AcceptFails
  <2> QED BY <2>1, <2>2, <2>3, <2>4 DEF GoesOn
<1>4. OthersKeepFiles(i)
  BY <1>1, FileNames DEF KnownHere, OthersKeepFiles, AcceptFails
<1>5. imp'[i] = row /\ wk'[i] = worker /\ job'[Now(i)] = state /\ life' = life /\ up /\ up'
  BY <1>1, <1>3 DEF KnownHere, GoesOn, ImportsTypeOK
<1>6. RowAgrees(i)'
  <2> HIDE DEF row
  <2> QED BY <1>1, <1>5, <1>2
             DEF KnownHere, FilesHere, RowAgrees, InFlight, ImportRow, AcceptFails, Attempting
<1>7. \A a \in Attempt : a = Now(i) => JobAgrees(a)'
  <2> SUFFICES ASSUME NEW a \in Attempt, a = Now(i) PROVE JobAgrees(a)'
    OBVIOUS
  <2>1. /\ a[1] = i /\ a[2] = life /\ JobAgrees(a) /\ imp'[i] = row /\ wk'[i] = worker
        /\ job'[a] = state /\ state \in JobState
        /\ (~Tried(a) => job[a] = "none")
    BY <1>1, <1>3, <1>5 DEF KnownHere, GoesOn, JobAgrees
  <2>2. Tried(a)' \/ worker \in {"checked", "read", "extract"} \/ row.st = "none"
    BY <1>5, <2>1 DEF Tried
  <2>3. Current(a) /\ Current(a)'
    BY <1>5, <2>1 DEF Current
  <2> HIDE DEF row
  <2> QED BY <1>1, <1>5, <1>2, <2>1, <2>2, <2>3
             DEF KnownHere, FilesHere, JobAgrees, RowAgrees, Attempting, AcceptFails
<1>8. row.job = imp[i].job \/ (imp[i].job = None /\ row.job = Now(i))
  BY <1>1 DEF KnownHere, RowAgrees, Attempting, ImportRow, AcceptFails
<1>9. Tried(Now(i)) =>
        /\ worker \notin {"checked", "read", "extract"} /\ row.st # "none"
        /\ job[Now(i)] = "none" => state = "none"
  BY <1>1 DEF KnownHere, RowAgrees, JobAgrees, Attempting, ImportRow, AcceptFails
<1> HIDE DEF row, worker, state
<1> QED BY <1>3, <1>4, <1>6, <1>7, <1>8, <1>9, StepOfImport

LEMMA ReadFailsKeeps ==
  ASSUME ImportInv, NEW i \in Import, ReadFails(i)
  PROVE  ImportInv'
<1> DEFINE row == [imp[i] EXCEPT !.st = "failed"]
           worker == "off"
           state == job[Now(i)]
<1>1. KnownHere(i) /\ FilesHere(i)
  BY Here
<1>2. row.st = "failed" /\ row.src = imp[i].src /\ row.job = imp[i].job
  BY <1>1 DEF KnownHere, ImportRow
<1>3. GoesOn(i, row, worker, state)
  <2>1. row \in ImportRow /\ worker \in WorkerState /\ state \in JobState
    BY <1>1 DEF KnownHere, ReadFails, Fail, ImportRow, WorkerState, JobState
  <2>2. files' \subseteq ImportFiles
    BY <1>1 DEF KnownHere, FilesHere, ReadFails, Fail, ImportsTypeOK
  <2>3. /\ imp' = [imp EXCEPT ![i] = row] /\ wk' = [wk EXCEPT ![i] = worker]
        /\ job' = [job EXCEPT ![Now(i)] = state]
    BY <1>1, SameRow DEF KnownHere, ReadFails, Fail
  <2>4. /\ cut \subseteq cut' /\ cut' \subseteq cut \cup {i}
        /\ up /\ UNCHANGED <<removing, bk, locked, packs, up, life>>
    BY <1>1 DEF KnownHere, ReadFails, Fail
  <2> QED BY <2>1, <2>2, <2>3, <2>4 DEF GoesOn
<1>4. OthersKeepFiles(i)
  BY <1>1, FileNames DEF KnownHere, OthersKeepFiles, ReadFails, Fail
<1>5. imp'[i] = row /\ wk'[i] = worker /\ job'[Now(i)] = state /\ life' = life /\ up /\ up'
  BY <1>1, <1>3 DEF KnownHere, GoesOn, ImportsTypeOK
<1>6. RowAgrees(i)'
  <2> HIDE DEF row
  <2> QED BY <1>1, <1>5, <1>2
             DEF KnownHere, FilesHere, RowAgrees, InFlight, ImportRow, ReadFails, Fail, Attempting
<1>7. \A a \in Attempt : a = Now(i) => JobAgrees(a)'
  <2> SUFFICES ASSUME NEW a \in Attempt, a = Now(i) PROVE JobAgrees(a)'
    OBVIOUS
  <2>1. /\ a[1] = i /\ a[2] = life /\ JobAgrees(a) /\ imp'[i] = row /\ wk'[i] = worker
        /\ job'[a] = state /\ state \in JobState
        /\ (~Tried(a) => job[a] = "none")
    BY <1>1, <1>3, <1>5 DEF KnownHere, GoesOn, JobAgrees
  <2>2. Tried(a)' \/ worker \in {"checked", "read", "extract"} \/ row.st = "none"
    BY <1>5, <2>1 DEF Tried
  <2>3. Current(a) /\ Current(a)'
    BY <1>5, <2>1 DEF Current
  <2> HIDE DEF row
  <2> QED BY <1>1, <1>5, <1>2, <2>1, <2>2, <2>3
             DEF KnownHere, FilesHere, JobAgrees, RowAgrees, Attempting, ReadFails, Fail
<1>8. row.job = imp[i].job \/ (imp[i].job = None /\ row.job = Now(i))
  BY <1>1 DEF KnownHere, RowAgrees, Attempting, ImportRow, ReadFails, Fail
<1>9. Tried(Now(i)) =>
        /\ worker \notin {"checked", "read", "extract"} /\ row.st # "none"
        /\ job[Now(i)] = "none" => state = "none"
  BY <1>1 DEF KnownHere, RowAgrees, JobAgrees, Attempting, ImportRow, ReadFails, Fail
<1> HIDE DEF row, worker, state
<1> QED BY <1>3, <1>4, <1>6, <1>7, <1>8, <1>9, StepOfImport

LEMMA CopySourceKeeps ==
  ASSUME ImportInv, NEW i \in Import, CopySource(i)
  PROVE  ImportInv'
<1> DEFINE row == imp[i]
           worker == "extract"
           state == job[Now(i)]
<1>1. KnownHere(i) /\ FilesHere(i)
  BY Here
<1>2. row.st = imp[i].st /\ row.src = imp[i].src /\ row.job = imp[i].job
  BY <1>1 DEF KnownHere, ImportRow
<1>3. GoesOn(i, row, worker, state)
  <2>1. row \in ImportRow /\ worker \in WorkerState /\ state \in JobState
    BY <1>1 DEF KnownHere, CopySource, ImportRow, WorkerState, JobState
  <2>2. files' \subseteq ImportFiles
    BY <1>1 DEF KnownHere, FilesHere, CopySource, ImportsTypeOK
  <2>3. /\ imp' = [imp EXCEPT ![i] = row] /\ wk' = [wk EXCEPT ![i] = worker]
        /\ job' = [job EXCEPT ![Now(i)] = state]
    BY <1>1, SameRow DEF KnownHere, CopySource
  <2>4. /\ cut \subseteq cut' /\ cut' \subseteq cut \cup {i}
        /\ up /\ UNCHANGED <<removing, bk, locked, packs, up, life>>
    BY <1>1 DEF KnownHere, CopySource
  <2> QED BY <2>1, <2>2, <2>3, <2>4 DEF GoesOn
<1>4. OthersKeepFiles(i)
  BY <1>1, FileNames DEF KnownHere, OthersKeepFiles, CopySource
<1>5. imp'[i] = row /\ wk'[i] = worker /\ job'[Now(i)] = state /\ life' = life /\ up /\ up'
  BY <1>1, <1>3 DEF KnownHere, GoesOn, ImportsTypeOK
<1>6. RowAgrees(i)'
  <2> HIDE DEF row
  <2> QED BY <1>1, <1>5, <1>2
             DEF KnownHere, FilesHere, RowAgrees, InFlight, ImportRow, CopySource, Attempting
<1>7. \A a \in Attempt : a = Now(i) => JobAgrees(a)'
  <2> SUFFICES ASSUME NEW a \in Attempt, a = Now(i) PROVE JobAgrees(a)'
    OBVIOUS
  <2>1. /\ a[1] = i /\ a[2] = life /\ JobAgrees(a) /\ imp'[i] = row /\ wk'[i] = worker
        /\ job'[a] = state /\ state \in JobState
        /\ (~Tried(a) => job[a] = "none")
    BY <1>1, <1>3, <1>5 DEF KnownHere, GoesOn, JobAgrees
  <2>2. Tried(a)' \/ worker \in {"checked", "read", "extract"} \/ row.st = "none"
    BY <1>5, <2>1 DEF Tried
  <2>3. Current(a) /\ Current(a)'
    BY <1>5, <2>1 DEF Current
  <2> HIDE DEF row
  <2> QED BY <1>1, <1>5, <1>2, <2>1, <2>2, <2>3
             DEF KnownHere, FilesHere, JobAgrees, RowAgrees, Attempting, CopySource
<1>8. row.job = imp[i].job \/ (imp[i].job = None /\ row.job = Now(i))
  BY <1>1 DEF KnownHere, RowAgrees, Attempting, ImportRow, CopySource
<1>9. Tried(Now(i)) =>
        /\ worker \notin {"checked", "read", "extract"} /\ row.st # "none"
        /\ job[Now(i)] = "none" => state = "none"
  BY <1>1 DEF KnownHere, RowAgrees, JobAgrees, Attempting, ImportRow, CopySource
<1> HIDE DEF row, worker, state
<1> QED BY <1>3, <1>4, <1>6, <1>7, <1>8, <1>9, StepOfImport

\* The job is made with its files staged.
LEMMA ExtractAndCreateJobKeeps ==
  ASSUME ImportInv, NEW i \in Import, ExtractAndCreateJob(i)
  PROVE  ImportInv'
<1> DEFINE row == imp[i]
           worker == "made"
           state == "staged"
<1>1. KnownHere(i) /\ FilesHere(i)
  BY Here
<1>2. row.st = imp[i].st /\ row.src = imp[i].src /\ row.job = imp[i].job
  BY <1>1 DEF KnownHere, ImportRow
<1>3. GoesOn(i, row, worker, state)
  <2>1. row \in ImportRow /\ worker \in WorkerState /\ state \in JobState
    BY <1>1 DEF KnownHere, ExtractAndCreateJob, ImportRow, WorkerState, JobState
  <2>2. files' \subseteq ImportFiles
    BY <1>1 DEF KnownHere, FilesHere, ExtractAndCreateJob, ImportsTypeOK
  <2>3. /\ imp' = [imp EXCEPT ![i] = row] /\ wk' = [wk EXCEPT ![i] = worker]
        /\ job' = [job EXCEPT ![Now(i)] = state]
    BY <1>1, SameRow DEF KnownHere, ExtractAndCreateJob
  <2>4. /\ cut \subseteq cut' /\ cut' \subseteq cut \cup {i}
        /\ up /\ UNCHANGED <<removing, bk, locked, packs, up, life>>
    BY <1>1 DEF KnownHere, ExtractAndCreateJob
  <2> QED BY <2>1, <2>2, <2>3, <2>4 DEF GoesOn
<1>4. OthersKeepFiles(i)
  BY <1>1, FileNames DEF KnownHere, OthersKeepFiles, ExtractAndCreateJob
<1>5. imp'[i] = row /\ wk'[i] = worker /\ job'[Now(i)] = state /\ life' = life /\ up /\ up'
  BY <1>1, <1>3 DEF KnownHere, GoesOn, ImportsTypeOK
<1>6. RowAgrees(i)'
  <2> HIDE DEF row
  <2> QED BY <1>1, <1>5, <1>2
             DEF KnownHere, FilesHere, RowAgrees, InFlight, ImportRow, ExtractAndCreateJob, Attempting
<1>7. \A a \in Attempt : a = Now(i) => JobAgrees(a)'
  <2> SUFFICES ASSUME NEW a \in Attempt, a = Now(i) PROVE JobAgrees(a)'
    OBVIOUS
  <2>1. /\ a[1] = i /\ a[2] = life /\ JobAgrees(a) /\ imp'[i] = row /\ wk'[i] = worker
        /\ job'[a] = state /\ state \in JobState
        /\ (~Tried(a) => job[a] = "none")
    BY <1>1, <1>3, <1>5 DEF KnownHere, GoesOn, JobAgrees
  <2>2. Tried(a)' \/ worker \in {"checked", "read", "extract"} \/ row.st = "none"
    BY <1>5, <2>1 DEF Tried
  <2>3. Current(a) /\ Current(a)'
    BY <1>5, <2>1 DEF Current
  <2> HIDE DEF row
  <2> QED BY <1>1, <1>5, <1>2, <2>1, <2>2, <2>3
             DEF KnownHere, FilesHere, JobAgrees, RowAgrees, Attempting, ExtractAndCreateJob
<1>8. row.job = imp[i].job \/ (imp[i].job = None /\ row.job = Now(i))
  BY <1>1 DEF KnownHere, RowAgrees, Attempting, ImportRow, ExtractAndCreateJob
<1>9. Tried(Now(i)) =>
        /\ worker \notin {"checked", "read", "extract"} /\ row.st # "none"
        /\ job[Now(i)] = "none" => state = "none"
  BY <1>1 DEF KnownHere, RowAgrees, JobAgrees, Attempting, ImportRow, ExtractAndCreateJob
<1> HIDE DEF row, worker, state
<1> QED BY <1>3, <1>4, <1>6, <1>7, <1>8, <1>9, StepOfImport

LEMMA CopyFailsKeeps ==
  ASSUME ImportInv, NEW i \in Import, CopyFails(i)
  PROVE  ImportInv'
<1> DEFINE row == imp[i]
           worker == "clear staging"
           state == job[Now(i)]
<1>1. KnownHere(i) /\ FilesHere(i)
  BY Here
<1>2. row.st = imp[i].st /\ row.src = imp[i].src /\ row.job = imp[i].job
  BY <1>1 DEF KnownHere, ImportRow
<1>3. GoesOn(i, row, worker, state)
  <2>1. row \in ImportRow /\ worker \in WorkerState /\ state \in JobState
    BY <1>1 DEF KnownHere, CopyFails, ImportRow, WorkerState, JobState
  <2>2. files' \subseteq ImportFiles
    BY <1>1 DEF KnownHere, FilesHere, CopyFails, ImportsTypeOK
  <2>3. /\ imp' = [imp EXCEPT ![i] = row] /\ wk' = [wk EXCEPT ![i] = worker]
        /\ job' = [job EXCEPT ![Now(i)] = state]
    BY <1>1, SameRow DEF KnownHere, CopyFails
  <2>4. /\ cut \subseteq cut' /\ cut' \subseteq cut \cup {i}
        /\ up /\ UNCHANGED <<removing, bk, locked, packs, up, life>>
    BY <1>1 DEF KnownHere, CopyFails
  <2> QED BY <2>1, <2>2, <2>3, <2>4 DEF GoesOn
<1>4. OthersKeepFiles(i)
  BY <1>1, FileNames DEF KnownHere, OthersKeepFiles, CopyFails
<1>5. imp'[i] = row /\ wk'[i] = worker /\ job'[Now(i)] = state /\ life' = life /\ up /\ up'
  BY <1>1, <1>3 DEF KnownHere, GoesOn, ImportsTypeOK
<1>6. RowAgrees(i)'
  <2> HIDE DEF row
  <2> QED BY <1>1, <1>5, <1>2
             DEF KnownHere, FilesHere, RowAgrees, InFlight, ImportRow, CopyFails, Attempting
<1>7. \A a \in Attempt : a = Now(i) => JobAgrees(a)'
  <2> SUFFICES ASSUME NEW a \in Attempt, a = Now(i) PROVE JobAgrees(a)'
    OBVIOUS
  <2>1. /\ a[1] = i /\ a[2] = life /\ JobAgrees(a) /\ imp'[i] = row /\ wk'[i] = worker
        /\ job'[a] = state /\ state \in JobState
        /\ (~Tried(a) => job[a] = "none")
    BY <1>1, <1>3, <1>5 DEF KnownHere, GoesOn, JobAgrees
  <2>2. Tried(a)' \/ worker \in {"checked", "read", "extract"} \/ row.st = "none"
    BY <1>5, <2>1 DEF Tried
  <2>3. Current(a) /\ Current(a)'
    BY <1>5, <2>1 DEF Current
  <2> HIDE DEF row
  <2> QED BY <1>1, <1>5, <1>2, <2>1, <2>2, <2>3
             DEF KnownHere, FilesHere, JobAgrees, RowAgrees, Attempting, CopyFails
<1>8. row.job = imp[i].job \/ (imp[i].job = None /\ row.job = Now(i))
  BY <1>1 DEF KnownHere, RowAgrees, Attempting, ImportRow, CopyFails
<1>9. Tried(Now(i)) =>
        /\ worker \notin {"checked", "read", "extract"} /\ row.st # "none"
        /\ job[Now(i)] = "none" => state = "none"
  BY <1>1 DEF KnownHere, RowAgrees, JobAgrees, Attempting, ImportRow, CopyFails
<1> HIDE DEF row, worker, state
<1> QED BY <1>3, <1>4, <1>6, <1>7, <1>8, <1>9, StepOfImport

\* A job that was not removed finds its workbook where it was staged.
LEMMA MoveKeeps ==
  ASSUME ImportInv, NEW i \in Import, Move(i)
  PROVE  ImportInv'
<1> DEFINE row == imp[i]
           worker == "moved"
           state == job[Now(i)]
<1>1. KnownHere(i) /\ FilesHere(i)
  BY Here
<1>2. row.st = imp[i].st /\ row.src = imp[i].src /\ row.job = imp[i].job
  BY <1>1 DEF KnownHere, ImportRow
<1>3. GoesOn(i, row, worker, state)
  <2>1. row \in ImportRow /\ worker \in WorkerState /\ state \in JobState
    BY <1>1 DEF KnownHere, Move, Moved, ImportRow, WorkerState, JobState
  <2>2. files' \subseteq ImportFiles
    BY <1>1 DEF KnownHere, FilesHere, Move, Moved, ImportsTypeOK
  <2>3. /\ imp' = [imp EXCEPT ![i] = row] /\ wk' = [wk EXCEPT ![i] = worker]
        /\ job' = [job EXCEPT ![Now(i)] = state]
    BY <1>1, SameRow DEF KnownHere, Move, Moved
  <2>4. /\ cut \subseteq cut' /\ cut' \subseteq cut \cup {i}
        /\ up /\ UNCHANGED <<removing, bk, locked, packs, up, life>>
    BY <1>1 DEF KnownHere, Move, Moved
  <2> QED BY <2>1, <2>2, <2>3, <2>4 DEF GoesOn
<1>4. OthersKeepFiles(i)
  BY <1>1, FileNames DEF KnownHere, OthersKeepFiles, Move, Moved
<1>5. imp'[i] = row /\ wk'[i] = worker /\ job'[Now(i)] = state /\ life' = life /\ up /\ up'
  BY <1>1, <1>3 DEF KnownHere, GoesOn, ImportsTypeOK
<1>6. RowAgrees(i)'
  <2> HIDE DEF row
  <2> QED BY <1>1, <1>5, <1>2
             DEF KnownHere, FilesHere, RowAgrees, InFlight, ImportRow, Move, Moved, Attempting
<1>7. \A a \in Attempt : a = Now(i) => JobAgrees(a)'
  <2> SUFFICES ASSUME NEW a \in Attempt, a = Now(i) PROVE JobAgrees(a)'
    OBVIOUS
  <2>1. /\ a[1] = i /\ a[2] = life /\ JobAgrees(a) /\ imp'[i] = row /\ wk'[i] = worker
        /\ job'[a] = state /\ state \in JobState
        /\ (~Tried(a) => job[a] = "none")
    BY <1>1, <1>3, <1>5 DEF KnownHere, GoesOn, JobAgrees
  <2>2. Tried(a)' \/ worker \in {"checked", "read", "extract"} \/ row.st = "none"
    BY <1>5, <2>1 DEF Tried
  <2>3. Current(a) /\ Current(a)'
    BY <1>5, <2>1 DEF Current
  <2> HIDE DEF row
  <2> QED BY <1>1, <1>5, <1>2, <2>1, <2>2, <2>3
             DEF KnownHere, FilesHere, JobAgrees, RowAgrees, Attempting, Move, Moved
<1>8. row.job = imp[i].job \/ (imp[i].job = None /\ row.job = Now(i))
  BY <1>1 DEF KnownHere, RowAgrees, Attempting, ImportRow, Move, Moved
<1>9. Tried(Now(i)) =>
        /\ worker \notin {"checked", "read", "extract"} /\ row.st # "none"
        /\ job[Now(i)] = "none" => state = "none"
  BY <1>1 DEF KnownHere, RowAgrees, JobAgrees, Attempting, ImportRow, Move, Moved
<1> HIDE DEF row, worker, state
<1> QED BY <1>3, <1>4, <1>6, <1>7, <1>8, <1>9, StepOfImport

LEMMA MoveFailsKeeps ==
  ASSUME ImportInv, NEW i \in Import, MoveFails(i)
  PROVE  ImportInv'
<1> DEFINE row == imp[i]
           worker == "clear final"
           state == "none"
<1>1. KnownHere(i) /\ FilesHere(i)
  BY Here
<1>2. row.st = imp[i].st /\ row.src = imp[i].src /\ row.job = imp[i].job
  BY <1>1 DEF KnownHere, ImportRow
<1>3. GoesOn(i, row, worker, state)
  <2>1. row \in ImportRow /\ worker \in WorkerState /\ state \in JobState
    BY <1>1 DEF KnownHere, MoveFails, ImportRow, WorkerState, JobState
  <2>2. files' \subseteq ImportFiles
    BY <1>1 DEF KnownHere, FilesHere, MoveFails, ImportsTypeOK
  <2>3. /\ imp' = [imp EXCEPT ![i] = row] /\ wk' = [wk EXCEPT ![i] = worker]
        /\ job' = [job EXCEPT ![Now(i)] = state]
    BY <1>1, SameRow DEF KnownHere, MoveFails
  <2>4. /\ cut \subseteq cut' /\ cut' \subseteq cut \cup {i}
        /\ up /\ UNCHANGED <<removing, bk, locked, packs, up, life>>
    BY <1>1 DEF KnownHere, MoveFails
  <2> QED BY <2>1, <2>2, <2>3, <2>4 DEF GoesOn
<1>4. OthersKeepFiles(i)
  BY <1>1, FileNames DEF KnownHere, OthersKeepFiles, MoveFails
<1>5. imp'[i] = row /\ wk'[i] = worker /\ job'[Now(i)] = state /\ life' = life /\ up /\ up'
  BY <1>1, <1>3 DEF KnownHere, GoesOn, ImportsTypeOK
<1>6. RowAgrees(i)'
  <2> HIDE DEF row
  <2> QED BY <1>1, <1>5, <1>2
             DEF KnownHere, FilesHere, RowAgrees, InFlight, ImportRow, MoveFails, Attempting
<1>7. \A a \in Attempt : a = Now(i) => JobAgrees(a)'
  <2> SUFFICES ASSUME NEW a \in Attempt, a = Now(i) PROVE JobAgrees(a)'
    OBVIOUS
  <2>1. /\ a[1] = i /\ a[2] = life /\ JobAgrees(a) /\ imp'[i] = row /\ wk'[i] = worker
        /\ job'[a] = state /\ state \in JobState
        /\ (~Tried(a) => job[a] = "none")
    BY <1>1, <1>3, <1>5 DEF KnownHere, GoesOn, JobAgrees
  <2>2. Tried(a)' \/ worker \in {"checked", "read", "extract"} \/ row.st = "none"
    BY <1>5, <2>1 DEF Tried
  <2>3. Current(a) /\ Current(a)'
    BY <1>5, <2>1 DEF Current
  <2> HIDE DEF row
  <2> QED BY <1>1, <1>5, <1>2, <2>1, <2>2, <2>3
             DEF KnownHere, FilesHere, JobAgrees, RowAgrees, Attempting, MoveFails
<1>8. row.job = imp[i].job \/ (imp[i].job = None /\ row.job = Now(i))
  BY <1>1 DEF KnownHere, RowAgrees, Attempting, ImportRow, MoveFails
<1>9. Tried(Now(i)) =>
        /\ worker \notin {"checked", "read", "extract"} /\ row.st # "none"
        /\ job[Now(i)] = "none" => state = "none"
  BY <1>1 DEF KnownHere, RowAgrees, JobAgrees, Attempting, ImportRow, MoveFails
<1> HIDE DEF row, worker, state
<1> QED BY <1>3, <1>4, <1>6, <1>7, <1>8, <1>9, StepOfImport

LEMMA AttachKeeps ==
  ASSUME ImportInv, NEW i \in Import, Attach(i)
  PROVE  ImportInv'
<1> DEFINE row == [st |-> "completed", src |-> "jobs", job |-> Now(i)]
           worker == IF imp[i].src = "uploads" THEN "purge uploads" ELSE "purge"
           state == "full"
<1>1. KnownHere(i) /\ FilesHere(i)
  BY Here
<1>2. row.st = "completed" /\ row.src = "jobs" /\ row.job = Now(i)
      /\ worker \in {"purge", "purge uploads"}
  BY <1>1 DEF KnownHere, ImportRow
<1>3. GoesOn(i, row, worker, state)
  <2>1. row \in ImportRow /\ worker \in WorkerState /\ state \in JobState
    BY <1>1 DEF KnownHere, Attach, ImportRow, WorkerState, JobState
  <2>2. files' \subseteq ImportFiles
    BY <1>1 DEF KnownHere, FilesHere, Attach, ImportsTypeOK
  <2>3. /\ imp' = [imp EXCEPT ![i] = row] /\ wk' = [wk EXCEPT ![i] = worker]
        /\ job' = [job EXCEPT ![Now(i)] = state]
    BY <1>1, SameRow DEF KnownHere, Attach
  <2>4. /\ cut \subseteq cut' /\ cut' \subseteq cut \cup {i}
        /\ up /\ UNCHANGED <<removing, bk, locked, packs, up, life>>
    BY <1>1 DEF KnownHere, Attach
  <2> QED BY <2>1, <2>2, <2>3, <2>4 DEF GoesOn
<1>4. OthersKeepFiles(i)
  BY <1>1, FileNames DEF KnownHere, OthersKeepFiles, Attach
<1>5. imp'[i] = row /\ wk'[i] = worker /\ job'[Now(i)] = state /\ life' = life /\ up /\ up'
  BY <1>1, <1>3 DEF KnownHere, GoesOn, ImportsTypeOK
<1>6. RowAgrees(i)'
  <2> HIDE DEF row, worker
  <2> QED BY <1>1, <1>5, <1>2
             DEF KnownHere, FilesHere, RowAgrees, InFlight, ImportRow, Attach, Attempting
<1>7. \A a \in Attempt : a = Now(i) => JobAgrees(a)'
  <2> SUFFICES ASSUME NEW a \in Attempt, a = Now(i) PROVE JobAgrees(a)'
    OBVIOUS
  <2>1. /\ a[1] = i /\ a[2] = life /\ JobAgrees(a) /\ imp'[i] = row /\ wk'[i] = worker
        /\ job'[a] = state /\ state \in JobState
        /\ (~Tried(a) => job[a] = "none")
    BY <1>1, <1>3, <1>5 DEF KnownHere, GoesOn, JobAgrees
  <2>2. Tried(a)' \/ worker \in {"checked", "read", "extract"} \/ row.st = "none"
    BY <1>5, <2>1 DEF Tried
  <2>3. Current(a) /\ Current(a)'
    BY <1>5, <2>1 DEF Current
  <2> HIDE DEF row, worker
  <2> QED BY <1>1, <1>5, <1>2, <2>1, <2>2, <2>3
             DEF KnownHere, FilesHere, JobAgrees, RowAgrees, Attempting, Attach
<1>8. row.job = imp[i].job \/ (imp[i].job = None /\ row.job = Now(i))
  BY <1>1 DEF KnownHere, RowAgrees, Attempting, ImportRow, Attach
<1>9. Tried(Now(i)) =>
        /\ worker \notin {"checked", "read", "extract"} /\ row.st # "none"
        /\ job[Now(i)] = "none" => state = "none"
  BY <1>1 DEF KnownHere, RowAgrees, JobAgrees, Attempting, ImportRow, Attach
<1> HIDE DEF row, worker, state
<1> QED BY <1>3, <1>4, <1>6, <1>7, <1>8, <1>9, StepOfImport

LEMMA AttachFailsKeeps ==
  ASSUME ImportInv, NEW i \in Import, AttachFails(i)
  PROVE  ImportInv'
<1> DEFINE row == imp[i]
           worker == "clear final"
           state == job[Now(i)]
<1>1. KnownHere(i) /\ FilesHere(i)
  BY Here
<1>2. row.st = imp[i].st /\ row.src = imp[i].src /\ row.job = imp[i].job
  BY <1>1 DEF KnownHere, ImportRow
<1>3. GoesOn(i, row, worker, state)
  <2>1. row \in ImportRow /\ worker \in WorkerState /\ state \in JobState
    BY <1>1 DEF KnownHere, AttachFails, ImportRow, WorkerState, JobState
  <2>2. files' \subseteq ImportFiles
    BY <1>1 DEF KnownHere, FilesHere, AttachFails, ImportsTypeOK
  <2>3. /\ imp' = [imp EXCEPT ![i] = row] /\ wk' = [wk EXCEPT ![i] = worker]
        /\ job' = [job EXCEPT ![Now(i)] = state]
    BY <1>1, SameRow DEF KnownHere, AttachFails
  <2>4. /\ cut \subseteq cut' /\ cut' \subseteq cut \cup {i}
        /\ up /\ UNCHANGED <<removing, bk, locked, packs, up, life>>
    BY <1>1 DEF KnownHere, AttachFails
  <2> QED BY <2>1, <2>2, <2>3, <2>4 DEF GoesOn
<1>4. OthersKeepFiles(i)
  BY <1>1, FileNames DEF KnownHere, OthersKeepFiles, AttachFails
<1>5. imp'[i] = row /\ wk'[i] = worker /\ job'[Now(i)] = state /\ life' = life /\ up /\ up'
  BY <1>1, <1>3 DEF KnownHere, GoesOn, ImportsTypeOK
<1>6. RowAgrees(i)'
  <2> HIDE DEF row
  <2> QED BY <1>1, <1>5, <1>2
             DEF KnownHere, FilesHere, RowAgrees, InFlight, ImportRow, AttachFails, Attempting
<1>7. \A a \in Attempt : a = Now(i) => JobAgrees(a)'
  <2> SUFFICES ASSUME NEW a \in Attempt, a = Now(i) PROVE JobAgrees(a)'
    OBVIOUS
  <2>1. /\ a[1] = i /\ a[2] = life /\ JobAgrees(a) /\ imp'[i] = row /\ wk'[i] = worker
        /\ job'[a] = state /\ state \in JobState
        /\ (~Tried(a) => job[a] = "none")
    BY <1>1, <1>3, <1>5 DEF KnownHere, GoesOn, JobAgrees
  <2>2. Tried(a)' \/ worker \in {"checked", "read", "extract"} \/ row.st = "none"
    BY <1>5, <2>1 DEF Tried
  <2>3. Current(a) /\ Current(a)'
    BY <1>5, <2>1 DEF Current
  <2> HIDE DEF row
  <2> QED BY <1>1, <1>5, <1>2, <2>1, <2>2, <2>3
             DEF KnownHere, FilesHere, JobAgrees, RowAgrees, Attempting, AttachFails
<1>8. row.job = imp[i].job \/ (imp[i].job = None /\ row.job = Now(i))
  BY <1>1 DEF KnownHere, RowAgrees, Attempting, ImportRow, AttachFails
<1>9. Tried(Now(i)) =>
        /\ worker \notin {"checked", "read", "extract"} /\ row.st # "none"
        /\ job[Now(i)] = "none" => state = "none"
  BY <1>1 DEF KnownHere, RowAgrees, JobAgrees, Attempting, ImportRow, AttachFails
<1> HIDE DEF row, worker, state
<1> QED BY <1>3, <1>4, <1>6, <1>7, <1>8, <1>9, StepOfImport

\* What is cleared is of an attempt without a job.
LEMMA ClearKeeps ==
  ASSUME ImportInv, NEW i \in Import, Clear(i)
  PROVE  ImportInv'
<1> DEFINE row == [imp[i] EXCEPT !.st = "failed"]
           worker == "off"
           state == job[Now(i)]
<1>1. KnownHere(i) /\ FilesHere(i)
  BY Here
<1>2. row.st = "failed" /\ row.src = imp[i].src /\ row.job = imp[i].job
  BY <1>1 DEF KnownHere, ImportRow
<1>3. GoesOn(i, row, worker, state)
  <2>1. row \in ImportRow /\ worker \in WorkerState /\ state \in JobState
    BY <1>1 DEF KnownHere, Clear, Fail, Cleared, ImportRow, WorkerState, JobState
  <2>2. files' \subseteq ImportFiles
    BY <1>1 DEF KnownHere, FilesHere, Clear, Fail, Cleared, ImportsTypeOK
  <2>3. /\ imp' = [imp EXCEPT ![i] = row] /\ wk' = [wk EXCEPT ![i] = worker]
        /\ job' = [job EXCEPT ![Now(i)] = state]
    BY <1>1, SameRow DEF KnownHere, Clear, Fail, Cleared
  <2>4. /\ cut \subseteq cut' /\ cut' \subseteq cut \cup {i}
        /\ up /\ UNCHANGED <<removing, bk, locked, packs, up, life>>
    BY <1>1 DEF KnownHere, Clear, Fail, Cleared
  <2> QED BY <2>1, <2>2, <2>3, <2>4 DEF GoesOn
<1>4. OthersKeepFiles(i)
  BY <1>1, FileNames DEF KnownHere, OthersKeepFiles, Clear, Fail, Cleared
<1>5. imp'[i] = row /\ wk'[i] = worker /\ job'[Now(i)] = state /\ life' = life /\ up /\ up'
  BY <1>1, <1>3 DEF KnownHere, GoesOn, ImportsTypeOK
<1>6. RowAgrees(i)'
  <2> HIDE DEF row
  <2> QED BY <1>1, <1>5, <1>2
             DEF KnownHere, FilesHere, RowAgrees, InFlight, ImportRow, Clear, Fail, Cleared, Attempting
<1>7. \A a \in Attempt : a = Now(i) => JobAgrees(a)'
  <2> SUFFICES ASSUME NEW a \in Attempt, a = Now(i) PROVE JobAgrees(a)'
    OBVIOUS
  <2>1. /\ a[1] = i /\ a[2] = life /\ JobAgrees(a) /\ imp'[i] = row /\ wk'[i] = worker
        /\ job'[a] = state /\ state \in JobState
        /\ (~Tried(a) => job[a] = "none")
    BY <1>1, <1>3, <1>5 DEF KnownHere, GoesOn, JobAgrees
  <2>2. Tried(a)' \/ worker \in {"checked", "read", "extract"} \/ row.st = "none"
    BY <1>5, <2>1 DEF Tried
  <2>3. Current(a) /\ Current(a)'
    BY <1>5, <2>1 DEF Current
  <2> HIDE DEF row
  <2> QED BY <1>1, <1>5, <1>2, <2>1, <2>2, <2>3
             DEF KnownHere, FilesHere, JobAgrees, RowAgrees, Attempting, Clear, Fail, Cleared
<1>8. row.job = imp[i].job \/ (imp[i].job = None /\ row.job = Now(i))
  BY <1>1 DEF KnownHere, RowAgrees, Attempting, ImportRow, Clear, Fail, Cleared
<1>9. Tried(Now(i)) =>
        /\ worker \notin {"checked", "read", "extract"} /\ row.st # "none"
        /\ job[Now(i)] = "none" => state = "none"
  BY <1>1 DEF KnownHere, RowAgrees, JobAgrees, Attempting, ImportRow, Clear, Fail, Cleared
<1> HIDE DEF row, worker, state
<1> QED BY <1>3, <1>4, <1>6, <1>7, <1>8, <1>9, StepOfImport

LEMMA PurgeKeeps ==
  ASSUME ImportInv, NEW i \in Import, Purge(i)
  PROVE  ImportInv'
<1> DEFINE row == imp[i]
           worker == "off"
           state == job[Now(i)]
<1>1. KnownHere(i) /\ FilesHere(i)
  BY Here
<1>2. row.st = imp[i].st /\ row.src = imp[i].src /\ row.job = imp[i].job
  BY <1>1 DEF KnownHere, ImportRow
<1>3. GoesOn(i, row, worker, state)
  <2>1. row \in ImportRow /\ worker \in WorkerState /\ state \in JobState
    BY <1>1 DEF KnownHere, Purge, Purged, ImportRow, WorkerState, JobState
  <2>2. files' \subseteq ImportFiles
    BY <1>1 DEF KnownHere, FilesHere, Purge, Purged, ImportsTypeOK
  <2>3. /\ imp' = [imp EXCEPT ![i] = row] /\ wk' = [wk EXCEPT ![i] = worker]
        /\ job' = [job EXCEPT ![Now(i)] = state]
    BY <1>1, SameRow DEF KnownHere, Purge, Purged
  <2>4. /\ cut \subseteq cut' /\ cut' \subseteq cut \cup {i}
        /\ up /\ UNCHANGED <<removing, bk, locked, packs, up, life>>
    BY <1>1 DEF KnownHere, Purge, Purged
  <2> QED BY <2>1, <2>2, <2>3, <2>4 DEF GoesOn
<1>4. /\ files' \subseteq files
      /\ \A a \in Attempt : (Final(a) \cup {StagedSource(a)}) \cap files \subseteq files'
      /\ \A k \in Import \ {i} : Durable(k) \in files => Durable(k) \in files'
  <2>1. CASE wk[i] = "purge"
    <3>1. files' = files \ {Durable(i)}
      BY <2>1 DEF Purge, Purged
    <3> QED BY <3>1, FileNames
  <2>2. CASE wk[i] = "purge uploads"
    <3>1. files' = files \ ({UploadsDir} \cup {Up(k) : k \in Import})
      BY <2>2 DEF Purge, Purged
    <3>2. \A a \in Attempt : \A f \in Final(a) \cup {StagedSource(a)} :
             f # UploadsDir /\ (\A k \in Import : f # Up(k))
      BY FileNames
    <3>3. \A k \in Import : Durable(k) # UploadsDir /\ (\A j \in Import : Durable(k) # Up(j))
      BY FileNames
    <3> QED BY <3>1, <3>2, <3>3
  <2> QED BY <2>1, <2>2 DEF Purge
<1>5. OthersKeepFiles(i)
  BY <1>4 DEF OthersKeepFiles
<1>6. imp'[i] = row /\ wk'[i] = worker /\ job'[Now(i)] = state /\ life' = life /\ up /\ up'
  BY <1>1, <1>3 DEF KnownHere, GoesOn, ImportsTypeOK
<1>7. RowAgrees(i)'
  <2> HIDE DEF row
  <2> QED BY <1>1, <1>6, <1>2
             DEF KnownHere, FilesHere, RowAgrees, InFlight, ImportRow, Purge, Purged, Attempting
<1>8. \A a \in Attempt : a = Now(i) => JobAgrees(a)'
  <2> SUFFICES ASSUME NEW a \in Attempt, a = Now(i) PROVE JobAgrees(a)'
    OBVIOUS
  <2>1. /\ a[1] = i /\ a[2] = life /\ JobAgrees(a) /\ imp'[i] = row /\ wk'[i] = worker
        /\ job'[a] = state /\ state \in JobState
        /\ (~Tried(a) => job[a] = "none")
    BY <1>1, <1>3, <1>6 DEF KnownHere, GoesOn, JobAgrees
  <2>2. Tried(a)' \/ worker \in {"checked", "read", "extract"} \/ row.st = "none"
    BY <1>6, <2>1 DEF Tried
  <2>3. Current(a) /\ Current(a)'
    BY <1>6, <2>1 DEF Current
  <2> HIDE DEF row
  <2> QED BY <1>1, <1>6, <1>2, <1>4, <2>1, <2>2, <2>3
             DEF KnownHere, FilesHere, JobAgrees, RowAgrees, Attempting, Purge, Purged
<1>9. row.job = imp[i].job \/ (imp[i].job = None /\ row.job = Now(i))
  BY <1>1 DEF KnownHere, RowAgrees, Attempting, ImportRow, Purge, Purged
<1>10. Tried(Now(i)) =>
        /\ worker \notin {"checked", "read", "extract"} /\ row.st # "none"
        /\ job[Now(i)] = "none" => state = "none"
  BY <1>1 DEF KnownHere, RowAgrees, JobAgrees, Attempting, ImportRow, Purge, Purged
<1> HIDE DEF row, worker, state
<1> QED BY <1>3, <1>5, <1>7, <1>8, <1>9, <1>10, StepOfImport

LEMMA PurgeFailsKeeps ==
  ASSUME ImportInv, NEW i \in Import, PurgeFails(i)
  PROVE  ImportInv'
<1> DEFINE row == [imp[i] EXCEPT !.st = "failed"]
           worker == "off"
           state == job[Now(i)]
<1>1. KnownHere(i) /\ FilesHere(i)
  BY Here
<1>2. row.st = "failed" /\ row.src = imp[i].src /\ row.job = imp[i].job
  BY <1>1 DEF KnownHere, ImportRow
<1>3. GoesOn(i, row, worker, state)
  <2>1. row \in ImportRow /\ worker \in WorkerState /\ state \in JobState
    BY <1>1 DEF KnownHere, PurgeFails, Fail, ImportRow, WorkerState, JobState
  <2>2. files' \subseteq ImportFiles
    BY <1>1 DEF KnownHere, FilesHere, PurgeFails, Fail, ImportsTypeOK
  <2>3. /\ imp' = [imp EXCEPT ![i] = row] /\ wk' = [wk EXCEPT ![i] = worker]
        /\ job' = [job EXCEPT ![Now(i)] = state]
    BY <1>1, SameRow DEF KnownHere, PurgeFails, Fail
  <2>4. /\ cut \subseteq cut' /\ cut' \subseteq cut \cup {i}
        /\ up /\ UNCHANGED <<removing, bk, locked, packs, up, life>>
    BY <1>1 DEF KnownHere, PurgeFails, Fail
  <2> QED BY <2>1, <2>2, <2>3, <2>4 DEF GoesOn
<1>4. OthersKeepFiles(i)
  BY <1>1, FileNames DEF KnownHere, OthersKeepFiles, PurgeFails, Fail
<1>5. imp'[i] = row /\ wk'[i] = worker /\ job'[Now(i)] = state /\ life' = life /\ up /\ up'
  BY <1>1, <1>3 DEF KnownHere, GoesOn, ImportsTypeOK
<1>6. RowAgrees(i)'
  <2> HIDE DEF row
  <2> QED BY <1>1, <1>5, <1>2
             DEF KnownHere, FilesHere, RowAgrees, InFlight, ImportRow, PurgeFails, Fail, Attempting
<1>7. \A a \in Attempt : a = Now(i) => JobAgrees(a)'
  <2> SUFFICES ASSUME NEW a \in Attempt, a = Now(i) PROVE JobAgrees(a)'
    OBVIOUS
  <2>1. /\ a[1] = i /\ a[2] = life /\ JobAgrees(a) /\ imp'[i] = row /\ wk'[i] = worker
        /\ job'[a] = state /\ state \in JobState
        /\ (~Tried(a) => job[a] = "none")
    BY <1>1, <1>3, <1>5 DEF KnownHere, GoesOn, JobAgrees
  <2>2. Tried(a)' \/ worker \in {"checked", "read", "extract"} \/ row.st = "none"
    BY <1>5, <2>1 DEF Tried
  <2>3. Current(a) /\ Current(a)'
    BY <1>5, <2>1 DEF Current
  <2> HIDE DEF row
  <2> QED BY <1>1, <1>5, <1>2, <2>1, <2>2, <2>3
             DEF KnownHere, FilesHere, JobAgrees, RowAgrees, Attempting, PurgeFails, Fail
<1>8. row.job = imp[i].job \/ (imp[i].job = None /\ row.job = Now(i))
  BY <1>1 DEF KnownHere, RowAgrees, Attempting, ImportRow, PurgeFails, Fail
<1>9. Tried(Now(i)) =>
        /\ worker \notin {"checked", "read", "extract"} /\ row.st # "none"
        /\ job[Now(i)] = "none" => state = "none"
  BY <1>1 DEF KnownHere, RowAgrees, JobAgrees, Attempting, ImportRow, PurgeFails, Fail
<1> HIDE DEF row, worker, state
<1> QED BY <1>3, <1>4, <1>6, <1>7, <1>8, <1>9, StepOfImport
----------------------------------------------------------------------------
(* The steps of operators, backups and the cleanup, crashes and restarts.   *)

\* A job that is removed leaves its directories to be removed.
LEMMA RemoveJobKeeps ==
  ASSUME ImportInv, NEW b \in Attempt, RemoveJob(b)
  PROVE  ImportInv'
<1>1. /\ ImportsTypeOK
      /\ \A k \in Import : (imp[k].job # None => imp[k].job[1] = k) /\ RowAgrees(k)
      /\ \A a \in Attempt : JobAgrees(a)
      /\ \A paths \in removing : Abandoned(paths)
  BY DEF ImportInv
<1>2. /\ UNCHANGED <<imp, files, wk, bk, locked, packs, up, life, cut>>
      /\ up /\ job[b] # "none"
      /\ job' = [job EXCEPT ![b] = "none"]
      /\ \A paths \in removing' : paths \in removing \/ paths \in {Final(b), {StagedSource(b)}}
  BY DEF RemoveJob
<1>3. job'[b] = "none" /\ \A a \in Attempt : a # b => job'[a] = job[a]
  BY <1>1, <1>2 DEF ImportsTypeOK
<1>4. \A a \in Attempt : (Tried(a)' <=> Tried(a)) /\ (Current(a)' <=> Current(a))
  BY <1>2 DEF Tried, Current
<1>5. ImportsTypeOK'
  <2>1. \A paths \in removing' : paths \subseteq ImportFiles
    <3>1. Final(b) \subseteq ImportFiles /\ {StagedSource(b)} \subseteq ImportFiles
      BY FileTypes
    <3>2. \A paths \in removing : paths \subseteq ImportFiles
      BY <1>1 DEF ImportsTypeOK
    <3> QED BY <1>2, <3>1, <3>2
  <2>2. job' \in [Attempt -> JobState]
    BY <1>1, <1>2 DEF ImportsTypeOK, JobState
  <2> QED BY <1>1, <1>2, <2>1, <2>2 DEF ImportsTypeOK
<1>6. \A k \in Import : (imp'[k].job # None => imp'[k].job[1] = k) /\ RowAgrees(k)'
  BY <1>1, <1>2 DEF RowAgrees, InFlight
<1>7. \A a \in Attempt : JobAgrees(a)'
  <2> SUFFICES ASSUME NEW a \in Attempt PROVE JobAgrees(a)'
    OBVIOUS
  <2>1. CASE a = b
    BY <1>3, <2>1 DEF JobAgrees
  <2>2. CASE a # b
    <3>1. JobAgrees(a) /\ job'[a] = job[a] /\ (Tried(a)' <=> Tried(a)) /\ (Current(a)' <=> Current(a))
      BY <1>1, <1>3, <1>4, <2>2
    <3> QED BY <1>2, <3>1 DEF JobAgrees
  <2> QED BY <2>1, <2>2
<1>8. \A paths \in removing' : Abandoned(paths)'
  <2> SUFFICES ASSUME NEW paths \in removing' PROVE Abandoned(paths)'
    OBVIOUS
  <2>1. CASE paths \in removing
    <3>1. PICK a \in Attempt : paths \in {Final(a), {StagedSource(a)}} /\ job[a] = "none" /\ Tried(a)
      BY <1>1, <2>1 DEF Abandoned
    <3>2. job'[a] = "none" /\ Tried(a)'
      BY <1>3, <1>4, <3>1
    <3> QED BY <3>1, <3>2 DEF Abandoned
  <2>2. CASE paths \in {Final(b), {StagedSource(b)}}
    <3>1. Tried(b)
      BY <1>1, <1>2 DEF JobAgrees
    <3> QED BY <1>3, <1>4, <2>2, <3>1 DEF Abandoned
  <2> QED BY <1>2, <2>1, <2>2
<1>9. /\ bk'.st = "copying" => Whole(bk'.imp, bk'.job)
      /\ \A p \in packs' : Whole(p.imp, p.job) /\ Verified(p)
      /\ IsBackup(bk') /\ up'
  BY <1>2 DEF ImportInv
<1> QED BY <1>5, <1>6, <1>7, <1>8, <1>9 DEF ImportInv

\* Removing files, by an operator or by the cleanup, spares what a row counts on.
LEMMA FewerFilesKeep ==
  ASSUME ImportInv, UNCHANGED <<imp, job, wk, bk, locked, packs, up, life, cut>>,
         removing' \subseteq removing, files' \subseteq files,
         \A a \in Attempt :
           /\ job[a] = "full" \/ (job[a] = "staged" /\ Current(a)) =>
                Final(a) \cap files \subseteq files'
           /\ job[a] = "staged" /\ StagedSource(a) \in files => StagedSource(a) \in files',
         \A i \in Import :
           InFlight(i) /\ i \notin cut /\ Durable(i) \in files => Durable(i) \in files'
  PROVE  ImportInv'
<1>1. /\ ImportsTypeOK
      /\ \A k \in Import : (imp[k].job # None => imp[k].job[1] = k) /\ RowAgrees(k)
      /\ \A a \in Attempt : JobAgrees(a)
      /\ \A paths \in removing : Abandoned(paths)
  BY DEF ImportInv
<1>2. \A a \in Attempt : (Tried(a)' <=> Tried(a)) /\ (Current(a)' <=> Current(a))
  BY DEF Tried, Current
<1>3. ImportsTypeOK'
  BY <1>1 DEF ImportsTypeOK
<1>4. \A k \in Import : (imp'[k].job # None => imp'[k].job[1] = k) /\ RowAgrees(k)'
  BY <1>1 DEF RowAgrees, InFlight
<1>5. \A a \in Attempt : JobAgrees(a)'
  <2> SUFFICES ASSUME NEW a \in Attempt PROVE JobAgrees(a)'
    OBVIOUS
  <2>1. JobAgrees(a) /\ job'[a] = job[a] /\ (Tried(a)' <=> Tried(a)) /\ (Current(a)' <=> Current(a))
    BY <1>1, <1>2
  <2> QED BY <2>1 DEF JobAgrees
<1>6. \A paths \in removing' : Abandoned(paths)'
  BY <1>1, <1>2 DEF Abandoned
<1>7. /\ ~up' => (\A k \in Import : wk'[k] = "off") /\ removing' = {} /\ bk'.st = "none"
      /\ bk'.st = "copying" => Whole(bk'.imp, bk'.job)
      /\ \A p \in packs' : Whole(p.imp, p.job) /\ Verified(p)
      /\ IsBackup(bk')
  BY DEF ImportInv
<1> QED BY <1>3, <1>4, <1>5, <1>6, <1>7 DEF ImportInv

LEMMA RemoveFilesKeeps ==
  ASSUME ImportInv, NEW paths \in removing, RemoveFiles(paths)
  PROVE  ImportInv'
<1>1. PICK b \in Attempt : paths \in {Final(b), {StagedSource(b)}} /\ job[b] = "none"
  BY DEF ImportInv, Abandoned
<1>2. /\ files' = files \ paths /\ removing' = removing \ {paths}
      /\ UNCHANGED <<imp, job, wk, bk, locked, packs, up, life, cut>>
  BY DEF RemoveFiles
<1>3. \A a \in Attempt : a # b => Final(a) \cap paths = {} /\ StagedSource(a) \notin paths
  BY <1>1, FileNames
<1>4. \A i \in Import : Durable(i) \notin paths
  BY <1>1, FileNames
<1> QED BY <1>1, <1>2, <1>3, <1>4, FewerFilesKeep

LEMMA MaintainKeeps ==
  ASSUME ImportInv, NEW f \in files, Maintain(f)
  PROVE  ImportInv'
<1>1. /\ files' = files \ {f} /\ f \notin Referenced /\ ~up
      /\ UNCHANGED <<imp, job, wk, removing, bk, locked, packs, up, life, cut>>
  BY DEF Maintain
<1> DEFINE ofJobs == UNION {FilesOf(job[a], a) : a \in Attempt}
           ofImports == UNION {SourceOf(imp[i], i) : i \in Import}
<1>2. f \notin ofJobs /\ f \notin ofImports
  BY <1>1 DEF Referenced
<1>3. \A a \in Attempt : f \notin FilesOf(job[a], a)
  BY <1>2
<1>4. \A i \in Import : f \notin SourceOf(imp[i], i)
  BY <1>2
<1> HIDE DEF ofJobs, ofImports
<1>5. \A a \in Attempt : /\ job[a] = "full" => f \notin Final(a)
                         /\ job[a] = "staged" => f # StagedSource(a)
  <2> SUFFICES ASSUME NEW a \in Attempt
               PROVE  /\ job[a] = "full" => f \notin Final(a)
                      /\ job[a] = "staged" => f # StagedSource(a)
    OBVIOUS
  <2>1. f \notin FilesOf(job[a], a)
    BY <1>3
  <2> QED BY <2>1 DEF FilesOf
<1>6. \A i \in Import : InFlight(i) /\ i \notin cut => f # Durable(i)
  <2> SUFFICES ASSUME NEW i \in Import, InFlight(i), i \notin cut PROVE f # Durable(i)
    OBVIOUS
  <2>1. imp[i].src = "imports" /\ f \notin SourceOf(imp[i], i)
    BY <1>4 DEF ImportInv, RowAgrees
  <2> QED BY <2>1 DEF SourceOf
<1> QED BY <1>1, <1>5, <1>6, FewerFilesKeep DEF Current

\* The rows a backup copies are whole.
LEMMA RowsAreWhole == ASSUME ImportInv PROVE Whole(imp, job)
<1>1. imp \in [Import -> ImportRow]
  BY DEF ImportInv, ImportsTypeOK
<1>2. ASSUME NEW i \in Import, imp[i].st = "completed"
      PROVE  job[imp[i].job] \in {"full", "none"}
  <2>1. imp[i].job # None /\ imp[i].job[1] = i
    BY <1>2 DEF ImportInv, RowAgrees
  <2>2. imp[i].job \in Attempt
    BY <1>1, <2>1 DEF ImportRow
  <2>3. JobAgrees(imp[i].job)
    BY <2>2 DEF ImportInv
  <2> QED BY <2>1, <2>3 DEF JobAgrees
<1> QED BY <1>1, <1>2 DEF Whole

LEMMA BackupKeeps ==
  ASSUME ImportInv, Backup
  PROVE  ImportInv'
<1>1. UNCHANGED <<imp, job, files, wk, removing, up, life, cut>> /\ locked' \in BOOLEAN
  BY DEF Backup, BeginBackup, Snapshot, CopyFile, CopyMisses, Promote, Unlock, ImportInv, ImportsTypeOK
<1>2. /\ ImportsTypeOK /\ (~up => bk.st = "none") /\ IsBackup(bk)
      /\ bk.st = "copying" => Whole(bk.imp, bk.job)
      /\ \A p \in packs : Whole(p.imp, p.job) /\ Verified(p)
  BY DEF ImportInv
<1>3. /\ ~up => bk'.st = "none"
      /\ IsBackup(bk')
      /\ bk'.st = "copying" => Whole(bk'.imp, bk'.job)
      /\ \A p \in packs' : Whole(p.imp, p.job) /\ Verified(p)
  <2>1. CASE BeginBackup \/ CopyMisses \/ Unlock
    BY <1>2, <2>1 DEF BeginBackup, CopyMisses, Unlock, NoBackup, IsBackup
  <2>2. CASE Snapshot
    <3>1. /\ bk' = [st |-> "copying", imp |-> imp, job |-> job, todo |-> References(imp, job),
                    got |-> {}]
          /\ packs' = packs /\ up
      BY <1>2, <2>2 DEF Snapshot
    <3> QED BY <1>2, <3>1, RowsAreWhole DEF IsBackup
  <2>3. ASSUME NEW f \in bk.todo, CopyFile(f)
        PROVE  <1>3
    <3>1. /\ bk' = [bk EXCEPT !.todo = bk.todo \ {f}, !.got = bk.got \cup {f}]
          /\ packs' = packs /\ bk.st = "copying"
      BY <2>3 DEF CopyFile
    <3>2. bk' = [st |-> bk.st, imp |-> bk.imp, job |-> bk.job, todo |-> bk.todo \ {f},
                 got |-> bk.got \cup {f}]
      BY <1>2, <3>1 DEF IsBackup
    <3> QED BY <1>2, <3>1, <3>2 DEF IsBackup
  <2>4. CASE Promote
    <3> DEFINE p == [imp |-> bk.imp, job |-> bk.job, got |-> bk.got]
    <3>1. /\ bk' = NoBackup /\ bk.st = "copying"
          /\ packs' = IF Verified(p) THEN packs \cup {p} ELSE packs
      BY <2>4 DEF Promote
    <3>2. Whole(p.imp, p.job)
      BY <1>2, <3>1
    <3>3. IsBackup(bk') /\ bk'.st = "none"
      BY <3>1 DEF NoBackup, IsBackup
    <3> HIDE DEF p
    <3> QED BY <1>2, <3>1, <3>2, <3>3
  <2> QED BY <2>1, <2>2, <2>3, <2>4 DEF Backup
<1>4. \A a \in Attempt : (Tried(a)' <=> Tried(a)) /\ (Current(a)' <=> Current(a))
  BY <1>1 DEF Tried, Current
<1>5. \A a \in Attempt : JobAgrees(a)'
  BY <1>1, <1>4 DEF ImportInv, JobAgrees
<1>6. \A k \in Import : (imp'[k].job # None => imp'[k].job[1] = k) /\ RowAgrees(k)'
  BY <1>1 DEF ImportInv, RowAgrees, InFlight
<1>7. \A paths \in removing' : Abandoned(paths)'
  BY <1>1, <1>4 DEF ImportInv, Abandoned
<1>8. ImportsTypeOK'
  BY <1>1, <1>2 DEF ImportsTypeOK
<1>9. ~up' => (\A k \in Import : wk'[k] = "off") /\ removing' = {} /\ bk'.st = "none"
  BY <1>1, <1>3 DEF ImportInv
<1> QED BY <1>3, <1>5, <1>6, <1>7, <1>8, <1>9 DEF ImportInv

LEMMA LifeIsNatural == ASSUME ImportsTypeOK PROVE MaxCrashes \in Nat /\ life \in Nat
<1>1. life \in 0 .. MaxCrashes /\ MaxCrashes \in Nat
  BY ImportAssumption DEF ImportsTypeOK
<1> QED BY <1>1

\* What a crash leaves: an attempt that was under way is over, and one whose
\* files had moved is marked as cut.
LEMMA LostKeeps ==
  ASSUME ImportInv, Lost,
         imp' \in [Import -> ImportRow], job' \in [Attempt -> JobState],
         files' \subseteq ImportFiles, cut' \subseteq Import, cut \subseteq cut',
         \A i \in Import : wk[i] = "moved" => i \in cut',
         \A i \in Import : imp'[i] # imp[i] => /\ i \in cut' /\ imp[i].job = None
                                               /\ imp'[i] = [st |-> "queued", src |-> "uploads",
                                                             job |-> None],
         \A a \in Attempt : job'[a] # job[a] => /\ a[1] \in cut' /\ Current(a) /\ imp[a[1]].job # a
                                                /\ job'[a] \in {"bare", "full"}
                                                /\ Final(a) \subseteq files,
         \A a \in Attempt : /\ Final(a) \subseteq files => Final(a) \subseteq files'
                            /\ StagedSource(a) \in files => StagedSource(a) \in files',
         \A i \in Import : Durable(i) \in files => Durable(i) \in files'
  PROVE  ImportInv'
<1>1. /\ ImportsTypeOK
      /\ \A k \in Import : (imp[k].job # None => imp[k].job[1] = k) /\ RowAgrees(k)
      /\ \A a \in Attempt : JobAgrees(a)
  BY DEF ImportInv
<1>2. /\ up /\ up' = FALSE /\ life < MaxCrashes /\ life' = life + 1
      /\ wk' = [i \in Import |-> "off"] /\ removing' = {} /\ bk' = NoBackup
      /\ UNCHANGED <<locked, packs>>
  BY DEF Lost
<1>3. life \in Nat /\ life' \in 0 .. MaxCrashes
  BY <1>1, <1>2, LifeIsNatural
<1>4. ImportsTypeOK'
  BY <1>1, <1>2, <1>3 DEF ImportsTypeOK
<1>5. \A k \in Import : (imp'[k].job # None => imp'[k].job[1] = k) /\ RowAgrees(k)'
  <2> SUFFICES ASSUME NEW k \in Import
               PROVE  (imp'[k].job # None => imp'[k].job[1] = k) /\ RowAgrees(k)'
    OBVIOUS
  <2>1. wk'[k] = "off" /\ RowAgrees(k) /\ (k \notin cut' => k \notin cut)
    BY <1>1, <1>2
  <2>2. CASE imp'[k] = imp[k]
    <3>1. InFlight(k)' <=> InFlight(k)
      BY <2>2 DEF InFlight
    <3> QED BY <1>1, <2>1, <2>2, <3>1 DEF RowAgrees, Attempting
  <2>3. CASE imp'[k] # imp[k]
    <3>1. /\ k \in cut' /\ imp'[k].st = "queued" /\ imp'[k].src = "uploads" /\ imp'[k].job = None
      BY <2>3
    <3> QED BY <2>1, <3>1 DEF RowAgrees, InFlight, Attempting
  <2> QED BY <2>2, <2>3
<1>6. \A a \in Attempt : JobAgrees(a)'
  <2> SUFFICES ASSUME NEW a \in Attempt PROVE JobAgrees(a)'
    OBVIOUS
  <2>1. /\ a[1] \in Import /\ a[2] \in Nat /\ JobAgrees(a) /\ job[a] \in JobState /\ a # None
        /\ a[1] \in cut => a[1] \in cut'
    <3>1. a[1] \in Import /\ a[2] \in 0 .. MaxCrashes /\ MaxCrashes \in Nat
      BY <1>1, AttemptNames, LifeIsNatural
    <3>2. a # None
      BY ImportAssumption DEF Attempt
    <3>3. job[a] \in JobState
      BY <1>1 DEF ImportsTypeOK
    <3> QED BY <1>1, <3>1, <3>2, <3>3
  <2>2. ~Current(a)' /\ (~Tried(a)' => ~Tried(a) /\ ~Current(a))
    BY <1>2, <1>3, <2>1 DEF Current, Tried
  <2>3. imp'[a[1]].job = a => imp[a[1]].job = a
    BY <2>1
  <2>4. a[1] \notin cut' => imp'[a[1]] = imp[a[1]]
    BY <2>1
  <2>5. CASE job'[a] = job[a]
    <3>1. job[a] = "staged" /\ a[1] \notin cut' => StagedSource(a) \in files'
      <4>1. CASE Current(a)
        BY <2>1, <4>1 DEF JobAgrees
      <4>2. CASE ~Current(a)
        BY <2>1, <4>2 DEF JobAgrees
      <4> QED BY <4>1, <4>2
    <3>2. job[a] = "full" => Final(a) \subseteq files'
      BY <2>1 DEF JobAgrees
    <3>3. job[a] = "bare" => a[1] \in cut'
      BY <2>1 DEF JobAgrees
    <3>4. job[a] = "full" /\ a[1] \notin cut' => imp'[a[1]].job = a
      BY <2>1, <2>4 DEF JobAgrees
    <3>5. (imp'[a[1]].job = a => job[a] \in {"full", "none"}) /\ (~Tried(a)' => job[a] = "none")
      BY <2>1, <2>2, <2>3 DEF JobAgrees
    <3> QED BY <2>2, <2>5, <3>1, <3>2, <3>3, <3>4, <3>5 DEF JobAgrees
  <2>6. CASE job'[a] # job[a]
    BY <2>1, <2>2, <2>3, <2>6 DEF JobAgrees
  <2> QED BY <2>5, <2>6
<1>7. /\ \A p \in packs' : Whole(p.imp, p.job) /\ Verified(p)
      /\ IsBackup(bk') /\ bk'.st = "none"
      /\ \A k \in Import : wk'[k] = "off"
  BY <1>2 DEF ImportInv, IsBackup, NoBackup
<1>8. removing' = {}
  BY <1>2
<1> QED BY <1>4, <1>5, <1>6, <1>7, <1>8 DEF ImportInv

LEMMA CrashKeeps ==
  ASSUME ImportInv,
         Crash \/ \E i \in Import : CrashInAccept(i) \/ CrashInAttach(i)
  PROVE  ImportInv'
<1>1. ImportsTypeOK
  BY DEF ImportInv
<1>2. CASE Crash
  <2>1. Lost /\ UNCHANGED <<imp, job, files>> /\ cut' = cut \cup {i \in Import : wk[i] = "moved"}
    BY <1>2 DEF Crash
  <2> QED BY <1>1, <2>1, LostKeeps DEF ImportsTypeOK
<1>3. ASSUME NEW i \in Import, CrashInAccept(i)
      PROVE  ImportInv'
  <2> DEFINE row == [st |-> "queued", src |-> "uploads", job |-> None]
  <2>1. KnownHere(i) /\ FilesHere(i)
    BY Here
  <2>2. /\ Lost /\ wk[i] = "checked" /\ UNCHANGED job
        /\ imp' = [imp EXCEPT ![i] = row]
        /\ files' = files \/ files' = (files \ {Up(i)}) \cup {Durable(i)}
        /\ cut' = cut \cup {i} \cup {k \in Import : wk[k] = "moved"}
    BY <1>3 DEF CrashInAccept
  <2>3. imp[i].job = None
    BY <2>1, <2>2 DEF KnownHere, RowAgrees
  <2>4. row \in ImportRow
    BY DEF ImportRow
  <2>5. \A a \in Attempt : /\ Final(a) \subseteq files => Final(a) \subseteq files'
                           /\ StagedSource(a) \in files => StagedSource(a) \in files'
    BY <2>2, FileNames
  <2>6. \A k \in Import : Durable(k) \in files => Durable(k) \in files'
    BY <2>2, FileNames
  <2>7. files' \subseteq ImportFiles
    <3>1. files \subseteq ImportFiles /\ Durable(i) \in ImportFiles
      BY <1>1, <2>1 DEF FilesHere, ImportsTypeOK
    <3> QED BY <2>2, <3>1
  <2>8. /\ imp' \in [Import -> ImportRow] /\ imp'[i] = row
        /\ \A k \in Import : k # i => imp'[k] = imp[k]
    BY <1>1, <2>2, <2>4 DEF ImportsTypeOK
  <2>9. job' \in [Attempt -> JobState] /\ cut' \subseteq Import
    BY <1>1, <2>2 DEF ImportsTypeOK
  <2> HIDE DEF row
  <2>10. \A k \in Import : imp'[k] # imp[k] => k \in cut' /\ imp[k].job = None /\ imp'[k] = row
    BY <2>2, <2>3, <2>8
  <2> QED BY <2>2, <2>5, <2>6, <2>7, <2>8, <2>9, <2>10, LostKeeps DEF row
<1>4. ASSUME NEW i \in Import, CrashInAttach(i)
      PROVE  ImportInv'
  <2>1. KnownHere(i) /\ FilesHere(i)
    BY Here
  <2>2. PICK s \in {"bare", "full"} :
          /\ Lost /\ wk[i] = "moved" /\ job[Now(i)] # "none" /\ UNCHANGED <<imp, files>>
          /\ job' = [job EXCEPT ![Now(i)] = s]
          /\ cut' = cut \cup {k \in Import : wk[k] = "moved"}
    BY <1>4 DEF CrashInAttach
  <2>3. up
    BY <2>2 DEF Lost
  <2>4. /\ Current(Now(i)) /\ imp[i].job = None
        /\ Final(Now(i)) \subseteq files
    <3>1. Current(Now(i))
      BY <2>1, <2>3 DEF KnownHere, Current
    <3>2. imp[i].job = None
      BY <2>1, <2>2 DEF KnownHere, RowAgrees, Attempting
    <3>3. job[Now(i)] = "staged" /\ Final(Now(i)) \subseteq files
      BY <2>1, <2>2, <3>1 DEF KnownHere, JobAgrees
    <3> QED BY <3>1, <3>2, <3>3
  <2>5. /\ job' \in [Attempt -> JobState] /\ job'[Now(i)] = s
        /\ \A a \in Attempt : a # Now(i) => job'[a] = job[a]
    BY <1>1, <2>1, <2>2 DEF ImportsTypeOK, KnownHere, JobState
  <2>6. \A a \in Attempt : job'[a] # job[a] => /\ a[1] \in cut' /\ Current(a) /\ imp[a[1]].job # a
                                               /\ job'[a] \in {"bare", "full"}
                                               /\ Final(a) \subseteq files
    <3> SUFFICES ASSUME NEW a \in Attempt, job'[a] # job[a]
                 PROVE  /\ a[1] \in cut' /\ Current(a) /\ imp[a[1]].job # a
                        /\ job'[a] \in {"bare", "full"}
                        /\ Final(a) \subseteq files
      OBVIOUS
    <3>1. a = Now(i) /\ a[1] = i
      BY <2>1, <2>5 DEF KnownHere
    <3>2. i \in cut' /\ imp[i].job # a
      BY <2>1, <2>2, <2>4, <3>1 DEF KnownHere
    <3> QED BY <2>4, <2>5, <3>1, <3>2
  <2>7. imp' \in [Import -> ImportRow] /\ cut' \subseteq Import /\ files' \subseteq ImportFiles
    BY <1>1, <2>2 DEF ImportsTypeOK
  <2> QED BY <2>2, <2>5, <2>6, <2>7, LostKeeps
<1> QED BY <1>2, <1>3, <1>4

\* A restart reads again what was in flight, in a new attempt.
LEMMA RestartKeeps ==
  ASSUME ImportInv, Restart
  PROVE  ImportInv'
<1>1. /\ ImportsTypeOK /\ removing = {} /\ bk.st = "none" /\ ~up
      /\ \A k \in Import : (imp[k].job # None => imp[k].job[1] = k) /\ RowAgrees(k) /\ wk[k] = "off"
      /\ \A a \in Attempt : JobAgrees(a)
  BY DEF ImportInv, Restart
<1>2. /\ up' = TRUE /\ files' = files \cup {UploadsDir}
      /\ UNCHANGED <<job, removing, bk, locked, packs, life, cut>>
  BY DEF Restart
<1>3. \A k \in Import : /\ imp'[k] \in ImportRow
                        /\ imp'[k].job = imp[k].job /\ imp'[k].src = imp[k].src
                        /\ imp'[k].st = IF InFlight(k) THEN "processing" ELSE imp[k].st
                        /\ wk'[k] = IF InFlight(k) THEN "read" ELSE "off"
  <2> SUFFICES ASSUME NEW k \in Import
               PROVE  /\ imp'[k] \in ImportRow
                      /\ imp'[k].job = imp[k].job /\ imp'[k].src = imp[k].src
                      /\ imp'[k].st = IF InFlight(k) THEN "processing" ELSE imp[k].st
                      /\ wk'[k] = IF InFlight(k) THEN "read" ELSE "off"
    OBVIOUS
  <2>1. imp'[k] = IF InFlight(k) THEN [imp[k] EXCEPT !.st = "processing"] ELSE imp[k]
    BY DEF Restart
  <2>2. wk'[k] = IF InFlight(k) THEN "read" ELSE "off"
    BY DEF Restart
  <2>3. imp[k] \in ImportRow
    BY <1>1 DEF ImportsTypeOK
  <2> QED BY <2>1, <2>2, <2>3 DEF ImportRow
<1>4. imp' \in [Import -> ImportRow] /\ wk' \in [Import -> WorkerState]
  <2>1. imp' = [k \in Import |-> imp'[k]] /\ wk' = [k \in Import |-> wk'[k]]
    BY DEF Restart
  <2> QED BY <1>3, <2>1 DEF WorkerState
<1>5. ImportsTypeOK'
  BY <1>1, <1>2, <1>4, FileTypes DEF ImportsTypeOK, WorkerState
<1>6. \A k \in Import : (imp'[k].job # None => imp'[k].job[1] = k) /\ RowAgrees(k)'
  <2> SUFFICES ASSUME NEW k \in Import
               PROVE  (imp'[k].job # None => imp'[k].job[1] = k) /\ RowAgrees(k)'
    OBVIOUS
  <2>1. /\ RowAgrees(k) /\ imp'[k].job = imp[k].job /\ imp'[k].src = imp[k].src
        /\ imp'[k].st = IF InFlight(k) THEN "processing" ELSE imp[k].st
        /\ wk'[k] = IF InFlight(k) THEN "read" ELSE "off"
        /\ imp[k].job # None => imp[k].job[1] = k
    BY <1>1, <1>3
  <2> QED BY <1>2, <2>1 DEF RowAgrees, InFlight, Attempting
<1>7. \A a \in Attempt : JobAgrees(a)'
  <2> SUFFICES ASSUME NEW a \in Attempt PROVE JobAgrees(a)'
    OBVIOUS
  <2>1. /\ a[1] \in Import /\ JobAgrees(a) /\ imp'[a[1]].job = imp[a[1]].job
    BY <1>1, <1>3, AttemptNames
  <2>2. /\ Tried(a) => Tried(a)'
        /\ Current(a)' => job[a] = "none"
        /\ ~Current(a) /\ (~Tried(a) => job[a] = "none")
    <3>1. life \in Nat /\ life' = life /\ ~up
      BY <1>1, <1>2, LifeIsNatural
    <3>2. Tried(a) <=> a[2] < life
      BY <1>1 DEF Tried
    <3>3. ~Tried(a) => job[a] = "none"
      BY <2>1 DEF JobAgrees
    <3>4. a[2] < life => Tried(a)'
      BY <3>1 DEF Tried
    <3>5. Current(a)' => ~Tried(a)
      BY <3>1, <3>2 DEF Current
    <3> QED BY <3>1, <3>2, <3>3, <3>4, <3>5 DEF Current
  <2> QED BY <1>2, <2>1, <2>2 DEF JobAgrees
<1>8. /\ \A paths \in removing' : Abandoned(paths)'
      /\ up' /\ IsBackup(bk') /\ bk'.st = "none"
      /\ \A p \in packs' : Whole(p.imp, p.job) /\ Verified(p)
  BY <1>1, <1>2 DEF ImportInv
<1> QED BY <1>5, <1>6, <1>7, <1>8 DEF ImportInv
----------------------------------------------------------------------------
(* The theorems. *)

LEMMA ImportsInitially == Init => ImportInv
<1> SUFFICES ASSUME Init PROVE ImportInv
  OBVIOUS
<1>1. /\ imp = [i \in Import |-> [st |-> "none", src |-> "none", job |-> None]]
      /\ job = [a \in Attempt |-> "none"] /\ wk = [i \in Import |-> "off"]
      /\ files = {UploadsDir} /\ removing = {} /\ bk = NoBackup /\ packs = {}
      /\ locked = FALSE /\ up = TRUE /\ life = 0 /\ cut = {}
  BY DEF Init
<1>2. ImportsTypeOK
  <2>1. UploadsDir \in ImportFiles /\ 0 \in 0 .. MaxCrashes
    BY FileTypes, ImportAssumption
  <2>2. imp \in [Import -> ImportRow] /\ job \in [Attempt -> JobState]
    BY <1>1 DEF ImportRow, JobState
  <2> QED BY <1>1, <2>1, <2>2 DEF ImportsTypeOK
<1>3. \A i \in Import : (imp[i].job # None => imp[i].job[1] = i) /\ RowAgrees(i)
  BY <1>1 DEF RowAgrees, InFlight, Attempting
<1>4. \A a \in Attempt : JobAgrees(a)
  <2> SUFFICES ASSUME NEW a \in Attempt PROVE JobAgrees(a)
    OBVIOUS
  <2>1. job[a] = "none" /\ a[1] \in Import /\ wk[a[1]] = "off"
    BY <1>1, AttemptNames
  <2> QED BY <2>1 DEF JobAgrees
<1>5. IsBackup(bk) /\ bk.st = "none"
  BY <1>1 DEF IsBackup, NoBackup
<1> QED BY <1>1, <1>2, <1>3, <1>4, <1>5 DEF ImportInv

\* Every step of the pipeline keeps the invariant.
LEMMA ImportStep == ASSUME ImportInv, [Next]_vars PROVE ImportInv'
<1>1. ASSUME NEW i \in Import, Upload(i) \/ Refuse(i) \/ Accept(i) \/ AcceptFails(i)
      PROVE  ImportInv'
  BY <1>1, UploadKeeps, RefuseKeeps, AcceptKeeps, AcceptFailsKeeps
<1>2. ASSUME NEW i \in Import, Work(i)
      PROVE  ImportInv'
  BY <1>2, ReadFailsKeeps, CopySourceKeeps, ExtractAndCreateJobKeeps, CopyFailsKeeps, MoveKeeps,
     MoveFailsKeeps, AttachKeeps, AttachFailsKeeps, ClearKeeps, PurgeKeeps, PurgeFailsKeeps DEF Work
<1>3. CASE UNCHANGED vars
  <2>1. \A a \in Attempt : (Tried(a)' <=> Tried(a)) /\ (Current(a)' <=> Current(a))
    BY <1>3 DEF vars, Tried, Current
  <2>2. \A a \in Attempt : JobAgrees(a)'
    BY <1>3, <2>1 DEF vars, ImportInv, JobAgrees
  <2>3. \A k \in Import : (imp'[k].job # None => imp'[k].job[1] = k) /\ RowAgrees(k)'
    BY <1>3 DEF vars, ImportInv, RowAgrees, InFlight
  <2>4. \A paths \in removing' : Abandoned(paths)'
    BY <1>3, <2>1 DEF vars, ImportInv, Abandoned
  <2>5. ImportsTypeOK'
    BY <1>3 DEF vars, ImportInv, ImportsTypeOK
  <2> QED BY <1>3, <2>2, <2>3, <2>4, <2>5 DEF vars, ImportInv
<1> QED BY <1>1, <1>2, <1>3, RemoveJobKeeps, RemoveFilesKeeps, BackupKeeps, MaintainKeeps, CrashKeeps,
           RestartKeeps DEF Next

\* The inductive invariant of the import pipeline holds in every state.
THEOREM ImportInvariant == Spec => []ImportInv
<1>1. Init => ImportInv
  BY ImportsInitially
<1>2. ImportInv /\ [Next]_vars => ImportInv'
  BY ImportStep
<1> QED BY <1>1, <1>2, PTL DEF Spec

\* However many uploads there are and however often the server crashes, a job
\* with records has its files, an import that would be resumed has its workbook,
\* and at rest every file a backup looks for is there (runImportJob, removeJob,
\* maintainFiles, createFullBackup).
THEOREM RowsKeepTheirFiles == Spec => []FilesStand
<1>1. ImportInv => FilesStand
  <2> SUFFICES ASSUME ImportInv PROVE FilesStand
    OBVIOUS
  <2>1. \A a \in Attempt : (job[a] = "full") => (Final(a) \subseteq files)
    BY DEF ImportInv, JobAgrees
  <2>2. \A i \in Import \ cut : InFlight(i) => (SourceOf(imp[i], i) \subseteq files)
    <3> SUFFICES ASSUME NEW i \in Import \ cut, InFlight(i) PROVE SourceOf(imp[i], i) \subseteq files
      OBVIOUS
    <3>1. imp[i].src = "imports" /\ Durable(i) \in files
      BY DEF ImportInv, RowAgrees
    <3> QED BY <3>1 DEF SourceOf
  <2>3. RowsHaveFiles
    BY <2>1, <2>2 DEF RowsHaveFiles, ImportInv
  <2>4. QuietIsBackupable
    BY QuietHasItsFiles DEF QuietIsBackupable
  <2> QED BY <2>3, <2>4 DEF FilesStand
<1> QED BY <1>1, ImportInvariant, PTL

\* An import that no crash has cut in two gives one job at most, and none while
\* it may still be run again (runImportJob, recoverImportJobs).
THEOREM ImportsGiveOneJob == Spec => []OneJobPerImport
<1>1. ImportInv => OneJobPerImport
  BY JobsAreOne DEF OneJobPerImport
<1> QED BY <1>1, ImportInvariant, PTL

\* Every backup that was promoted restores to an environment whose jobs have
\* their files and whose completed imports have their jobs (createFullBackup,
\* restoreFullBackup, verifyRestoredEnvironment).
THEOREM BackupsRestore == Spec => []PacksRestore
<1>1. ImportInv => PacksRestore
  <2> SUFFICES ASSUME ImportInv, NEW p \in packs
               PROVE  /\ RestoreVerifies(p)
                      /\ \A i \in Import :
                           LET r == RestoredImport(p, i)
                           IN /\ r.st \notin {"queued", "processing"}
                              /\ (r.st = "completed") => (p.job[r.job] \in {"full", "none"})
    BY DEF PacksRestore
  <2>1. Whole(p.imp, p.job) /\ Verified(p)
    BY DEF ImportInv
  <2>2. RestoreVerifies(p)
    BY <2>1 DEF RestoreVerifies, Verified
  <2>3. ASSUME NEW i \in Import
        PROVE  /\ RestoredImport(p, i).st \notin {"queued", "processing"}
               /\ RestoredImport(p, i).st = "completed" =>
                    p.job[RestoredImport(p, i).job] \in {"full", "none"}
    <3>1. p.imp[i] \in ImportRow
      BY <2>1 DEF Whole
    <3>2. /\ RestoredImport(p, i).job = p.imp[i].job
          /\ RestoredImport(p, i).st = IF p.imp[i].st \in {"queued", "processing"} THEN "failed"
                                       ELSE p.imp[i].st
      BY <3>1 DEF RestoredImport, ImportRow
    <3> QED BY <2>1, <3>2 DEF Whole
  <2> QED BY <2>2, <2>3
<1> QED BY <1>1, ImportInvariant, PTL

=============================================================================
