---------------------------- MODULE KnowledgeSync ----------------------------
(***************************************************************************)
(* The knowledge catalogue (sections, fields, knowledge bases and items)   *)
(* kept in the database and in the repository's snapshot file, and the     *)
(* protocol that carries edits from one to the other: an outbox row in the *)
(* database, a state file beside it, and the hash of the last snapshot in  *)
(* the memory of each process.  A process is the server, or a command of   *)
(* the knowledge tool run beside it; it may stop between any two writes.   *)
(* A process runs from one wait for requests to the next without another   *)
(* process, or git, coming between: these are milliseconds, and the guides *)
(* ask for the service to be stopped first.                                *)
(*                                                                         *)
(* A catalogue gives each entry its standing.  Two catalogues have the     *)
(* same hash when they are equal, so a hash is modelled by its catalogue.  *)
(* The revision counters of the outbox are only compared with each other:  *)
(* ahead says that they differ.  There is one snapshot file, so the scope  *)
(* of the outbox is always that of the process.                            *)
(***************************************************************************)
EXTENDS Naturals, FiniteSets

CONSTANTS Entry,       \* rows of the catalogue
          FieldEntry,       \* the fields among them
          Process,     \* the server and the tool
          Server,      \* the process that is the server
          Seed,        \* the catalogue of a new database
          MaxLocal,    \* bound on the edits of the database
          MaxRemote,   \* bound on the edits of the snapshot by git
          MaxFaults,   \* bound on crashes and failed writes
          Nil         \* no file, no hash

Standing == {"absent", "enabled", "disabled"}
Catalogue == [Entry -> Standing]

ASSUME SyncAssumption == /\ FieldEntry \subseteq Entry
                         /\ Server \in Process
                         /\ Seed \in Catalogue
                         /\ {MaxLocal, MaxRemote, MaxFaults} \subseteq Nat
                         /\ Nil \notin Catalogue

VARIABLES
  db,         \* the catalogue in the database; Nil before it is created
  ran,        \* the fields that have analysis runs
  ahead,      \* outbox: revision # exported_revision
  outBase,    \* outbox: baseline_hash
  pending,    \* outbox: pending_hash
  file,       \* knowledge/catalog.json
  stateFile,  \* data/knowledge-sync-state.json
  memory,     \* memory[p]: the baseline of the process
  at,         \* at[p]: what the process does next
  taken,      \* taken[p]: the catalogue it is writing or restoring
  onFail,     \* onFail[p]: where a failed write leaves it; exit: it ends anyway
  held,       \* (history) catalogues the database held or was given
  shown,      \* (history) catalogues the snapshot file held
  touched,     \* (history) the database was edited since the last agreement
  spent       \* [local, remote, faults]: what was used of the bounds

outbox == <<ahead, outBase, pending>>
disk == <<file, stateFile>>
process == <<memory, at, taken, onFail>>
syncVars == <<db, ran, outbox, disk, process, held, shown, touched, spent>>

Spend(what, limit) == /\ spent[what] < limit
                      /\ spent' = [spent EXCEPT ![what] = @ + 1]

\* A repository with a snapshot or without one, cloned to a new machine.
SyncInit == /\ db = Nil /\ ran = {} /\ ahead = FALSE /\ outBase = Nil /\ pending = Nil
            /\ file \in Catalogue \cup {Nil}
            /\ stateFile = Nil
            /\ memory = [p \in Process |-> Nil]
            /\ at = [p \in Process |-> "off"]
            /\ taken = [p \in Process |-> Nil]
            /\ onFail = [p \in Process |-> "off"]
            /\ held = {}
            /\ shown = {file}
            /\ touched = FALSE
            /\ spent = [local |-> 0, remote |-> 0, faults |-> 0]

----------------------------------------------------------------------------
(* The hash check, and what a restore makes of the database. *)

Or(a, b) == IF a = Nil THEN b ELSE a

\* (mutant) an export that was cut off is repeated without a look
CleanOrPending(own) == LET base == Or(outBase, own)
                       IN  (base # Nil /\ pending = Nil) => file = base
\* The snapshot is the one last agreed on, or the one this installation was
\* writing when it was cut off.
Clean(own) == LET base == Or(outBase, own)
              IN  base # Nil => file \in {base} \cup ({pending} \ {Nil})
\* A field that the snapshot lacks but that has runs stays, disabled.
Restored(new, old) ==
  [e \in Entry |-> IF new[e] = "absent" /\ e \in ran /\ old[e] # "absent"
                     THEN "disabled" ELSE new[e]]

\* The run of another process, which no other starts inside of.
Apart(p) == \A q \in Process \ {p} : at[q] \in {"off", "idle"}

AtRest(p) == at[p] = "idle" /\ Apart(p)

\* An export starts: the hash of what will be written is recorded first.
BeginExport(p, failed) ==
  /\ pending' = db
  /\ taken' = [taken EXCEPT ![p] = db]
  /\ at' = [at EXCEPT ![p] = "write"]
  /\ onFail' = [onFail EXCEPT ![p] = failed]

BeginRemember(p) == /\ taken' = [taken EXCEPT ![p] = file]
                    /\ at' = [at EXCEPT ![p] = "state"]
                    /\ onFail' = [onFail EXCEPT ![p] = "off"]

BeginRestore(p, failed) == /\ taken' = [taken EXCEPT ![p] = file]
                           /\ at' = [at EXCEPT ![p] = "reload"]
                           /\ onFail' = [onFail EXCEPT ![p] = failed]

----------------------------------------------------------------------------
(* The start of a process. *)

\* The hash this installation last agreed on is read, and the database of a
\* new installation is created and seeded.
Open(p) ==
  /\ at[p] = "off" /\ Apart(p)
  /\ memory' = [memory EXCEPT ![p] = Or(outBase, stateFile)]
  /\ at' = [at EXCEPT ![p] = IF db = Nil THEN "fresh" ELSE "opened"]
  /\ db' = Or(db, Seed)
  /\ ahead' = (ahead \/ db = Nil)
  /\ held' = held \cup {db'}
  /\ UNCHANGED <<ran, outBase, pending, disk, taken, onFail, shown, touched, spent>>

HasUnexported == outBase # Nil /\ (ahead \/ pending # Nil)

Unchanged(p) == memory[p] = db

\* What initialize decides, in the order of its checks.
Decision(p) ==
  LET fresh == at[p] = "fresh"
      own == memory[p]
  IN  IF ~fresh /\ HasUnexported THEN IF Clean(own) THEN "resume" ELSE "refuse"
      ELSE IF file = Nil THEN IF own # Nil THEN "refuse" ELSE "export"
      ELSE IF file = db THEN "remember"
      ELSE IF fresh \/ Unchanged(p) THEN "restore"
      ELSE IF file = own THEN "export" ELSE "refuse"

Initialize(p) ==
  /\ at[p] \in {"fresh", "opened"}
  /\ \/ /\ Decision(p) \in {"resume", "export"} /\ Clean(memory[p])
        /\ BeginExport(p, IF Decision(p) = "resume" THEN "idle" ELSE "off")
     \/ Decision(p) = "remember" /\ BeginRemember(p) /\ UNCHANGED pending
     \/ Decision(p) = "restore" /\ BeginRestore(p, "off") /\ UNCHANGED pending
     \/ /\ Decision(p) = "refuse" \/ (Decision(p) = "export" /\ ~Clean(memory[p]))
        /\ at' = [at EXCEPT ![p] = "off"]
        /\ UNCHANGED <<ran, pending, taken, onFail>>
  /\ UNCHANGED <<ran, db, ahead, outBase, disk, memory, held, shown, touched, spent>>

----------------------------------------------------------------------------
(* The writes of an export and of a restore.  Each is whole or not done. *)

Goes(p, place) == at' = [at EXCEPT ![p] = place]

\* Temporary file and rename; a file that is already right is left alone.
WriteFile(p) ==
  /\ at[p] = "write"
  /\ file' = taken[p]
  /\ shown' = shown \cup {file'}
  /\ Goes(p, "state")
  /\ UNCHANGED <<ran, db, outbox, stateFile, memory, taken, onFail, held, touched, spent>>

Reload(p) ==
  /\ at[p] = "reload"
  /\ db' = Restored(taken[p], db)
  /\ ahead' = TRUE
  /\ held' = held \cup {taken[p], db'}
  /\ Goes(p, "state")
  /\ UNCHANGED <<ran, outBase, pending, disk, memory, taken, onFail, shown, touched, spent>>

WriteState(p) ==
  /\ at[p] = "state"
  /\ stateFile' = taken[p]
  /\ memory' = [memory EXCEPT ![p] = taken[p]]
  /\ Goes(p, "confirm")
  /\ UNCHANGED <<ran, db, outbox, file, taken, onFail, held, shown, touched, spent>>

Confirm(p) ==
  /\ at[p] = "confirm"
  /\ ahead' = FALSE /\ outBase' = taken[p] /\ pending' = Nil
  /\ taken' = [taken EXCEPT ![p] = Nil]
  /\ Goes(p, IF onFail[p] = "exit" THEN "off" ELSE "idle")
  /\ touched' = FALSE
  /\ UNCHANGED <<ran, db, disk, memory, onFail, held, shown, spent>>

\* The disk is full, or the files may not be written; before a restore the
\* database is backed up, which may fail too.
WriteFails(p) ==
  /\ at[p] \in {"write", "state", "reload"}
  /\ Spend("faults", MaxFaults)
  /\ Goes(p, IF onFail[p] = "exit" THEN "off" ELSE onFail[p])
  /\ taken' = [taken EXCEPT ![p] = Nil]
  /\ UNCHANGED <<ran, db, outbox, disk, memory, onFail, held, shown, touched>>

Crash(p) ==
  /\ at[p] \notin {"off", "idle"}
  /\ Spend("faults", MaxFaults)
  /\ Goes(p, "off")
  /\ taken' = [taken EXCEPT ![p] = Nil]
  /\ UNCHANGED <<ran, db, outbox, disk, memory, onFail, held, shown, touched>>

Stop(p) ==
  /\ at[p] = "idle" /\ Goes(p, "off")
  /\ UNCHANGED <<db, ran, outbox, disk, memory, taken, onFail, held, shown, touched, spent>>

----------------------------------------------------------------------------
(* The requests of the server and the commands of the tool. *)

\* (mutant) a table without triggers
ChangedUnseen(e, s) == /\ s # db[e]
                       /\ db' = [db EXCEPT ![e] = s]
                       /\ held' = held \cup {db'}
                       /\ touched' = TRUE
                       /\ Spend("local", MaxLocal)
                       /\ UNCHANGED ahead
\* A write of the tables; triggers raise the revision in its transaction.
Changed(e, s) == /\ s # db[e]
                 /\ db' = [db EXCEPT ![e] = s]
                 /\ held' = held \cup {db'}
                 /\ ahead' = TRUE
                 /\ touched' = TRUE
                 /\ Spend("local", MaxLocal)

\* A request that changes the configuration: refused on a changed snapshot,
\* and followed by an export, whose failure the answer only reports.
Save(e, s) ==
  /\ AtRest(Server) /\ Clean(memory[Server])
  /\ Changed(e, s)
  /\ Goes(Server, "save")
  /\ UNCHANGED <<ran, outBase, pending, disk, memory, taken, onFail, shown>>

\* Publishing a configuration version, or importing a workbook with new
\* source columns, changes the tables without that check and that export.
SaveAside(e, s) ==
  /\ AtRest(Server)
  /\ Changed(e, s)
  /\ UNCHANGED <<ran, outBase, pending, disk, process, shown>>

ExportAfterSave ==
  /\ at[Server] = "save"
  /\ \/ Clean(memory[Server]) /\ BeginExport(Server, "idle")
     \/ /\ ~Clean(memory[Server]) /\ Goes(Server, "idle")
        /\ UNCHANGED <<ran, pending, taken, onFail>>
  /\ UNCHANGED <<ran, db, ahead, outBase, disk, memory, held, shown, touched, spent>>

\* The retry of the operator, and the export of the tool.
Export(p) ==
  /\ AtRest(p) /\ Clean(memory[p])
  /\ BeginExport(p, IF p = Server THEN "idle" ELSE "off")
  /\ UNCHANGED <<ran, db, ahead, outBase, disk, memory, held, shown, touched, spent>>

\* The restore of the tool takes the snapshot whatever the database holds.
ToolRestore(p) ==
  /\ p # Server /\ at[p] = "off" /\ Apart(p) /\ db # Nil /\ file # Nil
  /\ memory' = [memory EXCEPT ![p] = Or(outBase, stateFile)]
  /\ BeginRestore(p, "exit")
  /\ UNCHANGED <<ran, db, outbox, disk, held, shown, touched, spent>>

\* A field of the database is analysed for the first time.
Analyse(f) ==
  /\ AtRest(Server) /\ db[f] = "enabled" /\ f \notin ran
  /\ ran' = ran \cup {f}
  /\ UNCHANGED <<db, outbox, disk, process, held, shown, touched, spent>>

\* Git brings another snapshot, or removes it.
Pull(c) ==
  /\ \A p \in Process : at[p] \in {"off", "idle", "save"}
  /\ Spend("remote", MaxRemote)
  /\ c # file
  /\ file' = c
  /\ shown' = shown \cup {c}
  /\ UNCHANGED <<ran, db, outbox, stateFile, process, held, touched>>

Step(p) == \/ Open(p) \/ Initialize(p) \/ WriteFile(p) \/ Reload(p)
           \/ WriteState(p) \/ Confirm(p) \/ WriteFails(p) \/ Crash(p)
           \/ Stop(p) \/ Export(p) \/ ToolRestore(p)

SyncNext == \/ \E p \in Process : Step(p)
            \/ \E e \in Entry, s \in Standing : Save(e, s) \/ SaveAside(e, s)
            \/ ExportAfterSave
            \/ \E f \in FieldEntry : Analyse(f)
            \/ \E c \in Catalogue \cup {Nil} : Pull(c)

SyncSpec == SyncInit /\ [][SyncNext]_syncVars

----------------------------------------------------------------------------

\* The status that the pages show.
SnapshotReady(p) == Clean(memory[p]) /\ ~ahead /\ pending = Nil

SyncTypeOK ==
  /\ db \in Catalogue \cup {Nil} /\ ran \subseteq FieldEntry /\ ahead \in BOOLEAN
  /\ {outBase, pending, file, stateFile} \subseteq Catalogue \cup {Nil}
  /\ memory \in [Process -> Catalogue \cup {Nil}]
  /\ at \in [Process -> {"off", "fresh", "opened", "reload", "write", "state",
                         "confirm", "idle", "save"}]
  /\ taken \in [Process -> Catalogue \cup {Nil}]
  /\ onFail \in [Process -> {"idle", "off", "exit"}]

\* When the page of an idle server says that the snapshot is ready, the
\* snapshot holds every entry as the database does, but for the disabled
\* fields that a restore kept for their runs.
ReadyIsTrue ==
  /\ SyncTypeOK
  /\ (AtRest(Server) /\ SnapshotReady(Server)) =>
       \A e \in Entry : \/ file[e] = db[e]
                       \/ /\ e \in ran
                          /\ file[e] = "absent" /\ db[e] = "disabled"

\* An export overwrites a snapshot.
Overwrites == /\ file' # file /\ file # Nil
              /\ \E p \in Process : at[p] = "write" /\ at'[p] = "state"
\* The start of the server replaces a catalogue.
Replaces == db' # db /\ at[Server] = "reload"

\* No edit is replaced unseen.  A snapshot that an export overwrites was at
\* some time the content of this database, so that an edit that came through
\* the repository was restored before; a catalogue that the start replaces was
\* in the snapshot file before, or is the seed of a new database, so that an
\* edit that never reached the repository is only replaced by the operator's
\* command.  (assertUnchanged before every export, the pending hash and the
\* three hashes compared at the start.)
ReplacesOnlyKnown ==
  [][/\ Overwrites => file \in held
     /\ Replaces => db \in shown \cup {Seed}]_syncVars

\* (README.md:118: a changed snapshot is restored when the database has no
\* edit of its own.)  A start that finds a snapshot is refused only if the
\* database was edited since the last agreement.
RefusedOnlyIfEdited ==
  (at[Server] \in {"fresh", "opened"} /\ Decision(Server) = "refuse" /\ file # Nil)
    => touched
=============================================================================
