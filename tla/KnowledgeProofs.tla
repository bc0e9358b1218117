-------------------------- MODULE KnowledgeProofs --------------------------
(***************************************************************************)
(* What the knowledge of the centre keeps, proved for every set of         *)
(* entries, processes, records, questions, bases, workbooks and items: the *)
(* synchronisation of the knowledge package, the capture of hot topics,    *)
(* the import of workbooks, the choice of an item for a record, and the    *)
(* page on which the bases are edited.  Each part has its inductive        *)
(* invariant; the last section puts the parts of the run together.         *)
(***************************************************************************)
EXTENDS MCKnowledge, FiniteSetTheorems, WellFoundedInduction, NaturalsInduction, TLAPS

\* A set of numbers up to n has a greatest.
LEMMA LatestOf ==
  ASSUME NEW n \in Nat, NEW T \in SUBSET (1 .. n), T # {}
  PROVE  \E m \in T : \A k \in T : k <= m
<1> DEFINE D == {n - k : k \in T}
<1>1. D \subseteq Nat /\ D # {}
  <2>1. \A k \in T : n - k \in Nat
    OBVIOUS
  <2> QED BY <2>1
<1>2. PICK x \in D : \A y \in D : ~(<<y, x>> \in OpToRel(<, Nat))
  BY <1>1, WFMin, NatLessThanWellFounded, Zenon
<1>3. \A y \in D : ~(y < x)
  BY <1>1, <1>2 DEF OpToRel
<1>4. PICK m \in T : x = n - m
  OBVIOUS
<1>5. ASSUME NEW k \in T PROVE k <= m
  <2>1. n - k \in D /\ k \in Int /\ m \in Int
    OBVIOUS
  <2>2. ~(n - k < n - m)
    BY <1>3, <1>4, <2>1
  <2> QED BY <2>1, <2>2
<1> QED BY <1>5

----------------------------------------------------------------------------
(* The knowledge package (KnowledgeSync). *)

\* The snapshot has every entry as the database does, but for the disabled
\* fields that a restore kept for their runs.
Agrees(snapshot, rows) ==
  \A e \in Entry : \/ snapshot[e] = rows[e]
                   \/ e \in ran /\ snapshot[e] = "absent" /\ rows[e] = "disabled"

\* One process at a time is between two waits.
OneAtWork == \A p, q \in Process : p # q => {at[p], at[q]} \cap {"off", "idle"} # {}

\* Whatever a process holds of the snapshot was in the database and in the file.
HashesKnown ==
  /\ file \in shown /\ db \in held \cup {Nil} /\ pending \in held \cup {Nil}
  /\ {outBase, stateFile} \subseteq (held \cap shown) \cup {Nil}
  /\ \A p \in Process : memory[p] \in (held \cap shown) \cup {Nil}

\* What a process relies on in the midst of its work.
AtWork(p) ==
  /\ db = Nil => at[p] = "off"
  /\ at[p] = "fresh" => db = Seed
  /\ at[p] \in {"idle", "save"} => outBase # Nil
  /\ at[p] \in {"write", "state", "reload"} /\ onFail[p] = "idle" => outBase # Nil
  /\ at[p] \in {"write", "state", "confirm", "reload"} => taken[p] # Nil
  /\ at[p] \in {"write", "state", "confirm"} => Agrees(taken[p], db) /\ taken[p] \in held
  /\ at[p] \in {"state", "confirm", "reload"} => taken[p] \in shown
  /\ at[p] = "write" => file \in held \cup {Nil}
  /\ at[p] = "reload" /\ p = Server => db \in shown \cup {Seed}

\* Without a newer revision, the database is that of the last agreement.
BaseAgrees == ~ahead /\ db # Nil => outBase # Nil /\ Agrees(outBase, db)

SyncInv == /\ SyncTypeOK /\ OneAtWork /\ HashesKnown /\ BaseAgrees
           /\ \A p \in Process : AtWork(p)

LEMMA SyncInitially == SyncInit => SyncInv
BY SyncAssumption DEF SyncInit, SyncInv, SyncTypeOK, OneAtWork, HashesKnown, AtWork, BaseAgrees

LEMMA OpenStep ==
  ASSUME SyncInv, NEW p \in Process, Open(p)
  PROVE  SyncInv'
<1> USE SyncAssumption
<1>0. SyncTypeOK /\ OneAtWork /\ HashesKnown /\ BaseAgrees /\ \A q \in Process : AtWork(q)
  BY DEF SyncInv
<1>1. /\ at[p] = "off" /\ \A q \in Process \ {p} : at[q] \in {"off", "idle"}
      /\ at' = [at EXCEPT ![p] = IF db = Nil THEN "fresh" ELSE "opened"]
      /\ memory' = [memory EXCEPT ![p] = IF outBase = Nil THEN stateFile ELSE outBase]
      /\ db' = IF db = Nil THEN Seed ELSE db
      /\ ahead' = (ahead \/ db = Nil) /\ held' = held \cup {db'}
      /\ UNCHANGED <<ran, outBase, pending, file, stateFile, taken, onFail, shown>>
  BY DEF Open, Or, Apart, disk
<1>2. SyncTypeOK'
  BY <1>0, <1>1 DEF SyncTypeOK
<1>3. /\ \A q \in Process : q # p => at'[q] = at[q]
      /\ at'[p] = IF db = Nil THEN "fresh" ELSE "opened"
      /\ \A q \in Process : memory'[q] \in {memory[q], stateFile, outBase}
  BY <1>0, <1>1 DEF SyncTypeOK
<1>4. OneAtWork'
  BY <1>0, <1>1, <1>3 DEF OneAtWork
<1>5. HashesKnown'
  BY <1>0, <1>1, <1>3 DEF HashesKnown
<1>6. BaseAgrees'
  BY <1>0, <1>1 DEF BaseAgrees, Agrees, SyncTypeOK
<1>7. \A q \in Process : AtWork(q)'
  <2> SUFFICES ASSUME NEW q \in Process PROVE AtWork(q)'
    OBVIOUS
  <2>1. db' # Nil
    BY <1>1
  <2>2. CASE q = p
    BY <1>1, <1>3, <2>1, <2>2 DEF AtWork
  <2>3. CASE q # p
    <3>1. AtWork(q) /\ at'[q] = at[q] /\ at[q] \in {"off", "idle"} /\ at[q] \notin {"write", "state", "confirm", "reload"}
      BY <1>0, <1>1, <1>3, <2>3
    <3> QED BY <1>1, <2>1, <3>1 DEF AtWork
  <2> QED BY <2>2, <2>3
<1> QED BY <1>2, <1>4, <1>5, <1>6, <1>7 DEF SyncInv

\* What the decision of a start rests on.
LEMMA Decided ==
  ASSUME NEW p \in Process
  PROVE  /\ Decision(p) = "resume" => outBase # Nil /\ Clean(memory[p])
         /\ Decision(p) = "export" => file \in {Nil, memory[p]}
         /\ Decision(p) = "remember" => file = db /\ file # Nil
         /\ Decision(p) = "restore" => file # Nil /\ (at[p] = "fresh" \/ memory[p] = db)
BY DEF Decision, HasUnexported, Unchanged

\* An export starts when what it overwrites is known.
LEMMA ExportBegins ==
  ASSUME SyncInv, NEW p \in Process, Apart(p), NEW failed \in {"idle", "off", "exit"},
         BeginExport(p, failed), db # Nil, file \in held \cup {Nil}, failed = "idle" => outBase # Nil,
         UNCHANGED <<ran, db, ahead, outBase, file, stateFile, memory, held, shown>>
  PROVE  SyncInv'
<1> USE SyncAssumption
<1>0. SyncTypeOK /\ OneAtWork /\ HashesKnown /\ BaseAgrees /\ \A q \in Process : AtWork(q)
  BY DEF SyncInv
<1>1. SyncTypeOK'
  BY <1>0 DEF SyncTypeOK, BeginExport
<1>2. OneAtWork' /\ HashesKnown' /\ BaseAgrees'
  BY <1>0 DEF SyncTypeOK, OneAtWork, HashesKnown, BaseAgrees, Agrees, BeginExport, Apart
<1>3. \A q \in Process : AtWork(q)'
  BY <1>0 DEF SyncTypeOK, AtWork, Agrees, BeginExport, HashesKnown
<1> QED BY <1>1, <1>2, <1>3 DEF SyncInv

\* A restore starts from a snapshot that is there, and that of the server from
\* a database that is known.
LEMMA RestoreBegins ==
  ASSUME SyncInv, NEW p \in Process, Apart(p), NEW failed \in {"off", "exit"},
         BeginRestore(p, failed), db # Nil, file # Nil, p = Server => db \in shown \cup {Seed},
         NEW m \in {outBase, stateFile},
         memory' \in {memory, [memory EXCEPT ![p] = m]},
         UNCHANGED <<ran, db, ahead, outBase, pending, file, stateFile, held, shown>>
  PROVE  SyncInv'
<1> USE SyncAssumption
<1>0. SyncTypeOK /\ OneAtWork /\ HashesKnown /\ BaseAgrees /\ \A q \in Process : AtWork(q)
  BY DEF SyncInv
<1>2. OneAtWork' /\ HashesKnown' /\ BaseAgrees'
  BY <1>0 DEF SyncTypeOK, OneAtWork, HashesKnown, BaseAgrees, Agrees, BeginRestore, Apart
<1>3. \A q \in Process : AtWork(q)'
  BY <1>0 DEF SyncTypeOK, AtWork, Agrees, BeginRestore, HashesKnown
<1>4. SyncTypeOK'
  BY <1>0 DEF SyncTypeOK, BeginRestore
<1> QED BY <1>2, <1>3, <1>4 DEF SyncInv


LEMMA InitializeStep ==
  ASSUME SyncInv, NEW p \in Process, Initialize(p)
  PROVE  SyncInv'
<1>0. SyncTypeOK /\ OneAtWork /\ HashesKnown /\ BaseAgrees /\ \A q \in Process : AtWork(q)
  BY DEF SyncInv
<1>1. /\ at[p] \in {"fresh", "opened"} /\ db # Nil /\ Apart(p)
      /\ UNCHANGED <<ran, db, ahead, outBase, file, stateFile, memory, held, shown>>
  BY <1>0 DEF Initialize, disk, AtWork, OneAtWork, Apart
<1>2. CASE /\ Decision(p) \in {"resume", "export"} /\ Clean(memory[p])
           /\ BeginExport(p, IF Decision(p) = "resume" THEN "idle" ELSE "off")
  <2>1. file \in held \cup {Nil}
    <3>1. CASE Decision(p) = "export"
      BY <1>0, <3>1, Decided DEF HashesKnown
    <3>2. CASE Decision(p) = "resume"
      <4>1. outBase # Nil /\ Clean(memory[p])
        BY <3>2, Decided
      <4> QED BY <1>0, <4>1 DEF Clean, Or, HashesKnown
    <3> QED BY <1>2, <3>1, <3>2
  <2>2. Decision(p) = "resume" => outBase # Nil
    BY Decided
  <2> DEFINE failed == IF Decision(p) = "resume" THEN "idle" ELSE "off"
  <2>3. failed \in {"idle", "off", "exit"} /\ BeginExport(p, failed) /\ (failed = "idle" => outBase # Nil)
    BY <1>2, <2>2
  <2> HIDE DEF failed
  <2> QED BY <1>1, <2>1, <2>3, ExportBegins
<1>3. CASE Decision(p) = "restore" /\ BeginRestore(p, "off") /\ UNCHANGED pending
  <2>1. file # Nil /\ (at[p] = "fresh" \/ memory[p] = db)
    BY <1>3, Decided
  <2>2. db \in shown \cup {Seed}
    BY <1>0, <1>1, <2>1 DEF AtWork, HashesKnown
  <2> QED BY <1>1, <1>3, <2>1, <2>2, RestoreBegins
<1>4. CASE Decision(p) = "remember" /\ BeginRemember(p) /\ UNCHANGED pending
  <2>1. file = db /\ file # Nil
    BY <1>4, Decided
  <2>2. /\ at' = [at EXCEPT ![p] = "state"] /\ taken' = [taken EXCEPT ![p] = file]
        /\ onFail' = [onFail EXCEPT ![p] = "off"] /\ UNCHANGED pending
    BY <1>4 DEF BeginRemember
  <2>3. SyncTypeOK'
    BY <1>0, <1>1, <2>1, <2>2 DEF SyncTypeOK
  <2>4. OneAtWork' /\ HashesKnown' /\ BaseAgrees'
    BY <1>0, <1>1, <2>2 DEF SyncTypeOK, OneAtWork, HashesKnown, BaseAgrees, Agrees
  <2>5. \A q \in Process : AtWork(q)'
    BY <1>0, <1>1, <2>1, <2>2 DEF SyncTypeOK, AtWork, Agrees, HashesKnown
  <2> QED BY <2>3, <2>4, <2>5 DEF SyncInv
<1>5. CASE at' = [at EXCEPT ![p] = "off"] /\ UNCHANGED <<ran, pending, taken, onFail>>
  <2>1. SyncTypeOK'
    BY <1>0, <1>1, <1>5 DEF SyncTypeOK
  <2>2. OneAtWork' /\ HashesKnown' /\ BaseAgrees'
    BY <1>0, <1>1, <1>5 DEF SyncTypeOK, OneAtWork, HashesKnown, BaseAgrees, Agrees
  <2>3. \A q \in Process : AtWork(q)'
    BY <1>0, <1>1, <1>5 DEF SyncTypeOK, AtWork, Agrees
  <2> QED BY <2>1, <2>2, <2>3 DEF SyncInv
<1> QED BY <1>2, <1>3, <1>4, <1>5 DEF Initialize

\* The writes of a process that is at work, by itself.
LEMMA WriteStep ==
  ASSUME SyncInv, NEW p \in Process, WriteFile(p) \/ Reload(p) \/ WriteState(p) \/ Confirm(p)
  PROVE  SyncInv'
<1> USE SyncAssumption
<1>0. SyncTypeOK /\ OneAtWork /\ HashesKnown /\ BaseAgrees /\ \A q \in Process : AtWork(q)
  BY DEF SyncInv
<1>1. at[p] \in {"write", "reload", "state", "confirm"} /\ db # Nil /\ taken[p] # Nil
      /\ \A q \in Process \ {p} : at[q] \in {"off", "idle"}
  BY <1>0 DEF WriteFile, Reload, WriteState, Confirm, OneAtWork, AtWork
<1>2. CASE WriteFile(p)
  <2>1. /\ at[p] = "write" /\ file' = taken[p] /\ shown' = shown \cup {file'}
        /\ at' = [at EXCEPT ![p] = "state"]
        /\ UNCHANGED <<ran, db, ahead, outBase, pending, stateFile, memory, taken, onFail, held>>
    BY <1>2 DEF WriteFile, Goes, outbox
  <2>2. SyncTypeOK'
    BY <1>0, <2>1 DEF SyncTypeOK
  <2>3. OneAtWork' /\ HashesKnown' /\ BaseAgrees'
    BY <1>0, <1>1, <2>1 DEF SyncTypeOK, OneAtWork, HashesKnown, BaseAgrees, Agrees
  <2>4. \A q \in Process : AtWork(q)'
    BY <1>0, <1>1, <2>1 DEF SyncTypeOK, AtWork, Agrees
  <2> QED BY <2>2, <2>3, <2>4 DEF SyncInv
<1>3. CASE Reload(p)
  <2>1. /\ at[p] = "reload" /\ db' = Restored(taken[p], db) /\ ahead' = TRUE
        /\ held' = held \cup {taken[p], db'} /\ at' = [at EXCEPT ![p] = "state"]
        /\ UNCHANGED <<ran, outBase, pending, file, stateFile, memory, taken, onFail, shown>>
    BY <1>3 DEF Reload, Goes, disk
  <2>2. taken[p] \in Catalogue /\ db \in Catalogue
    BY <1>0, <1>1 DEF SyncTypeOK
  <2>3. /\ db' \in Catalogue
        /\ \A e \in Entry : \/ taken[p][e] = db'[e]
                            \/ e \in ran /\ taken[p][e] = "absent" /\ db'[e] = "disabled"
    BY <2>1, <2>2 DEF Restored, Catalogue, Standing
  <2>4. SyncTypeOK'
    BY <1>0, <2>1, <2>3 DEF SyncTypeOK
  <2>5. OneAtWork' /\ HashesKnown' /\ BaseAgrees'
    <3>1. OneAtWork'
      BY <1>0, <1>1, <2>1 DEF SyncTypeOK, OneAtWork
    <3>2. HashesKnown'
      BY <1>0, <2>1 DEF HashesKnown
    <3> QED BY <2>1, <3>1, <3>2 DEF BaseAgrees
  <2>6. \A q \in Process : AtWork(q)'
    <3> SUFFICES ASSUME NEW q \in Process PROVE AtWork(q)'
      OBVIOUS
    <3>1. CASE q = p
      <4>1. at'[p] = "state" /\ taken'[p] = taken[p] /\ onFail'[p] = onFail[p] /\ db' # Nil
        BY <1>0, <2>1, <2>3 DEF SyncTypeOK
      <4>2. Agrees(taken[p], db)'
        BY <2>1, <2>3, <4>1 DEF Agrees
      <4>3. taken[p] \in shown /\ taken'[p] \in held' /\ shown' = shown
        BY <1>0, <2>1, <4>1 DEF AtWork
      <4>4. onFail[p] = "idle" => outBase' # Nil
        BY <1>0, <2>1 DEF AtWork
      <4> QED BY <1>1, <3>1, <4>1, <4>2, <4>3, <4>4 DEF AtWork
    <3>2. CASE q # p
      <4>1. at'[q] = at[q] /\ at[q] \in {"off", "idle"} /\ db' # Nil
        BY <1>0, <1>1, <2>1, <2>3, <3>2 DEF SyncTypeOK
      <4> QED BY <1>0, <1>1, <2>1, <4>1 DEF AtWork
    <3> QED BY <3>1, <3>2
  <2> QED BY <2>4, <2>5, <2>6 DEF SyncInv
<1>4. CASE WriteState(p)
  <2>1. /\ at[p] = "state" /\ stateFile' = taken[p] /\ memory' = [memory EXCEPT ![p] = taken[p]]
        /\ at' = [at EXCEPT ![p] = "confirm"]
        /\ UNCHANGED <<ran, db, ahead, outBase, pending, file, taken, onFail, held, shown>>
    BY <1>4 DEF WriteState, Goes, outbox
  <2>2. SyncTypeOK'
    BY <1>0, <2>1 DEF SyncTypeOK
  <2>3. taken[p] \in held \cap shown
    BY <1>0, <2>1 DEF AtWork
  <2>4. OneAtWork' /\ HashesKnown' /\ BaseAgrees'
    BY <1>0, <1>1, <2>1, <2>3 DEF SyncTypeOK, OneAtWork, HashesKnown, BaseAgrees, Agrees
  <2>5. \A q \in Process : AtWork(q)'
    BY <1>0, <1>1, <2>1 DEF SyncTypeOK, AtWork, Agrees
  <2> QED BY <2>2, <2>4, <2>5 DEF SyncInv
<1>5. CASE Confirm(p)
  <2>1. /\ at[p] = "confirm" /\ ahead' = FALSE /\ outBase' = taken[p] /\ pending' = Nil
        /\ taken' = [taken EXCEPT ![p] = Nil]
        /\ at' = [at EXCEPT ![p] = IF onFail[p] = "exit" THEN "off" ELSE "idle"]
        /\ UNCHANGED <<ran, db, file, stateFile, memory, onFail, held, shown>>
    BY <1>5 DEF Confirm, Goes, disk
  <2>2. SyncTypeOK'
    BY <1>0, <2>1 DEF SyncTypeOK
  <2>3. taken[p] \in held \cap shown /\ Agrees(taken[p], db)
    BY <1>0, <2>1 DEF AtWork
  <2>4. OneAtWork' /\ HashesKnown' /\ BaseAgrees'
    BY <1>0, <1>1, <2>1, <2>3 DEF SyncTypeOK, OneAtWork, HashesKnown, BaseAgrees, Agrees
  <2>5. \A q \in Process : AtWork(q)'
    BY <1>0, <1>1, <2>1 DEF SyncTypeOK, AtWork, Agrees
  <2> QED BY <2>2, <2>4, <2>5 DEF SyncInv
<1> QED BY <1>2, <1>3, <1>4, <1>5

\* A process that stops, fails or crashes loses what it was about to do.
LEMMA BreakStep ==
  ASSUME SyncInv, NEW p \in Process, WriteFails(p) \/ Crash(p) \/ Stop(p)
  PROVE  SyncInv'
<1>0. SyncTypeOK /\ OneAtWork /\ HashesKnown /\ BaseAgrees /\ \A q \in Process : AtWork(q)
  BY DEF SyncInv
<1>1. /\ \E rest \in {"off", "idle"} :
           at' = [at EXCEPT ![p] = rest] /\ (rest = "idle" => outBase # Nil)
      /\ taken' \in {taken, [taken EXCEPT ![p] = Nil]}
      /\ UNCHANGED <<ran, db, ahead, outBase, pending, file, stateFile, memory, onFail, held, shown>>
  <2>1. CASE WriteFails(p)
    BY <1>0, <2>1 DEF WriteFails, Goes, outbox, disk, AtWork, SyncTypeOK
  <2>2. CASE Crash(p) \/ Stop(p)
    BY <2>2 DEF Crash, Stop, Goes, outbox, disk
  <2> QED BY <2>1, <2>2
<1>2. PICK rest \in {"off", "idle"} :
        at' = [at EXCEPT ![p] = rest] /\ (rest = "idle" => outBase # Nil)
  BY <1>1
<1>3. SyncTypeOK'
  BY <1>0, <1>1, <1>2 DEF SyncTypeOK
<1>4. OneAtWork' /\ HashesKnown' /\ BaseAgrees'
  BY <1>0, <1>1, <1>2 DEF SyncTypeOK, OneAtWork, HashesKnown, BaseAgrees, Agrees
<1>5. at[p] # "off" /\ db # Nil
  BY <1>0 DEF AtWork, WriteFails, Crash, Stop
<1>6. \A q \in Process : AtWork(q)'
  <2> SUFFICES ASSUME NEW q \in Process PROVE AtWork(q)'
    OBVIOUS
  <2>1. CASE q = p
    BY <1>0, <1>1, <1>2, <1>5, <2>1 DEF AtWork, SyncTypeOK
  <2>2. CASE q # p
    <3>1. at'[q] = at[q] /\ taken'[q] = taken[q]
      BY <1>0, <1>1, <1>2, <2>2 DEF SyncTypeOK
    <3>2. AtWork(q)
      BY <1>0
    <3> QED BY <1>1, <1>5, <3>1, <3>2 DEF AtWork, Agrees
  <2> QED BY <2>1, <2>2
<1> QED BY <1>3, <1>4, <1>6 DEF SyncInv


\* A person or a process changes the database, or the runs in it.
LEMMA ChangeStep ==
  ASSUME SyncInv,
         \/ \E e \in Entry, s \in Standing : Save(e, s) \/ SaveAside(e, s)
         \/ \E f \in FieldEntry : Analyse(f)
  PROVE  SyncInv'
<1> USE SyncAssumption
<1>0. SyncTypeOK /\ OneAtWork /\ HashesKnown /\ BaseAgrees /\ \A q \in Process : AtWork(q)
  BY DEF SyncInv
<1>1. at[Server] = "idle" /\ db # Nil /\ \A q \in Process : at[q] \in {"off", "idle"}
  BY <1>0 DEF Save, SaveAside, Analyse, AtRest, Apart, AtWork
<1>2. ASSUME NEW e \in Entry, NEW s \in Standing, Save(e, s) \/ SaveAside(e, s)
      PROVE  SyncInv'
  <2>1. /\ db' = [db EXCEPT ![e] = s] /\ held' = held \cup {db'} /\ ahead' = TRUE
        /\ at' \in {at, [at EXCEPT ![Server] = "save"]}
        /\ UNCHANGED <<ran, outBase, pending, file, stateFile, memory, taken, onFail, shown>>
    BY <1>2 DEF Save, SaveAside, Changed, Goes, disk, process
  <2>2. db' \in Catalogue
    BY <1>0, <1>1, <2>1 DEF SyncTypeOK, Catalogue
  <2>3. SyncTypeOK'
    BY <1>0, <2>1, <2>2 DEF SyncTypeOK
  <2>4. OneAtWork'
    BY <1>0, <1>1, <2>1 DEF SyncTypeOK, OneAtWork
  <2>5. HashesKnown' /\ BaseAgrees'
    BY <1>0, <2>1 DEF HashesKnown, BaseAgrees
  <2>6. \A q \in Process : AtWork(q)'
    <3> SUFFICES ASSUME NEW q \in Process PROVE AtWork(q)'
      OBVIOUS
    <3>1. at'[q] \in {at[q], "save"} /\ (at'[q] = "save" => at[Server] = "idle")
          /\ at'[q] \notin {"fresh", "write", "state", "confirm", "reload"}
      BY <1>0, <1>1, <2>1 DEF SyncTypeOK
    <3>2. db' # Nil
      BY <2>2
    <3>3. AtWork(q) /\ AtWork(Server)
      BY <1>0
    <3> QED BY <2>1, <3>1, <3>2, <3>3 DEF AtWork
  <2> QED BY <2>3, <2>4, <2>5, <2>6 DEF SyncInv
<1>3. ASSUME NEW f \in FieldEntry, Analyse(f)
      PROVE  SyncInv'
  <2>1. /\ ran' = ran \cup {f}
        /\ UNCHANGED <<db, ahead, outBase, pending, file, stateFile, memory, at, taken, onFail, held, shown>>
    BY <1>3 DEF Analyse, outbox, disk, process
  <2>2. SyncTypeOK' /\ OneAtWork' /\ HashesKnown' /\ BaseAgrees'
    BY <1>0, <2>1 DEF SyncTypeOK, OneAtWork, HashesKnown, BaseAgrees, Agrees
  <2>3. \A q \in Process : AtWork(q)'
    BY <1>0, <1>1, <2>1 DEF AtWork
  <2> QED BY <2>2, <2>3 DEF SyncInv
<1> QED BY <1>2, <1>3

\* Requests and commands that start an export or a restore.
LEMMA RequestStep ==
  ASSUME SyncInv,
         ExportAfterSave \/ \E p \in Process : Export(p) \/ ToolRestore(p)
  PROVE  SyncInv'
<1> USE SyncAssumption
<1>0. SyncTypeOK /\ OneAtWork /\ HashesKnown /\ BaseAgrees /\ \A q \in Process : AtWork(q)
  BY DEF SyncInv
<1>1. CASE ExportAfterSave
  <2>1. /\ at[Server] = "save" /\ db # Nil /\ outBase # Nil /\ Apart(Server)
        /\ UNCHANGED <<ran, db, ahead, outBase, file, stateFile, memory, held, shown>>
    BY <1>0, <1>1 DEF ExportAfterSave, disk, AtWork, OneAtWork, Apart
  <2>2. CASE Clean(memory[Server]) /\ BeginExport(Server, "idle")
    <3>1. file \in held \cup {Nil}
      BY <1>0, <2>1, <2>2 DEF Clean, Or, HashesKnown
    <3> QED BY <2>1, <2>2, <3>1, ExportBegins
  <2>3. CASE Goes(Server, "idle") /\ UNCHANGED <<ran, pending, taken, onFail>>
    <3>1. at' = [at EXCEPT ![Server] = "idle"]
      BY <2>3 DEF Goes
    <3>2. SyncTypeOK' /\ OneAtWork'
      BY <1>0, <2>1, <2>3, <3>1 DEF SyncTypeOK, OneAtWork
    <3>3. HashesKnown' /\ BaseAgrees'
      BY <1>0, <2>1, <2>3 DEF HashesKnown, BaseAgrees, Agrees
    <3>4. \A q \in Process : AtWork(q)'
      BY <1>0, <2>1, <2>3, <3>1 DEF SyncTypeOK, AtWork, Agrees
    <3> QED BY <3>2, <3>3, <3>4 DEF SyncInv
  <2> QED BY <1>1, <2>2, <2>3 DEF ExportAfterSave
<1>2. ASSUME NEW p \in Process, Export(p)
      PROVE  SyncInv'
  <2>1. /\ at[p] = "idle" /\ db # Nil /\ outBase # Nil /\ Apart(p) /\ Clean(memory[p])
        /\ BeginExport(p, IF p = Server THEN "idle" ELSE "off")
        /\ UNCHANGED <<ran, db, ahead, outBase, file, stateFile, memory, held, shown>>
    BY <1>0, <1>2 DEF Export, AtRest, disk, AtWork
  <2>2. file \in held \cup {Nil}
    BY <1>0, <2>1 DEF Clean, Or, HashesKnown
  <2> QED BY <2>1, <2>2, ExportBegins
<1>3. ASSUME NEW p \in Process, ToolRestore(p)
      PROVE  SyncInv'
  <2>1. /\ p # Server /\ db # Nil /\ file # Nil /\ Apart(p) /\ BeginRestore(p, "exit")
        /\ memory' = [memory EXCEPT ![p] = Or(outBase, stateFile)]
        /\ UNCHANGED <<ran, db, ahead, outBase, pending, file, stateFile, held, shown>>
    BY <1>3 DEF ToolRestore, outbox, disk
  <2>2. Or(outBase, stateFile) \in {outBase, stateFile}
    BY DEF Or
  <2> DEFINE m == Or(outBase, stateFile)
  <2>3. memory' = [memory EXCEPT ![p] = m] /\ m \in {outBase, stateFile}
    BY <2>1, <2>2
  <2> HIDE DEF m
  <2> QED BY <2>1, <2>3, RestoreBegins
<1> QED BY <1>1, <1>2, <1>3

\* Git changes the snapshot while no process is at work.
LEMMA PullStep ==
  ASSUME SyncInv, NEW c \in Catalogue \cup {Nil}, Pull(c)
  PROVE  SyncInv'
<1>0. SyncTypeOK /\ OneAtWork /\ HashesKnown /\ BaseAgrees /\ \A q \in Process : AtWork(q)
  BY DEF SyncInv
<1>1. /\ \A q \in Process : at[q] \in {"off", "idle", "save"}
      /\ file' = c /\ shown' = shown \cup {c}
      /\ UNCHANGED <<ran, db, ahead, outBase, pending, stateFile, memory, at, taken, onFail, held>>
  BY DEF Pull, outbox, process
<1>2. SyncTypeOK' /\ OneAtWork' /\ HashesKnown' /\ BaseAgrees'
  BY <1>0, <1>1 DEF SyncTypeOK, OneAtWork, HashesKnown, BaseAgrees, Agrees
<1>3. \A q \in Process : AtWork(q)'
  BY <1>0, <1>1 DEF AtWork
<1> QED BY <1>2, <1>3 DEF SyncInv

LEMMA SyncStep ==
  ASSUME SyncInv, [SyncNext]_syncVars
  PROVE  SyncInv'
<1>1. CASE UNCHANGED syncVars
  BY <1>1 DEF syncVars, outbox, disk, process, SyncInv, SyncTypeOK, OneAtWork, HashesKnown,
              BaseAgrees, AtWork, Agrees
<1> QED BY <1>1, OpenStep, InitializeStep, WriteStep, BreakStep, ChangeStep, RequestStep, PullStep
        DEF SyncNext, Step

\* SyncInv holds throughout, for any catalogue, processes and bounds: the
\* outbox, the state file and the memory of each process only ever hold what
\* was in the database and in the snapshot.
THEOREM SyncInvariant == SyncSpec => []SyncInv
BY SyncInitially, SyncStep, PTL DEF SyncSpec

\* When the page says that the snapshot is ready it holds what the database
\* does (getStatus against export, restore, crashes and git).
THEOREM ReadyStands == SyncSpec => []ReadyIsTrue
<1>1. SyncInv => ReadyIsTrue
  <2> SUFFICES ASSUME SyncInv PROVE ReadyIsTrue
    OBVIOUS
  <2>1. SUFFICES ASSUME AtRest(Server), SnapshotReady(Server), NEW e \in Entry
                 PROVE  \/ file[e] = db[e]
                        \/ e \in ran /\ file[e] = "absent" /\ db[e] = "disabled"
    BY DEF SyncInv, ReadyIsTrue
  <2>2. db # Nil /\ ~ahead /\ pending = Nil /\ Clean(memory[Server])
    BY <2>1, SyncAssumption DEF SyncInv, AtWork, AtRest, SnapshotReady
  <2>3. outBase # Nil /\ Agrees(outBase, db)
    BY <2>2 DEF SyncInv, BaseAgrees
  <2>4. file = outBase
    BY <2>2, <2>3 DEF Clean, Or
  <2> QED BY <2>3, <2>4 DEF Agrees
<1> QED BY <1>1, SyncInvariant, PTL

\* No edit is replaced unseen: an export overwrites only what the database
\* held, the start of the server replaces only what the snapshot held or the
\* seed (assertUnchanged, initialize).
THEOREM NothingReplacedUnseen == SyncSpec => ReplacesOnlyKnown
<1>1. ASSUME SyncInv, [SyncNext]_syncVars, Overwrites
      PROVE  file \in held
  <2>1. PICK p \in Process : at[p] = "write" /\ at'[p] = "state"
    BY <1>1 DEF Overwrites
  <2>2. file # Nil
    BY <1>1 DEF Overwrites
  <2> QED BY <1>1, <2>1, <2>2 DEF SyncInv, AtWork
<1>2. ASSUME SyncInv, [SyncNext]_syncVars, Replaces
      PROVE  db \in shown \cup {Seed}
  BY <1>2, SyncAssumption DEF Replaces, SyncInv, AtWork
<1> QED BY <1>1, <1>2, SyncInvariant, PTL DEF SyncSpec, ReplacesOnlyKnown

----------------------------------------------------------------------------
(* Hot topics (HotTopic). *)

InTurn == {"waiting", "extract", "match"}

\* An item is named by its question, also where it is only selected.
IdsName == /\ \A i \in items : i.id[2] = i.q
           /\ \A i \in snap.items : i.id[2] = i.q
           /\ \A c \in Capture : \A i \in sel[c] : i.id[2] = i.q

\* The queue holds each capture that has begun and not settled once; those
\* behind the head wait.
QueueIsWhole ==
  /\ \A m, n \in 1 .. Len(queue) : queue[m] = queue[n] => m = n
  /\ \A c \in Capture : phase[c] \in InTurn <=> \E n \in 1 .. Len(queue) : queue[n] = c
  /\ \A n \in 2 .. Len(queue) : phase[queue[n]] = "waiting"

\* A newer capture of a record was only begun when the older was over.
NewestLives ==
  \A c, d \in Capture : rec(d) = rec(c) /\ d[2] > c[2] /\ phase[d] # "none"
                           => phase[c] # "none" /\ ~Live(c)

\* A question has one row, and a completed run the links of its record.
RowsAgree ==
  /\ \A i, j \in items : i.q = j.q => i = j
  /\ \A r \in Record : run[r].st = "completed" => link[r] = run[r].items

HotInv == HotTypeOK /\ IdsName /\ QueueIsWhole /\ NewestLives /\ RowsAgree

LEMMA HotInitially == HotInit => HotInv
<1> SUFFICES ASSUME HotInit PROVE HotInv
  OBVIOUS
<1>1. PICK known \in SUBSET Question, hot \in BOOLEAN :
        /\ snap = [hot |-> hot, items |-> {Given(q) : q \in known}]
        /\ base = IF hot THEN "enabled" ELSE "absent"
        /\ items = IF hot THEN snap.items ELSE {}
  BY DEF HotInit
<1>2. \A q \in Question : Given(q) \in Item /\ Given(q).id[2] = Given(q).q /\ Given(q).q = q
  BY DEF Given, Item, ItemId
<1>3. snap.items \subseteq Item /\ items \subseteq snap.items
      /\ \A i \in snap.items : i = Given(i.q) /\ i.id[2] = i.q
  BY <1>1, <1>2
<1>4. HotTypeOK
  BY <1>1, <1>3 DEF HotTypeOK, HotInit, Item, RunStatus
<1>5. IdsName
  BY <1>3 DEF IdsName, HotInit
<1>6. QueueIsWhole /\ NewestLives
  BY DEF QueueIsWhole, NewestLives, HotInit, InTurn
<1>7. RowsAgree
  BY <1>3 DEF RowsAgree, HotInit
<1> QED BY <1>4, <1>5, <1>6, <1>7 DEF HotInv

\* The head of the queue is the capture that is between its first call and its end.
LEMMA HeadIsBusy ==
  ASSUME HotInv, NEW c \in Capture, phase[c] \in {"extract", "match"} \/ MyTurn(c)
  PROVE  queue # <<>> /\ Head(queue) = c /\ queue[1] = c /\ phase[c] \in InTurn
<1>1. queue \in Seq(Capture) /\ QueueIsWhole
  BY DEF HotInv, HotTypeOK
<1>2. CASE MyTurn(c)
  BY <1>1, <1>2 DEF MyTurn, QueueIsWhole
<1>3. CASE phase[c] \in {"extract", "match"}
  <2>1. PICK n \in 1 .. Len(queue) : queue[n] = c
    BY <1>1, <1>3 DEF QueueIsWhole, InTurn
  <2>2. n = 1
    BY <1>1, <1>3, <2>1 DEF QueueIsWhole
  <2> QED BY <1>1, <1>3, <2>1, <2>2 DEF InTurn
<1> QED BY <1>2, <1>3

\* A capture that settles leaves the queue whole and was the newest or is over.
LEMMA SettleKeeps ==
  ASSUME HotInv, NEW c \in Capture, queue # <<>>, Head(queue) = c, phase[c] \in InTurn, Settle(c),
         UNCHANGED <<snap, aborted>>
  PROVE  /\ QueueIsWhole' /\ NewestLives'
         /\ queue' \in Seq(Capture)
         /\ phase' \in [Capture -> {"none", "waiting", "extract", "match", "settled"}]
         /\ todo' \in [Capture -> SUBSET Question] /\ sel' \in [Capture -> SUBSET Item]
         /\ \A d \in Capture : sel'[d] \subseteq sel[d]
<1>0. HotTypeOK /\ QueueIsWhole /\ NewestLives
  BY DEF HotInv
<1>1. /\ phase' = [phase EXCEPT ![c] = "settled"] /\ queue' = Tail(queue)
      /\ todo' = [todo EXCEPT ![c] = {}] /\ sel' = [sel EXCEPT ![c] = {}]
  BY DEF Settle, Sets
<1>2. /\ queue' \in Seq(Capture) /\ Len(queue') = Len(queue) - 1
      /\ \A n \in 1 .. Len(queue') : queue'[n] = queue[n + 1]
      /\ queue[1] = c /\ Len(queue) \in Nat /\ Len(queue) > 0
  BY <1>0, <1>1 DEF HotTypeOK
<1>3. \A d \in Capture : phase'[d] = IF d = c THEN "settled" ELSE phase[d]
  BY <1>0, <1>1 DEF HotTypeOK
<1>4. \A m, n \in 1 .. Len(queue') : queue'[m] = queue'[n] => m = n
  BY <1>0, <1>2 DEF QueueIsWhole
<1>5. \A n \in 2 .. Len(queue) : queue[n] # c
  BY <1>0, <1>2 DEF QueueIsWhole
<1>6. ASSUME NEW d \in Capture
      PROVE  phase'[d] \in InTurn <=> \E n \in 1 .. Len(queue') : queue'[n] = d
  <2>1. CASE d = c
    BY <1>2, <1>3, <1>5, <2>1 DEF InTurn
  <2>2. CASE d # c
    <3>1. phase[d] \in InTurn <=> \E n \in 1 .. Len(queue) : queue[n] = d
      BY <1>0 DEF QueueIsWhole
    <3>2. ASSUME NEW n \in 1 .. Len(queue), queue[n] = d
          PROVE  \E m \in 1 .. Len(queue') : queue'[m] = d
      <4>1. n # 1 /\ n - 1 \in 1 .. Len(queue')
        BY <1>2, <2>2, <3>2
      <4>2. queue'[n - 1] = queue[(n - 1) + 1] /\ (n - 1) + 1 = n
        BY <1>2, <4>1
      <4> QED BY <3>2, <4>1, <4>2
    <3>3. ASSUME NEW m \in 1 .. Len(queue'), queue'[m] = d
          PROVE  \E n \in 1 .. Len(queue) : queue[n] = d
      BY <1>2, <3>3
    <3> QED BY <1>3, <2>2, <3>1, <3>2, <3>3
  <2> QED BY <2>1, <2>2
<1>7. \A n \in 2 .. Len(queue') : phase'[queue'[n]] = "waiting"
  <2> SUFFICES ASSUME NEW n \in 2 .. Len(queue') PROVE phase'[queue'[n]] = "waiting"
    OBVIOUS
  <2>1. n + 1 \in 2 .. Len(queue) /\ n \in 1 .. Len(queue')
    BY <1>2
  <2>2. queue'[n] = queue[n + 1] /\ queue[n + 1] \in Capture /\ queue[n + 1] # c
    BY <1>0, <1>2, <1>5, <2>1 DEF HotTypeOK
  <2> QED BY <1>0, <1>3, <2>1, <2>2 DEF QueueIsWhole
<1>8. NewestLives'
  BY <1>0, <1>3 DEF NewestLives, Live, InTurn
<1> QED BY <1>0, <1>1, <1>2, <1>4, <1>6, <1>7, <1>8 DEF QueueIsWhole, HotTypeOK


\* The steps of the queue.
LEMMA QueueStep ==
  ASSUME HotInv, NEW c \in Capture, Enqueue(c) \/ AbortCapture(c) \/ BeginCapture(c) \/ Throw(c)
  PROVE  HotInv'
<1>0. HotTypeOK /\ IdsName /\ QueueIsWhole /\ NewestLives /\ RowsAgree
  BY DEF HotInv
<1>1. CASE Enqueue(c)
  <2>1. /\ phase[c] = "none" /\ queue' = Append(queue, c)
        /\ \A d \in Capture : phase'[d] = IF d = c THEN "waiting" ELSE phase[d]
        /\ UNCHANGED <<snap, base, items, on, link, run, todo, sel, aborted>>
    BY <1>0, <1>1 DEF Enqueue, Sets, HotTypeOK, knowledge
  <2>2. /\ queue \in Seq(Capture) /\ queue' \in Seq(Capture) /\ Len(queue') = Len(queue) + 1
        /\ \A n \in 1 .. Len(queue) : queue'[n] = queue[n]
        /\ queue'[Len(queue) + 1] = c /\ Len(queue) \in Nat
    BY <1>0, <2>1 DEF HotTypeOK
  <2>3. \A n \in 1 .. Len(queue) : queue[n] # c
    BY <1>0, <2>1 DEF QueueIsWhole, InTurn
  <2>4. \A m, n \in 1 .. Len(queue') : queue'[m] = queue'[n] => m = n
    BY <1>0, <2>2, <2>3 DEF QueueIsWhole
  <2>5. ASSUME NEW d \in Capture
        PROVE  phase'[d] \in InTurn <=> \E n \in 1 .. Len(queue') : queue'[n] = d
    BY <1>0, <2>1, <2>2, <2>3 DEF QueueIsWhole, InTurn
  <2>6. \A n \in 2 .. Len(queue') : phase'[queue'[n]] = "waiting"
    BY <1>0, <2>1, <2>2, <2>3 DEF QueueIsWhole, HotTypeOK
  <2>7. NewestLives'
    <3>1. \A d \in Capture : (rec(d) = rec(c) /\ d # c) =>
             IF d[2] < c[2] THEN phase[d] # "none" /\ ~Live(d) ELSE phase[d] = "none"
      BY <1>1 DEF Enqueue
    <3>2. \A d \in Capture : d # c => Live(d)' = Live(d)
      BY <2>1 DEF Live
    <3>3. \A d, e \in Capture : d[2] \in Nat /\ e[2] \in Nat /\ (d[2] > e[2] => d # e)
      BY HotAssumption DEF Capture
    <3> SUFFICES ASSUME NEW e \in Capture, NEW d \in Capture, rec(d) = rec(e), d[2] > e[2],
                        phase'[d] # "none"
                 PROVE  phase'[e] # "none" /\ ~Live(e)'
      BY DEF NewestLives, rec
    <3>4. CASE d = c
      BY <2>1, <3>1, <3>2, <3>3, <3>4
    <3>5. CASE e = c
      BY <2>1, <3>1, <3>3, <3>5
    <3> QED BY <1>0, <2>1, <3>2, <3>4, <3>5 DEF NewestLives
  <2>8. HotTypeOK'
    BY <1>0, <1>1, <2>1, <2>2 DEF HotTypeOK, Enqueue, Sets
  <2> QED BY <1>0, <2>1, <2>4, <2>5, <2>6, <2>7, <2>8 DEF HotInv, IdsName, QueueIsWhole, RowsAgree
<1>2. CASE AbortCapture(c)
  BY <1>0, <1>2 DEF AbortCapture, HotInv, HotTypeOK, IdsName, QueueIsWhole, NewestLives, RowsAgree,
                    Live, knowledge, capture
<1>3. CASE BeginCapture(c)
  <2>1. queue[1] = c /\ phase[c] \in InTurn
    BY <1>3, HeadIsBusy DEF BeginCapture
  <2>2. /\ \A d \in Capture : phase'[d] = IF d = c THEN "extract" ELSE phase[d]
        /\ UNCHANGED <<snap, base, items, on, link, run, queue, todo, sel, aborted>>
    BY <1>0, <1>3 DEF BeginCapture, Sets, HotTypeOK, knowledge
  <2>3. \A n \in 2 .. Len(queue) : queue[n] # c
    BY <1>0, <2>1 DEF QueueIsWhole, HotTypeOK
  <2>4. QueueIsWhole'
    BY <1>0, <2>1, <2>2, <2>3 DEF QueueIsWhole, InTurn, HotTypeOK
  <2>5. NewestLives'
    BY <1>0, <2>1, <2>2 DEF NewestLives, Live, InTurn
  <2>6. HotTypeOK'
    BY <1>0, <1>3, <2>2 DEF HotTypeOK, BeginCapture, Sets
  <2> QED BY <1>0, <2>2, <2>4, <2>5, <2>6 DEF HotInv, IdsName, RowsAgree
<1>4. CASE Throw(c)
  <2>1. queue # <<>> /\ Head(queue) = c /\ phase[c] \in InTurn
    BY <1>4, HeadIsBusy DEF Throw
  <2>2. Settle(c) /\ UNCHANGED <<snap, base, items, on, link, run, aborted, changes>>
    BY <1>4 DEF Throw, knowledge
  <2> QED BY <1>0, <2>1, <2>2, SettleKeeps DEF HotInv, HotTypeOK, IdsName, RowsAgree
<1> QED BY <1>1, <1>2, <1>3, <1>4

\* What a capture may select has a question and is named by it.
LEMMA CandidatesAreItems ==
  ASSUME HotInv, NEW c \in Capture
  PROVE  Candidates(c) \subseteq Item /\ \A i \in Candidates(c) : i.id[2] = i.q
BY DEF Candidates, HotInv, HotTypeOK, IdsName

\* The steps of the model's answers.
LEMMA AnswerStep ==
  ASSUME HotInv, NEW c \in Capture, Extracted(c) \/ \E q \in Question : Match(c, q)
  PROVE  HotInv'
<1>0. HotTypeOK /\ IdsName /\ QueueIsWhole /\ NewestLives /\ RowsAgree
  BY DEF HotInv
<1>1. CASE Extracted(c)
  <2>1. /\ phase[c] = "extract"
        /\ \A d \in Capture : phase'[d] = IF d = c THEN "match" ELSE phase[d]
        /\ UNCHANGED <<snap, base, items, on, link, run, queue, sel, aborted>>
    BY <1>0, <1>1 DEF Extracted, Sets, HotTypeOK, knowledge
  <2>2. QueueIsWhole'
    BY <1>0, <2>1 DEF QueueIsWhole, InTurn, HotTypeOK
  <2>3. NewestLives'
    BY <1>0, <2>1 DEF NewestLives, Live
  <2>4. HotTypeOK'
    BY <1>0, <1>1, <2>1 DEF HotTypeOK, Extracted, Sets
  <2> QED BY <1>0, <2>1, <2>2, <2>3, <2>4 DEF HotInv, IdsName, RowsAgree
<1>2. ASSUME NEW q \in Question, Match(c, q)
      PROVE  HotInv'
  <2>1. Created(c, q) \in Item /\ Created(c, q).id[2] = Created(c, q).q
    BY DEF Created, Item, ItemId
  <2>2. PICK i \in Candidates(c) \cup {Created(c, q)} : Chooses(c, q, i)
    BY <1>2 DEF Match, Exact, Judged
  <2>3. i \in Item /\ i.id[2] = i.q
    BY <2>1, <2>2, CandidatesAreItems
  <2>4. /\ todo' = [todo EXCEPT ![c] = @ \ {q}] /\ sel' = [sel EXCEPT ![c] = @ \cup {i}]
        /\ UNCHANGED <<snap, base, items, on, link, run, queue, phase, aborted>>
    BY <2>2 DEF Chooses, knowledge
  <2>5. HotTypeOK'
    BY <1>0, <2>3, <2>4 DEF HotTypeOK
  <2>6. IdsName'
    BY <1>0, <2>3, <2>4 DEF IdsName, HotTypeOK
  <2> QED BY <1>0, <2>4, <2>5, <2>6 DEF HotInv, QueueIsWhole, NewestLives, RowsAgree, Live
<1> QED BY <1>1, <1>2

\* The ends of a capture.
LEMMA EndStep ==
  ASSUME HotInv, NEW c \in Capture,
         Commit(c) \/ Refuse(c) \/ \E st \in {"failed", "needs_review"} : Fail(c, st)
  PROVE  HotInv'
<1>0. HotTypeOK /\ IdsName /\ QueueIsWhole /\ NewestLives /\ RowsAgree
  BY DEF HotInv
<1>1. queue # <<>> /\ Head(queue) = c /\ phase[c] \in InTurn
  BY HeadIsBusy DEF Commit, Refuse, Fail
<1>2. Settle(c) /\ UNCHANGED <<snap, aborted>>
  BY DEF Commit, Refuse, Fail
<1>3. /\ QueueIsWhole' /\ NewestLives'
      /\ queue' \in Seq(Capture)
      /\ phase' \in [Capture -> {"none", "waiting", "extract", "match", "settled"}]
      /\ todo' \in [Capture -> SUBSET Question] /\ sel' \in [Capture -> SUBSET Item]
      /\ \A d \in Capture : sel'[d] \subseteq sel[d]
  BY <1>1, <1>2, SettleKeeps
<1>4. CASE Refuse(c) \/ \E st \in {"failed", "needs_review"} : Fail(c, st)
  <2>1. PICK st \in {"failed", "needs_review", "base stopped", "question stopped"} :
          FinishRun(rec(c), st, {})
    BY <1>4 DEF Refuse, Fail
  <2>2. UNCHANGED <<base, items, on, link>>
    BY <1>4 DEF Refuse, Fail, knowledge
  <2>3. \A r \in Record : run'[r].st = "completed" => run'[r] = run[r]
    BY <1>0, <2>1 DEF FinishRun, HotTypeOK
  <2>4. run' \in [Record -> [st : RunStatus, items : SUBSET Item]]
    BY <1>0, <2>1 DEF FinishRun, HotTypeOK, RunStatus
  <2> QED BY <1>0, <1>2, <1>3, <2>2, <2>3, <2>4 DEF HotInv, HotTypeOK, IdsName, RowsAgree
<1>5. CASE Commit(c)
  <2>1. /\ ~Taken(c) /\ items' = items \cup New(c)
        /\ on' = on \cup {i.id : i \in New(c)}
        /\ base' = IF New(c) # {} THEN "enabled" ELSE base
        /\ link' = [link EXCEPT ![rec(c)] = sel[c]]
        /\ run' = [run EXCEPT ![rec(c)] = [st |-> "completed", items |-> sel[c]]]
    BY <1>5 DEF Commit, FinishRun
  <2>2. New(c) \subseteq sel[c] /\ sel[c] \subseteq Item /\ rec(c) \in Record
    BY <1>0 DEF New, HotTypeOK, Capture, rec
  <2>3. HotTypeOK'
    <3>1. items' \subseteq Item /\ on' \subseteq ItemId
      BY <1>0, <2>1, <2>2 DEF HotTypeOK, Item
    <3>2. link' \in [Record -> SUBSET Item]
          /\ run' \in [Record -> [st : RunStatus, items : SUBSET Item]]
      BY <1>0, <2>1, <2>2 DEF HotTypeOK, RunStatus
    <3> QED BY <1>0, <1>2, <1>3, <2>1, <3>1, <3>2 DEF HotTypeOK
  <2>4. IdsName'
    BY <1>0, <1>2, <1>3, <2>1, <2>2 DEF IdsName
  <2>5. \A i, j \in items' : i.q = j.q => i = j
    <3>1. \A i, j \in New(c) : i.q = j.q => i = j
      <4> SUFFICES ASSUME NEW i \in New(c), NEW j \in New(c), i.q = j.q PROVE i = j
        OBVIOUS
      <4>1. i.id[1] = c /\ j.id[1] = c /\ i.id[2] = i.q /\ j.id[2] = j.q /\ i \in Item /\ j \in Item
        BY <1>0, <2>2 DEF New, IdsName
      <4>2. i.id = <<c, i.q>> /\ j.id = <<c, j.q>>
        BY <4>1 DEF Item, ItemId
      <4> QED BY <4>1, <4>2 DEF Item
    <3>2. \A i \in items, n \in New(c) : i.q # n.q
      BY <2>1 DEF Taken
    <3> QED BY <1>0, <2>1, <3>1, <3>2 DEF RowsAgree
  <2>6. \A r \in Record : run'[r].st = "completed" => link'[r] = run'[r].items
    BY <1>0, <2>1 DEF RowsAgree, HotTypeOK
  <2> QED BY <1>3, <2>3, <2>4, <2>5, <2>6 DEF HotInv, RowsAgree
<1> QED BY <1>4, <1>5


\* The operators' steps.
LEMMA OperatorStep ==
  ASSUME HotInv,
         (\E i \in items : SwitchItem(i) \/ DeleteItem(i)) \/ SwitchBase \/ DeleteBase
  PROVE  HotInv'
<1>0. HotTypeOK /\ IdsName /\ QueueIsWhole /\ NewestLives /\ RowsAgree
  BY DEF HotInv
<1>1. /\ UNCHANGED <<snap, link, run, queue, phase, todo, sel, aborted>>
      /\ items' \subseteq items
  BY DEF SwitchItem, DeleteItem, SwitchBase, DeleteBase, Change, capture
<1>2. base' \in {"absent", "enabled", "disabled"} /\ on' \subseteq ItemId
  BY <1>0 DEF SwitchItem, DeleteItem, SwitchBase, DeleteBase, Change, HotTypeOK, Item
<1> QED BY <1>0, <1>1, <1>2
        DEF HotInv, HotTypeOK, IdsName, QueueIsWhole, NewestLives, RowsAgree, Live

LEMMA HotStep ==
  ASSUME HotInv, [HotNext]_hotVars
  PROVE  HotInv'
<1>1. CASE UNCHANGED hotVars
  <2>1. UNCHANGED <<base, items, on, snap, link, run, queue, phase, todo, sel, aborted>>
    BY <1>1 DEF hotVars, knowledge, capture
  <2>2. HotTypeOK' /\ IdsName' /\ RowsAgree'
    BY <2>1 DEF HotInv, HotTypeOK, IdsName, RowsAgree
  <2>3. QueueIsWhole' /\ NewestLives'
    BY <2>1 DEF HotInv, QueueIsWhole, NewestLives, Live
  <2> QED BY <2>2, <2>3 DEF HotInv
<1> QED BY <1>1, QueueStep, AnswerStep, EndStep, OperatorStep DEF HotNext

\* HotInv holds throughout, for any records, questions, limits and bounds:
\* the queue of promises (serialized), the transaction and the operators'
\* edits keep it.
THEOREM CaptureInvariant == HotSpec => []HotInv
BY HotInitially, HotStep, PTL DEF HotSpec

\* The question base holds a question once, captures come one after the
\* other, and the links of a record are those of its newest completed run
\* (captureHotTopicQuestions).
THEOREM QuestionsOnce == HotSpec => []OneEntryPerQuestion
<1>1. HotInv => OneEntryPerQuestion
  <2> SUFFICES ASSUME HotInv PROVE OneEntryPerQuestion
    OBVIOUS
  <2>1. \A c, d \in Capture : {phase[c], phase[d]} \subseteq {"extract", "match"} => c = d
    <3> SUFFICES ASSUME NEW c \in Capture, NEW d \in Capture,
                        {phase[c], phase[d]} \subseteq {"extract", "match"}
                 PROVE  c = d
      OBVIOUS
    <3> QED BY HeadIsBusy
  <2> QED BY <2>1 DEF HotInv, RowsAgree, OneEntryPerQuestion
<1> QED BY <1>1, CaptureInvariant, PTL

\* A step of a capture that writes is one of the newest capture of its
\* record, which was not cancelled (assertAnalysisActive and the checks in
\* the transaction): a late answer writes nothing.
THEOREM LateWritesNothing == HotSpec => LateAnswerWritesNothing
<1>1. ASSUME HotInv, [HotNext]_hotVars,
             items' # items \/ link' # link \/ run' # run, queue' # queue
      PROVE  LET c == Head(queue)
             IN  c \notin aborted /\ \A d \in Capture : rec(d) = rec(c) /\ d[2] > c[2]
                                         => phase[d] = "none"
  <2>1. PICK c \in Capture :
          Commit(c) \/ Refuse(c) \/ \E st \in {"failed", "needs_review"} : Fail(c, st)
    BY <1>1 DEF HotNext, hotVars, knowledge, capture, Enqueue, AbortCapture, BeginCapture, Throw,
                Extracted, Match, Exact, Judged, Chooses, SwitchItem, DeleteItem, SwitchBase,
                DeleteBase, Change
  <2>2. phase[c] \in {"extract", "match"} /\ c \notin aborted
    BY <2>1 DEF Commit, Refuse, Fail, MayCommit
  <2>3. Head(queue) = c
    BY <1>1, <2>2, HeadIsBusy
  <2>4. Live(c)
    BY <2>2 DEF Live
  <2> QED BY <1>1, <2>2, <2>3, <2>4 DEF HotInv, NewestLives
<1> QED BY <1>1, CaptureInvariant, PTL DEF HotSpec, LateAnswerWritesNothing

----------------------------------------------------------------------------
(* Workbooks (KnowledgeImport). *)

Stages == {"free", "validating", "previewing", "pending", "checking", "importing", "imported", "gone"}
Uploads == [at : Stages, base : KBase \cup {NoKBase}, cols : Mapping \cup {NoMapping},
            seen : KBaseRow \cup {NoKBase}, book : Workbook \cup {NoMapping}]
Busy(now) == now.at \in {"validating", "previewing", "pending", "checking", "importing"}

ImportTyped ==
  /\ kb \in [KBase -> {Unused, NoKBase} \cup KBaseRow]
  /\ entries = [b \in KBase |-> entries[b]]
  /\ history \subseteq [base : KBase, up : Upload]
  /\ place \in [Upload -> Places]
  /\ lost \subseteq Upload
  /\ upload \in [Upload -> Uploads]
  /\ \A u \in Upload : Busy(upload[u]) => upload[u].book \in Workbook

\* The row of an import and its workbook stand together, and an import that was
\* finished is the only one of its workbook.
FilesFollow ==
  /\ \A h \in history : Exists(h.base) /\ place[h.up] = "kept" /\ upload[h.up].at = "imported"
  /\ \A h, g \in history : h.up = g.up => h = g
  /\ \A u \in lost : upload[u].at = "free"
  /\ \A u \in Upload :
       /\ upload[u].at = "validating" <=> place[u] = "uploaded"
       /\ upload[u].at \in {"previewing", "pending", "checking"} <=> place[u] = "staged"
       /\ upload[u].at = "importing" => place[u] = "kept"
       /\ place[u] = "kept" =>
            upload[u].at = "importing" \/ u \in lost \/ \E h \in history : h.up = u

\* What imports under way have read of one base agrees, also when the base is
\* deleted and made again meanwhile.
Aims(u) == upload[u].at = "importing" /\ upload[u].base # NoKBase
ColumnsStand ==
  \A u \in Upload : Aims(u) =>
    /\ upload[u].seen # NoKBase /\ kb[upload[u].base] # Unused
    /\ Exists(upload[u].base) => kb[upload[u].base].cols = upload[u].seen.cols
    /\ \A v \in Upload : Aims(v) /\ upload[v].base = upload[u].base
                           => upload[v].seen.cols = upload[u].seen.cols

LinesStand ==
  \A b \in KBase :
    /\ ~Exists(b) => entries[b] = {}
    /\ \A e \in entries[b] : e.line \in Line /\ e.on \in BOOLEAN /\ e.path = PathOf(kb[b].cols, e.line)
    /\ \A e \in entries[b] : e = [path |-> e.path, line |-> e.line, on |-> e.on]
    /\ \A e, f \in entries[b] : e.path = f.path => e = f

ImpInv == ImportTyped /\ FilesFollow /\ ColumnsStand /\ LinesStand

LEMMA KnowledgeInitially == KnowledgeInit => ImpInv
<1> SUFFICES ASSUME KnowledgeInit PROVE ImpInv
  OBVIOUS
<1>1. PICK b \in KBase, open \in BOOLEAN :
        kb = [c \in KBase |-> IF c = b THEN [cols |-> FirstColumns, on |-> open] ELSE Unused]
  BY DEF KnowledgeInit
<1>2. kb \in [KBase -> {Unused, NoKBase} \cup KBaseRow]
  BY <1>1 DEF KBaseRow, Cols
<1>3. Free \in Uploads /\ ~Busy(Free) /\ Free.at = "free"
  BY DEF Free, Uploads, Stages, Busy
<1>4. ImportTyped
  BY <1>2, <1>3 DEF ImportTyped, KnowledgeInit, Places
<1>5. FilesFollow
  BY <1>3 DEF FilesFollow, KnowledgeInit
<1>6. ColumnsStand
  BY <1>3 DEF ColumnsStand, Aims, KnowledgeInit
<1>7. LinesStand
  BY DEF LinesStand, KnowledgeInit
<1> QED BY <1>4, <1>5, <1>6, <1>7 DEF ImpInv

\* A request moves its upload and its file, and leaves the bases alone.
LEMMA RequestMoves ==
  ASSUME ImpInv, NEW u \in Upload, NEW now \in Uploads, NEW where \in Places,
         upload' = [upload EXCEPT ![u] = now], place' = [place EXCEPT ![u] = where],
         UNCHANGED <<storeVars, lost>>,
         upload[u].at # "imported", u \notin lost,
         now.at = "validating" <=> where = "uploaded",
         now.at \in {"previewing", "pending", "checking"} <=> where = "staged",
         now.at = "importing" <=> where = "kept",
         Busy(now) => now.book \in Workbook,
         now.at = "importing" /\ now.base # NoKBase => Exists(now.base) /\ now.seen = kb[now.base]
  PROVE  ImpInv'
<1>0. ImportTyped /\ FilesFollow /\ ColumnsStand /\ LinesStand
  BY DEF ImpInv
<1>1. UNCHANGED <<kb, entries, history, lost>>
  BY DEF storeVars
<1>2. /\ upload'[u] = now /\ place'[u] = where
      /\ \A v \in Upload : v # u => upload'[v] = upload[v] /\ place'[v] = place[v]
  BY <1>0 DEF ImportTyped
<1>3. ImportTyped'
  <2>1. upload' \in [Upload -> Uploads] /\ place' \in [Upload -> Places]
    BY <1>0 DEF ImportTyped
  <2>2. \A v \in Upload : Busy(upload[v])' => upload'[v].book \in Workbook
    BY <1>0, <1>2 DEF ImportTyped, Busy
  <2> QED BY <1>0, <1>1, <2>1, <2>2 DEF ImportTyped
<1>4. \A h \in history : h.up \in Upload /\ h.up # u
  BY <1>0 DEF FilesFollow, ImportTyped
<1>5. FilesFollow'
  <2>1. \A h \in history' : Exists(h.base)' /\ place'[h.up] = "kept" /\ upload'[h.up].at = "imported"
    BY <1>0, <1>1, <1>2, <1>4 DEF FilesFollow, Exists
  <2>2. \A h, g \in history' : h.up = g.up => h = g
    BY <1>0, <1>1 DEF FilesFollow
  <2>3. ASSUME NEW v \in Upload
        PROVE  /\ upload'[v].at = "validating" <=> place'[v] = "uploaded"
               /\ upload'[v].at \in {"previewing", "pending", "checking"} <=> place'[v] = "staged"
               /\ upload'[v].at = "importing" => place'[v] = "kept"
               /\ place'[v] = "kept" =>
                    upload'[v].at = "importing" \/ v \in lost' \/ \E h \in history' : h.up = v
    <3>1. CASE v = u
      BY <1>2, <3>1
    <3>2. CASE v # u
      <4>1. upload'[v] = upload[v] /\ place'[v] = place[v]
        BY <1>2, <3>2
      <4> QED BY <1>0, <1>1, <4>1 DEF FilesFollow
    <3> QED BY <3>1, <3>2
  <2>4. \A v \in lost' : upload'[v].at = "free"
    BY <1>0, <1>1, <1>2 DEF FilesFollow, ImportTyped
  <2> QED BY <2>1, <2>2, <2>3, <2>4 DEF FilesFollow
<1>6. ColumnsStand'
  <2> SUFFICES ASSUME NEW v \in Upload, Aims(v)'
               PROVE  /\ upload'[v].seen # NoKBase /\ kb'[upload'[v].base] # Unused
                      /\ Exists(upload[v].base)' => kb'[upload'[v].base].cols = upload'[v].seen.cols
                      /\ \A w \in Upload : Aims(w)' /\ upload'[w].base = upload'[v].base
                                             => upload'[w].seen.cols = upload'[v].seen.cols
    BY DEF ColumnsStand
  <2>1. \A w \in Upload : w # u => (Aims(w)' <=> Aims(w))
    BY <1>2 DEF Aims
  <2>2. Aims(u)' => Exists(now.base) /\ now.seen = kb[now.base]
    BY <1>2 DEF Aims
  <2>3. \A w \in Upload : Aims(w)' /\ Exists(upload'[w].base)
                            => upload'[w].seen # NoKBase /\ upload'[w].seen.cols = kb[upload'[w].base].cols
    BY <1>0, <1>2, <2>1, <2>2 DEF ColumnsStand, Exists
  <2>4. CASE Exists(upload'[v].base)
    BY <1>1, <2>3, <2>4 DEF Exists
  <2>5. CASE ~Exists(upload'[v].base)
    <3>1. v # u /\ \A w \in Upload : Aims(w)' /\ upload'[w].base = upload'[v].base => w # u
      BY <1>2, <2>2, <2>5
    <3>2. Aims(v) /\ upload'[v] = upload[v]
      BY <1>2, <2>1, <3>1
    <3>3. ASSUME NEW w \in Upload, Aims(w)', upload'[w].base = upload'[v].base
          PROVE  upload'[w].seen.cols = upload'[v].seen.cols
      <4>1. Aims(w) /\ upload'[w] = upload[w]
        BY <1>2, <2>1, <3>1, <3>3
      <4> QED BY <1>0, <3>2, <3>3, <4>1 DEF ColumnsStand
    <3>4. upload[v].seen # NoKBase /\ kb[upload[v].base] # Unused
      BY <1>0, <3>2 DEF ColumnsStand
    <3>5. ~Exists(upload[v].base)'
      BY <1>1, <2>5 DEF Exists
    <3> QED BY <1>1, <3>2, <3>3, <3>4, <3>5
  <2> QED BY <2>4, <2>5
<1>7. LinesStand'
  BY <1>0, <1>1 DEF LinesStand, Exists, PathOf
<1> QED BY <1>3, <1>5, <1>6, <1>7 DEF ImpInv

\* A request that fails gives its file back.
LEMMA RejectStep ==
  ASSUME ImpInv, NEW u \in Upload, Reject(u), Busy(upload[u])
  PROVE  ImpInv'
<1>1. u \notin lost /\ upload[u].at # "imported"
  BY DEF ImpInv, FilesFollow, Busy
<1> DEFINE now == [Free EXCEPT !.at = "gone"]
<1>2. now \in Uploads /\ now.at = "gone"
  BY DEF Free, Uploads, Stages
<1>3. PICK where \in Remains(place[u]) :
        /\ upload' = [upload EXCEPT ![u] = now] /\ place' = [place EXCEPT ![u] = where]
        /\ UNCHANGED <<storeVars, lost>>
  BY DEF Reject, Puts
<1>4. ~Busy(now) /\ now.at \notin {"validating", "previewing", "pending", "checking", "importing"}
  BY <1>2 DEF Busy
<1>5. where \in Places /\ where \in {"none", "leftover", "orphan"}
  BY DEF Remains, Places
<1> HIDE DEF now
<1> QED BY <1>1, <1>2, <1>3, <1>4, <1>5, RequestMoves

\* The steps of the two requests before the bases are written.
LEMMA UploadStep ==
  ASSUME ImpInv, NEW u \in Upload,
         \/ RequestPreview(u) \/ Invalid(u) \/ Stage(u) \/ Previewed(u) \/ Expire(u)
         \/ ConfirmImport(u) \/ Keep(u) \/ Refused(u)
  PROVE  ImpInv'
<1>0. ImportTyped /\ FilesFollow /\ ColumnsStand /\ LinesStand
  BY DEF ImpInv
<1>1. upload[u] \in Uploads
  BY <1>0 DEF ImportTyped, Uploads
<1>2. upload[u].at # "imported"
  <2>1. RequestPreview(u) => upload[u].at = "free"
    <3>1. Free.at = "free"
      BY DEF Free
    <3>2. RequestPreview(u) => upload[u] = Free
      BY DEF RequestPreview
    <3> QED BY <3>1, <3>2
  <2>2. ~RequestPreview(u) => Busy(upload[u])
    BY DEF Invalid, Stage, Previewed, Expire, ConfirmImport, Keep, Refused, Busy
  <2> QED BY <2>1, <2>2 DEF Busy
<1>3. CASE RequestPreview(u)
  <2>1. PICK b \in KBase \cup {NoKBase}, cols \in Mapping \cup {NoMapping}, w \in Workbook :
          upload' = [upload EXCEPT ![u] = [Free EXCEPT !.at = "validating", !.base = b,
                                                      !.cols = cols, !.book = w]]
    BY <1>3 DEF RequestPreview
  <2> DEFINE now == [Free EXCEPT !.at = "validating", !.base = b, !.cols = cols, !.book = w]
  <2>2. now \in Uploads /\ now.at = "validating" /\ now.book \in Workbook
    BY DEF Free, Uploads, Stages
  <2>3. /\ upload' = [upload EXCEPT ![u] = now] /\ place' = [place EXCEPT ![u] = "uploaded"]
        /\ UNCHANGED <<storeVars, lost>> /\ u \notin lost
    BY <1>3, <2>1 DEF RequestPreview, Puts
  <2> HIDE DEF now
  <2> QED BY <1>2, <2>2, <2>3, RequestMoves DEF Places
<1> DEFINE b == upload[u].base
<1>4. ASSUME NEW stage \in {"previewing", "importing"}, NEW where \in {"staged", "kept"},
             Busy(upload[u]), stage = "previewing" <=> where = "staged",
             stage = "importing" => b = NoKBase \/ Exists(b),
             upload' = [upload EXCEPT ![u].at = stage, ![u].seen = ReadBase(b)],
             Puts(u, where), UNCHANGED <<storeVars, lost>>
      PROVE  ImpInv'
  <2> DEFINE now == [upload[u] EXCEPT !.at = stage, !.seen = ReadBase(b)]
  <2>1. ReadBase(b) \in KBaseRow \cup {NoKBase} /\ (Exists(b) => ReadBase(b) = kb[b])
    <3>1. b \in KBase \cup {NoKBase}
      BY <1>1 DEF Uploads
    <3> QED BY <1>0, <3>1 DEF ReadBase, Exists, ImportTyped
  <2>2. now \in Uploads /\ now.at = stage /\ now.base = b /\ now.seen = ReadBase(b) /\ now.book = upload[u].book
    BY <1>1, <2>1 DEF Uploads, Stages
  <2>3. upload' = [upload EXCEPT ![u] = now] /\ place' = [place EXCEPT ![u] = where]
    BY <1>0, <1>4 DEF ImportTyped, Puts
  <2>4. upload[u].book \in Workbook /\ u \notin lost
    BY <1>0, <1>4 DEF ImportTyped, FilesFollow, Busy
  <2> HIDE DEF now, b
  <2> QED BY <1>2, <1>4, <2>1, <2>2, <2>3, <2>4, RequestMoves DEF Places
<1>5. ASSUME NEW now \in Uploads, now.at \in {"pending", "checking"}, now.book = upload[u].book,
             upload[u].at \in {"previewing", "pending", "checking"},
             upload' = [upload EXCEPT ![u] = now], UNCHANGED <<storeVars, place, lost>>
      PROVE  ImpInv'
  <2>1. upload[u].book \in Workbook /\ u \notin lost /\ place[u] = "staged"
    BY <1>0, <1>5 DEF ImportTyped, FilesFollow, Busy
  <2>2. place' = [place EXCEPT ![u] = "staged"]
    BY <1>0, <1>5, <2>1 DEF ImportTyped
  <2> QED BY <1>2, <1>5, <2>1, <2>2, RequestMoves DEF Places
<1>6. CASE Reject(u) /\ Busy(upload[u])
  BY <1>6, RejectStep
<1>7. CASE Invalid(u) \/ Expire(u) \/ Refused(u)
  BY <1>6, <1>7 DEF Invalid, Expire, Refused, Busy
<1>8. CASE Stage(u)
  <2>1. Busy(upload[u])
    BY <1>8 DEF Stage, Busy
  <2>2. CASE ~Mismatched(u)
    <3>1. /\ upload' = [upload EXCEPT ![u].at = "previewing", ![u].seen = ReadBase(b)]
          /\ Puts(u, "staged") /\ UNCHANGED <<storeVars, lost>>
      BY <1>8, <2>2 DEF Stage
    <3> QED BY <1>4, <2>1, <3>1
  <2> QED BY <1>6, <1>8, <2>1, <2>2 DEF Stage
<1>9. CASE Keep(u)
  <2>1. Busy(upload[u])
    BY <1>9 DEF Keep, Busy
  <2>2. CASE ~(Mismatched(u) \/ (upload[u].base # NoKBase /\ ~Exists(upload[u].base)))
    <3>1. /\ upload' = [upload EXCEPT ![u].at = "importing", ![u].seen = ReadBase(b)]
          /\ Puts(u, "kept") /\ UNCHANGED <<storeVars, lost>>
      BY <1>9, <2>2 DEF Keep
    <3> QED BY <1>4, <2>1, <2>2, <3>1
  <2> QED BY <1>6, <1>9, <2>1, <2>2 DEF Keep
<1>10. CASE Previewed(u)
  <2>1. Busy(upload[u]) /\ upload[u].at = "previewing"
    BY <1>10 DEF Previewed, Busy
  <2> DEFINE cols == ColumnsOf(upload[u].book, Chosen(u))
             found == Resolved(u, cols)
  <2>2. found \in KBase \cup {NoKBase}
    <3>1. b \in KBase \cup {NoKBase}
      BY <1>1 DEF Uploads
    <3> DEFINE alike == {c \in KBase : Exists(c) /\ kb[c].cols = cols}
    <3>2. alike = {} => Cardinality(alike) = 0
      BY FS_EmptySet
    <3>3. Cardinality(alike) = 1 => (CHOOSE c \in alike : TRUE) \in KBase
      BY <3>2
    <3>4. found = IF b # NoKBase THEN b
                  ELSE IF Cardinality(alike) = 1 THEN CHOOSE c \in alike : TRUE ELSE NoKBase
      BY DEF Resolved
    <3> HIDE DEF found, alike, b
    <3> QED BY <3>1, <3>3, <3>4
  <2>3. CASE upload' = [upload EXCEPT ![u].at = "pending", ![u].base = found,
                                      ![u].cols = NoMapping, ![u].seen = NoKBase]
             /\ UNCHANGED <<storeVars, place, lost>>
    <3> HIDE DEF found
    <3> DEFINE now == [upload[u] EXCEPT !.at = "pending", !.base = found,
                                        !.cols = NoMapping, !.seen = NoKBase]
    <3>1. now \in Uploads /\ now.at = "pending" /\ now.book = upload[u].book
      BY <1>1, <2>2 DEF Uploads, Stages
    <3>2. upload' = [upload EXCEPT ![u] = now]
      BY <1>0, <2>3 DEF ImportTyped
    <3> HIDE DEF now
    <3> QED BY <1>5, <2>1, <2>3, <3>1, <3>2
  <2> QED BY <1>6, <1>10, <2>1, <2>3 DEF Previewed
<1>11. CASE ConfirmImport(u)
  <2>1. PICK cols \in Mapping \cup {NoMapping} :
          upload' = [upload EXCEPT ![u].at = "checking", ![u].cols = cols]
    BY <1>11 DEF ConfirmImport
  <2> DEFINE now == [upload[u] EXCEPT !.at = "checking", !.cols = cols]
  <2>2. now \in Uploads /\ now.at = "checking" /\ now.book = upload[u].book
    BY <1>1 DEF Uploads, Stages
  <2>3. upload' = [upload EXCEPT ![u] = now]
    BY <1>0, <2>1 DEF ImportTyped
  <2>4. upload[u].at = "pending" /\ UNCHANGED <<storeVars, place, lost>>
    BY <1>11 DEF ConfirmImport
  <2> HIDE DEF now
  <2> QED BY <1>5, <2>2, <2>3, <2>4
<1> QED BY <1>3, <1>7, <1>8, <1>9, <1>10, <1>11

\* What a workbook holds as the columns read it: a path stands once.
LEMMA ParsedLines ==
  ASSUME NEW book \in Workbook, NEW cols
  PROVE  /\ \A p \in Parsed(book, cols) : p.line \in Line /\ p.path = PathOf(cols, p.line)
         /\ \A p, q \in Parsed(book, cols) : p.path = q.path => p = q
<1>1. book.lines \in Seq(Line)
  BY WorkbookAssumption
<1> DEFINE P(i) == PathOf(cols, book.lines[i])
           Final == {n \in DOMAIN book.lines : \A k \in DOMAIN book.lines : k > n => P(k) # P(n)}
<1>2. Parsed(book, cols) = {[path |-> P(i), line |-> book.lines[i]] : i \in Final}
  BY DEF Parsed
<1>3. \A i \in Final : book.lines[i] \in Line /\ i \in Nat
  BY <1>1
<1>4. \A i, k \in Final : P(i) = P(k) => i = k
  <2> SUFFICES ASSUME NEW i \in Final, NEW k \in Final, P(i) = P(k), i # k PROVE FALSE
    OBVIOUS
  <2>1. i > k \/ k > i
    BY <1>3
  <2> QED BY <2>1
<1> HIDE DEF Final
<1>5. \A p \in Parsed(book, cols) : \E i \in Final : p.path = P(i) /\ p.line = book.lines[i] /\ p = [path |-> P(i), line |-> book.lines[i]]
  BY <1>2
<1> QED BY <1>3, <1>4, <1>5

\* An import writes one base under the columns that its items stand under.
LEMMA ImportTarget ==
  ASSUME ImpInv, NEW u \in Upload, NEW b \in KBase,
         upload[u].at = "importing", IF upload[u].base # NoKBase THEN b = upload[u].base ELSE kb[b] = Unused
  PROVE  LET cols == ColumnsOf(upload[u].book, Chosen(u)) IN
         /\ cols \in Cols /\ upload[u].book \in Workbook
         /\ Exists(b) => kb[b].cols = cols
         /\ [cols |-> cols, on |-> upload[u].seen = NoKBase \/ upload[u].seen.on] \in KBaseRow
         /\ \A v \in Upload : Aims(v) /\ upload[v].base = b => upload[v].seen.cols = cols
<1> DEFINE cols == ColumnsOf(upload[u].book, Chosen(u))
<1>0. ImportTyped /\ ColumnsStand
  BY DEF ImpInv
<1>1. upload[u] \in Uploads /\ upload[u].book \in Workbook
  BY <1>0 DEF ImportTyped, Busy
<1>2. /\ upload[u].seen \in KBaseRow \cup {NoKBase} /\ upload[u].cols \in Mapping \cup {NoMapping}
      /\ (upload[u].seen # NoKBase => upload[u].seen.cols \in Cols /\ upload[u].seen.on \in BOOLEAN)
  BY <1>1 DEF Uploads, KBaseRow
<1>3. NoMapping \notin Cols /\ Mapping \subseteq Cols /\ [head |-> upload[u].book.head, keyed |-> FALSE] \in Cols
  BY <1>1, WorkbookAssumption DEF Cols
<1>4. /\ cols \in Cols
      /\ upload[u].seen # NoKBase => cols = upload[u].seen.cols
  BY <1>2, <1>3 DEF ColumnsOf, Chosen
<1>5. upload[u].base # NoKBase => Aims(u) /\ b = upload[u].base
  BY DEF Aims
<1>6. upload[u].base # NoKBase => upload[u].seen # NoKBase /\ kb[b] # Unused
        /\ (Exists(b) => kb[b].cols = cols)
        /\ \A v \in Upload : Aims(v) /\ upload[v].base = b => upload[v].seen.cols = cols
  BY <1>0, <1>4, <1>5 DEF ColumnsStand
<1>7. upload[u].base = NoKBase => ~Exists(b) /\ \A v \in Upload : Aims(v) => upload[v].base # b
  BY <1>0 DEF ColumnsStand, Exists
<1> HIDE DEF cols
<1>8. [cols |-> cols, on |-> upload[u].seen = NoKBase \/ upload[u].seen.on] \in KBaseRow
  BY <1>2, <1>4 DEF KBaseRow
<1> QED BY <1>1, <1>4, <1>6, <1>7, <1>8 DEF cols

LEMMA ImportStep ==
  ASSUME ImpInv, NEW u \in Upload, Import(u)
  PROVE  ImpInv'
<1>0. ImportTyped /\ FilesFollow /\ ColumnsStand /\ LinesStand
  BY DEF ImpInv
<1> DEFINE now == upload[u]
           cols == ColumnsOf(now.book, Chosen(u))
           parsed == Parsed(now.book, cols)
           row == [cols |-> cols, on |-> now.seen = NoKBase \/ now.seen.on]
           gone == [Free EXCEPT !.at = "imported"]
<1>1. PICK b \in KBase :
        /\ IF now.base # NoKBase THEN b = now.base ELSE kb[b] = Unused
        /\ kb' = [kb EXCEPT ![b] = row]
        /\ entries' = [entries EXCEPT ![b] = After(b, parsed)]
        /\ history' = Recorded(b, u)
  BY DEF Import
<1>2. now.at = "importing" /\ upload' = [upload EXCEPT ![u] = gone] /\ UNCHANGED <<place, lost>>
  BY DEF Import
<1>3. /\ cols \in Cols /\ now.book \in Workbook /\ row \in KBaseRow
      /\ Exists(b) => kb[b].cols = cols
      /\ \A v \in Upload : Aims(v) /\ upload[v].base = b => upload[v].seen.cols = cols
  BY <1>1, <1>2, ImportTarget
<1>4. row \notin {Unused, NoKBase} /\ row.cols = cols
  BY <1>3, WorkbookAssumption
<1>5. gone \in Uploads /\ gone.at = "imported" /\ ~Busy(gone)
  BY DEF Free, Uploads, Stages, Busy
<1> HIDE DEF cols, row, gone
<1>6. /\ kb'[b] = row /\ \A c \in KBase : c # b => kb'[c] = kb[c] /\ entries'[c] = entries[c]
      /\ entries'[b] = After(b, parsed)
      /\ upload'[u] = gone /\ \A v \in Upload : v # u => upload'[v] = upload[v]
  BY <1>0, <1>1, <1>2 DEF ImportTyped
<1>7. Exists(b)' /\ \A c \in KBase : c # b => (Exists(c)' <=> Exists(c))
  BY <1>4, <1>6, WorkbookAssumption DEF Exists
<1>8. ImportTyped'
  <2>1. kb' \in [KBase -> {Unused, NoKBase} \cup KBaseRow] /\ upload' \in [Upload -> Uploads]
    BY <1>0, <1>1, <1>2, <1>3, <1>5 DEF ImportTyped
  <2>2. entries' = [c \in KBase |-> entries'[c]]
    BY <1>0, <1>1 DEF ImportTyped
  <2>3. history' \subseteq [base : KBase, up : Upload]
    BY <1>0, <1>1 DEF ImportTyped, Recorded
  <2>4. \A v \in Upload : Busy(upload[v])' => upload'[v].book \in Workbook
    BY <1>0, <1>5, <1>6 DEF ImportTyped, Busy
  <2> QED BY <1>0, <1>2, <2>1, <2>2, <2>3, <2>4 DEF ImportTyped
<1>9. FilesFollow'
  <2>1. \A h \in history : h.base \in KBase /\ h.up \in Upload /\ h.up # u
    BY <1>0, <1>2 DEF ImportTyped, FilesFollow
  <2>2. \A h \in history' : h \in history \/ h = [base |-> b, up |-> u]
    BY <1>1 DEF Recorded
  <2>3. place[u] = "kept" /\ history \subseteq history' /\ [base |-> b, up |-> u] \in history'
    BY <1>0, <1>1, <1>2 DEF FilesFollow, Recorded
  <2>4. \A h \in history' : Exists(h.base)' /\ place'[h.up] = "kept" /\ upload'[h.up].at = "imported"
    <3> SUFFICES ASSUME NEW h \in history'
                 PROVE  Exists(h.base)' /\ place'[h.up] = "kept" /\ upload'[h.up].at = "imported"
      OBVIOUS
    <3>1. CASE h \in history
      BY <1>0, <1>2, <1>6, <1>7, <2>1, <3>1 DEF FilesFollow, Exists
    <3>2. CASE h = [base |-> b, up |-> u]
      BY <1>2, <1>5, <1>6, <1>7, <2>3, <3>2 DEF Exists
    <3> QED BY <2>2, <3>1, <3>2
  <2>5. \A h, g \in history' : h.up = g.up => h = g
    BY <1>0, <2>1, <2>2 DEF FilesFollow
  <2>6. \A v \in lost' : upload'[v].at = "free"
    BY <1>0, <1>2, <1>6 DEF FilesFollow, ImportTyped
  <2>7. ASSUME NEW v \in Upload
        PROVE  /\ upload'[v].at = "validating" <=> place'[v] = "uploaded"
               /\ upload'[v].at \in {"previewing", "pending", "checking"} <=> place'[v] = "staged"
               /\ upload'[v].at = "importing" => place'[v] = "kept"
               /\ place'[v] = "kept" =>
                    upload'[v].at = "importing" \/ v \in lost' \/ \E h \in history' : h.up = v
    BY <1>0, <1>2, <1>5, <1>6, <2>3 DEF FilesFollow
  <2> QED BY <2>4, <2>5, <2>6, <2>7 DEF FilesFollow
<1>10. ColumnsStand'
  <2> SUFFICES ASSUME NEW v \in Upload, Aims(v)'
               PROVE  /\ upload'[v].seen # NoKBase /\ kb'[upload'[v].base] # Unused
                      /\ Exists(upload[v].base)' => kb'[upload'[v].base].cols = upload'[v].seen.cols
                      /\ \A w \in Upload : Aims(w)' /\ upload'[w].base = upload'[v].base
                                             => upload'[w].seen.cols = upload'[v].seen.cols
    BY DEF ColumnsStand
  <2>1. \A w \in Upload : Aims(w)' => w # u /\ Aims(w) /\ upload'[w] = upload[w]
    BY <1>5, <1>6 DEF Aims
  <2>2. Aims(v) /\ upload'[v] = upload[v] /\ upload[v].base \in KBase
    BY <1>0, <2>1 DEF ImportTyped, Uploads, Aims
  <2>3. \A w \in Upload : Aims(w)' /\ upload'[w].base = upload'[v].base
                             => upload'[w].seen.cols = upload'[v].seen.cols
    BY <1>0, <2>1, <2>2 DEF ColumnsStand
  <2>4. upload'[v].seen # NoKBase
    BY <1>0, <2>2 DEF ColumnsStand
  <2>5. CASE upload[v].base = b
    BY <1>3, <1>4, <1>6, <2>2, <2>3, <2>4, <2>5
  <2>6. CASE upload[v].base # b
    <3>1. kb'[upload[v].base] = kb[upload[v].base] /\ (Exists(upload[v].base)' => Exists(upload[v].base))
      BY <1>6, <2>2, <2>6 DEF Exists
    <3> QED BY <1>0, <2>2, <2>3, <2>4, <3>1 DEF ColumnsStand
  <2> QED BY <2>5, <2>6
<1>11. LinesStand'
  <2> SUFFICES ASSUME NEW c \in KBase
               PROVE  /\ ~Exists(c)' => entries'[c] = {}
                      /\ \A e \in entries'[c] : e.line \in Line /\ e.on \in BOOLEAN /\ e.path = PathOf(kb'[c].cols, e.line)
                      /\ \A e \in entries'[c] : e = [path |-> e.path, line |-> e.line, on |-> e.on]
                      /\ \A e, f \in entries'[c] : e.path = f.path => e = f
    BY DEF LinesStand, PathOf
  <2>1. CASE c # b
    BY <1>0, <1>6, <1>7, <2>1 DEF LinesStand
  <2>2. CASE c = b
    <3>1. \A e \in entries[b] : e.line \in Line /\ e.on \in BOOLEAN /\ e.path = PathOf(cols, e.line)
      BY <1>0, <1>3 DEF LinesStand
    <3>2. /\ \A e \in entries[b] : e = [path |-> e.path, line |-> e.line, on |-> e.on]
          /\ \A e, f \in entries[b] : e.path = f.path => e = f
      BY <1>0 DEF LinesStand
    <3>3. /\ \A p \in parsed : p.line \in Line /\ p.path = PathOf(cols, p.line)
          /\ \A p, q \in parsed : p.path = q.path => p = q
      BY <1>3, ParsedLines
    <3> HIDE DEF parsed
    <3> DEFINE Kept(p) == \A f \in At(b, p.path) : f.on
    <3>7. \A p \in parsed : Kept(p) \in BOOLEAN
      OBVIOUS
    <3>8. After(b, parsed) = {e \in entries[b] : \A p \in parsed : p.path # e.path}
                              \cup {[path |-> p.path, line |-> p.line, on |-> Kept(p)] : p \in parsed}
      BY DEF After
    <3> HIDE DEF Kept
    <3>4. \A e \in After(b, parsed) :
            \/ e \in entries[b] /\ \A p \in parsed : p.path # e.path
            \/ \E p \in parsed : /\ e = [path |-> p.path, line |-> p.line, on |-> Kept(p)]
                                 /\ e.path = p.path /\ e.line = p.line /\ e.on \in BOOLEAN
      BY <3>7, <3>8
    <3>5. \A e \in After(b, parsed) : e.line \in Line /\ e.on \in BOOLEAN /\ e.path = PathOf(cols, e.line)
      BY <3>1, <3>3, <3>4
    <3>6. \A e, f \in After(b, parsed) : e.path = f.path => e = f
      BY <3>2, <3>3, <3>4
    <3>9. \A e \in After(b, parsed) : e = [path |-> e.path, line |-> e.line, on |-> e.on]
      BY <3>2, <3>4
    <3> QED BY <1>4, <1>6, <1>7, <2>2, <3>5, <3>6, <3>9
  <2> QED BY <2>1, <2>2
<1> QED BY <1>8, <1>9, <1>10, <1>11 DEF ImpInv

\* The edits by hand that leave the list of bases as it is.
LEMMA ItemsStep ==
  ASSUME ImpInv, NEW b \in KBase, Exists(b), NEW es, entries' = [entries EXCEPT ![b] = es],
         UNCHANGED <<kb, history, upload, place, lost>>,
         \A e \in es : e.line \in Line /\ e.on \in BOOLEAN /\ e.path = PathOf(kb[b].cols, e.line),
         \A e \in es : e = [path |-> e.path, line |-> e.line, on |-> e.on],
         \A e, f \in es : e.path = f.path => e = f
  PROVE  ImpInv'
<1>0. ImportTyped /\ FilesFollow /\ ColumnsStand /\ LinesStand
  BY DEF ImpInv
<1>1. entries'[b] = es /\ \A c \in KBase : c # b => entries'[c] = entries[c]
  BY <1>0 DEF ImportTyped
<1>2. ImportTyped'
  BY <1>0 DEF ImportTyped
<1>3. FilesFollow' /\ ColumnsStand'
  BY <1>0 DEF FilesFollow, ColumnsStand, Aims, Exists
<1>4. LinesStand'
  <2> SUFFICES ASSUME NEW c \in KBase
               PROVE  /\ ~Exists(c)' => entries'[c] = {}
                      /\ \A e \in entries'[c] : e.line \in Line /\ e.on \in BOOLEAN /\ e.path = PathOf(kb'[c].cols, e.line)
                      /\ \A e \in entries'[c] : e = [path |-> e.path, line |-> e.line, on |-> e.on]
                      /\ \A e, f \in entries'[c] : e.path = f.path => e = f
    BY DEF LinesStand, PathOf
  <2>1. CASE c # b
    BY <1>0, <1>1, <2>1 DEF LinesStand, Exists
  <2>2. CASE c = b
    BY <1>1, <2>2 DEF Exists
  <2> QED BY <2>1, <2>2
<1> QED BY <1>2, <1>3, <1>4 DEF ImpInv

LEMMA EditStep ==
  ASSUME ImpInv, NEW b \in KBase,
         \/ \E line \in Line, sw \in BOOLEAN :
              AddEntry(b, line, sw) \/ \E e \in entries[b] : EditEntry(b, e, line, sw)
         \/ \E e \in entries[b] : DeleteEntry(b, e)
  PROVE  ImpInv'
<1>0. LinesStand
  BY DEF ImpInv
<1>1. /\ \A e \in entries[b] : e.line \in Line /\ e.on \in BOOLEAN /\ e.path = PathOf(kb[b].cols, e.line)
      /\ \A e \in entries[b] : e = [path |-> e.path, line |-> e.line, on |-> e.on]
      /\ \A e, f \in entries[b] : e.path = f.path => e = f
  BY <1>0 DEF LinesStand
<1>2. ASSUME NEW line \in Line, NEW sw \in BOOLEAN, NEW others \in SUBSET entries[b],
             \A e \in others : e.path # PathOf(kb[b].cols, line), Exists(b),
             Enter(b, [path |-> PathOf(kb[b].cols, line), line |-> line, on |-> sw], others),
             UNCHANGED <<kb, history, upload, place, lost>>
      PROVE  ImpInv'
  <2> DEFINE new == [path |-> PathOf(kb[b].cols, line), line |-> line, on |-> sw]
  <2>1. /\ new.path = PathOf(kb[b].cols, line) /\ new.line = line /\ new.on = sw
        /\ new = [path |-> new.path, line |-> new.line, on |-> new.on]
    OBVIOUS
  <2>2. entries' = [entries EXCEPT ![b] = others \cup {new}]
    BY <1>2 DEF Enter
  <2> HIDE DEF new
  <2>3. /\ \A e \in others \cup {new} : e.line \in Line /\ e.on \in BOOLEAN /\ e.path = PathOf(kb[b].cols, e.line)
        /\ \A e \in others \cup {new} : e = [path |-> e.path, line |-> e.line, on |-> e.on]
        /\ \A e, f \in others \cup {new} : e.path = f.path => e = f
    BY <1>1, <1>2, <2>1
  <2> QED BY <1>2, <2>2, <2>3, ItemsStep
<1>3. ASSUME NEW line \in Line, NEW sw \in BOOLEAN, AddEntry(b, line, sw)
      PROVE  ImpInv'
  <2>1. /\ Exists(b) /\ UNCHANGED <<kb, history, upload, place, lost>>
        /\ Enter(b, [path |-> PathOf(kb[b].cols, line), line |-> line, on |-> sw],
                 entries[b] \ At(b, PathOf(kb[b].cols, line)))
    BY <1>3 DEF AddEntry, Edit
  <2>2. \A e \in entries[b] \ At(b, PathOf(kb[b].cols, line)) : e.path # PathOf(kb[b].cols, line)
    BY DEF At
  <2> QED BY <1>2, <2>1, <2>2
<1>4. ASSUME NEW line \in Line, NEW sw \in BOOLEAN, NEW e \in entries[b], EditEntry(b, e, line, sw)
      PROVE  ImpInv'
  <2>1. /\ Exists(b) /\ UNCHANGED <<kb, history, upload, place, lost>>
        /\ At(b, PathOf(kb[b].cols, line)) \subseteq {e}
        /\ Enter(b, [path |-> PathOf(kb[b].cols, line), line |-> line, on |-> sw], entries[b] \ {e})
    BY <1>4 DEF EditEntry, Edit
  <2>2. \A f \in entries[b] \ {e} : f.path # PathOf(kb[b].cols, line)
    BY <2>1 DEF At
  <2> QED BY <1>2, <2>1, <2>2
<1>5. ASSUME NEW e \in entries[b], DeleteEntry(b, e)
      PROVE  ImpInv'
  <2>1. /\ Exists(b) /\ UNCHANGED <<kb, history, upload, place, lost>>
        /\ entries' = [entries EXCEPT ![b] = entries[b] \ {e}]
    BY <1>5 DEF DeleteEntry, Edit
  <2> DEFINE es == entries[b] \ {e}
  <2>2. /\ \A f \in es : f.line \in Line /\ f.on \in BOOLEAN /\ f.path = PathOf(kb[b].cols, f.line)
        /\ \A f \in es : f = [path |-> f.path, line |-> f.line, on |-> f.on]
        /\ \A f, g \in es : f.path = g.path => f = g
        /\ entries' = [entries EXCEPT ![b] = es]
    BY <1>1, <2>1
  <2>3. Exists(b) /\ UNCHANGED <<kb, history, upload, place, lost>>
    BY <2>1
  <2> HIDE DEF es
  <2> QED BY <2>2, <2>3, ItemsStep
<1> QED BY <1>3, <1>4, <1>5

LEMMA BaseStep ==
  ASSUME ImpInv, NEW b \in KBase, SwitchKBase(b) \/ DeleteKBase(b)
  PROVE  ImpInv'
<1>0. ImportTyped /\ FilesFollow /\ ColumnsStand /\ LinesStand
  BY DEF ImpInv
<1>1. Exists(b) /\ kb[b] \in KBaseRow /\ UNCHANGED <<upload, lost>>
  BY <1>0 DEF SwitchKBase, DeleteKBase, Edit, Exists, ImportTyped
<1>2. CASE SwitchKBase(b)
  <2> DEFINE row == [kb[b] EXCEPT !.on = ~kb[b].on]
  <2>1. kb' = [kb EXCEPT ![b] = row] /\ UNCHANGED <<entries, history, place>>
    BY <1>2 DEF SwitchKBase
  <2>2. row \in KBaseRow /\ row.cols = kb[b].cols
    BY <1>1 DEF KBaseRow
  <2> HIDE DEF row
  <2>3. /\ \A c \in KBase : Exists(c)' <=> Exists(c)
        /\ \A c \in KBase : Exists(c) => kb'[c].cols = kb[c].cols
        /\ \A c \in KBase : kb[c] # Unused => kb'[c] # Unused
    BY <1>0, <1>1, <2>1, <2>2, WorkbookAssumption DEF Exists, ImportTyped
  <2>4. ImportTyped'
    BY <1>0, <1>1, <2>1, <2>2 DEF ImportTyped
  <2>5. FilesFollow'
    BY <1>0, <1>1, <2>1, <2>3 DEF FilesFollow, Exists, ImportTyped
  <2>6. \A v \in Upload : Aims(v) => upload[v].base \in KBase
    BY <1>0 DEF Aims, ImportTyped, Uploads
  <2>7. ColumnsStand'
    BY <1>0, <1>1, <2>3, <2>6 DEF ColumnsStand, Aims, Exists
  <2>8. LinesStand'
    BY <1>0, <2>1, <2>3 DEF LinesStand, PathOf, Exists
  <2> QED BY <2>4, <2>5, <2>7, <2>8 DEF ImpInv
<1>3. CASE DeleteKBase(b)
  <2>1. /\ kb' = [kb EXCEPT ![b] = NoKBase] /\ entries' = [entries EXCEPT ![b] = {}]
        /\ history' = {h \in history : h.base # b}
        /\ place' \in [Upload -> Places]
        /\ \A u \in Upload : IF [base |-> b, up |-> u] \in history
                             THEN place'[u] \in Remains(place[u]) ELSE place'[u] = place[u]
    BY <1>3 DEF DeleteKBase, Cleared
  <2>2. ~Exists(b)' /\ \A c \in KBase : c # b => kb'[c] = kb[c] /\ (Exists(c)' <=> Exists(c))
    BY <1>0, <2>1 DEF Exists, ImportTyped
  <2>3. \A h \in history : h.base \in KBase /\ h.up \in Upload /\ h = [base |-> h.base, up |-> h.up]
    BY <1>0 DEF ImportTyped
  <2>4. \A h \in history : h.base = b => [base |-> b, up |-> h.up] \in history
    BY <2>3
  <2>5. \A u \in Upload : \/ place'[u] = place[u] /\ \A h \in history : h.up = u => h \in history'
                          \/ /\ place'[u] \in {"none", "orphan"} /\ upload[u].at = "imported" /\ place[u] = "kept"
                             /\ \A h \in history' : h.up # u
    <3> SUFFICES ASSUME NEW u \in Upload
                 PROVE  \/ place'[u] = place[u] /\ \A h \in history : h.up = u => h \in history'
                        \/ /\ place'[u] \in {"none", "orphan"} /\ upload[u].at = "imported" /\ place[u] = "kept"
                           /\ \A h \in history' : h.up # u
      OBVIOUS
    <3>1. CASE [base |-> b, up |-> u] \in history
      <4> DEFINE row == [base |-> b, up |-> u]
      <4>1. row \in history /\ row.up = u /\ row.base = b
        BY <3>1
      <4> HIDE DEF row
      <4>2. upload[u].at = "imported" /\ place[u] = "kept" /\ \A h \in history : h.up = u => h = row
        BY <1>0, <4>1 DEF FilesFollow
      <4>3. place'[u] \in {"none", "orphan"}
        BY <2>1, <3>1, <4>2 DEF Remains
      <4> QED BY <2>1, <4>1, <4>2, <4>3
    <3>2. CASE [base |-> b, up |-> u] \notin history
      BY <2>1, <2>4, <3>2
    <3> QED BY <3>1, <3>2
  <2>6. ImportTyped'
    <3>1. kb' \in [KBase -> {Unused, NoKBase} \cup KBaseRow] /\ entries' = [c \in KBase |-> entries'[c]]
      BY <1>0, <2>1 DEF ImportTyped
    <3>2. history' \subseteq [base : KBase, up : Upload] /\ place' \in [Upload -> Places]
      BY <1>0, <2>1 DEF ImportTyped
    <3> QED BY <1>0, <1>1, <3>1, <3>2 DEF ImportTyped
  <2>7. FilesFollow'
    <3>1. \A h \in history' : h \in history /\ h.base # b
      BY <2>1
    <3>2. \A h \in history' : Exists(h.base)' /\ place'[h.up] = "kept" /\ upload'[h.up].at = "imported"
      BY <1>0, <1>1, <2>2, <2>3, <2>5, <3>1 DEF FilesFollow, Exists
    <3>3. \A h, g \in history' : h.up = g.up => h = g
      BY <1>0, <3>1 DEF FilesFollow
    <3>4. ASSUME NEW u \in Upload
          PROVE  /\ upload'[u].at = "validating" <=> place'[u] = "uploaded"
                 /\ upload'[u].at \in {"previewing", "pending", "checking"} <=> place'[u] = "staged"
                 /\ upload'[u].at = "importing" => place'[u] = "kept"
                 /\ place'[u] = "kept" =>
                      upload'[u].at = "importing" \/ u \in lost' \/ \E h \in history' : h.up = u
      BY <1>0, <1>1, <2>5 DEF FilesFollow
    <3>5. \A u \in lost' : upload'[u].at = "free"
      BY <1>0, <1>1 DEF FilesFollow
    <3> QED BY <3>2, <3>3, <3>4, <3>5 DEF FilesFollow
  <2>8. ColumnsStand'
    <3>1. \A v \in Upload : Aims(v) => upload[v].base \in KBase
      BY <1>0 DEF Aims, ImportTyped, Uploads
    <3>2. kb'[b] # Unused
      BY <1>0, <2>1, WorkbookAssumption DEF ImportTyped
    <3> QED BY <1>0, <1>1, <2>2, <3>1, <3>2 DEF ColumnsStand, Aims, Exists
  <2>9. LinesStand'
    <3>1. entries'[b] = {} /\ \A c \in KBase : c # b => entries'[c] = entries[c]
      BY <1>0, <2>1 DEF ImportTyped
    <3> QED BY <1>0, <2>2, <3>1 DEF LinesStand, PathOf, Exists
  <2> QED BY <2>6, <2>7, <2>8, <2>9 DEF ImpInv
<1> QED BY <1>2, <1>3

LEMMA RestartStep ==
  ASSUME ImpInv, Restart
  PROVE  ImpInv'
<1>0. ImportTyped /\ FilesFollow /\ ColumnsStand /\ LinesStand
  BY DEF ImpInv
<1>1. /\ lost = {} /\ lost' = {u \in Upload : upload[u].at \notin {"free", "gone", "imported"}}
      /\ upload' = [u \in Upload |-> IF u \in lost' THEN Free ELSE upload[u]]
      /\ place' \in [Upload -> Places]
      /\ \A u \in Upload : IF place[u] \in {"uploaded", "staged", "leftover"}
                           THEN place'[u] \in {"none", "leftover"} ELSE place'[u] = place[u]
      /\ UNCHANGED <<kb, entries, history>>
  BY DEF Restart, storeVars, Cleared, Remains
<1>2. Free \in Uploads /\ ~Busy(Free) /\ Free.at = "free"
  BY DEF Free, Uploads, Stages, Busy
<1>3. \A u \in Upload : \/ u \in lost' /\ upload'[u] = Free /\ upload[u].at \notin {"free", "gone", "imported"}
                        \/ u \notin lost' /\ upload'[u] = upload[u] /\ upload[u].at \in {"free", "gone", "imported"}
  BY <1>1
<1>4. ImportTyped'
  BY <1>0, <1>1, <1>2, <1>3 DEF ImportTyped, Busy
<1>5. FilesFollow'
  <2>1. \A h \in history : h.up \in Upload
    BY <1>0 DEF ImportTyped
  <2>2. \A h \in history' : Exists(h.base)' /\ place'[h.up] = "kept" /\ upload'[h.up].at = "imported"
    BY <1>0, <1>1, <1>3, <2>1 DEF FilesFollow, Exists
  <2>3. ASSUME NEW u \in Upload
        PROVE  /\ upload'[u].at = "validating" <=> place'[u] = "uploaded"
               /\ upload'[u].at \in {"previewing", "pending", "checking"} <=> place'[u] = "staged"
               /\ upload'[u].at = "importing" => place'[u] = "kept"
               /\ place'[u] = "kept" =>
                    upload'[u].at = "importing" \/ u \in lost' \/ \E h \in history' : h.up = u
    <3>1. place'[u] \notin {"uploaded", "staged"} /\ (place'[u] = "kept" <=> place[u] = "kept")
      BY <1>1
    <3>2. upload'[u].at \in {"free", "gone", "imported"}
      BY <1>2, <1>3
    <3> QED BY <1>0, <1>1, <1>3, <3>1, <3>2 DEF FilesFollow
  <2>4. \A u \in lost' : upload'[u].at = "free"
    BY <1>1, <1>2
  <2> QED BY <1>0, <1>1, <2>2, <2>3, <2>4 DEF FilesFollow
<1>6. ColumnsStand'
  BY <1>2, <1>3 DEF ColumnsStand, Aims
<1>7. LinesStand'
  BY <1>0, <1>1 DEF LinesStand, PathOf, Exists
<1> QED BY <1>4, <1>5, <1>6, <1>7 DEF ImpInv

LEMMA ImportNextStep ==
  ASSUME ImpInv, [ImportNext]_importVars
  PROVE  ImpInv'
<1>1. CASE UNCHANGED importVars
  <2>1. UNCHANGED <<kb, entries, history, upload, place, lost>>
    BY <1>1 DEF importVars, storeVars, requestVars
  <2> QED BY <2>1 DEF ImpInv, ImportTyped, FilesFollow, ColumnsStand, Aims, LinesStand, PathOf, Exists, Busy
<1> QED BY <1>1, UploadStep, ImportStep, EditStep, BaseStep, RestartStep DEF ImportNext

\* ImpInv holds throughout, for any bases, uploads, workbooks and columns:
\* whatever the two requests of an upload, the import, the edits and a restart do
\* between each other's waits (knowledge-import-service).
THEOREM WorkbookInvariant == ImportSpec => []ImpInv
BY KnowledgeInitially, ImportNextStep, PTL DEF ImportSpec

LEMMA ImpInvStands == ImpInv => WorkbooksStand
<1> SUFFICES ASSUME ImpInv PROVE WorkbooksStand
  OBVIOUS
<1>1. KnowledgeTypeOK
  BY DEF ImpInv, ImportTyped, LinesStand, KnowledgeTypeOK
<1> QED BY <1>1 DEF ImpInv, FilesFollow, LinesStand, WorkbooksStand

\* A workbook leaves a line under every path that it has.
LEMMA PathsParsed ==
  ASSUME NEW book \in Workbook, NEW cols
  PROVE  /\ {PathOf(cols, book.lines[i]) : i \in DOMAIN book.lines} = {p.path : p \in Parsed(book, cols)}
         /\ IsFiniteSet(Parsed(book, cols))
<1>1. book.lines \in Seq(Line)
  BY WorkbookAssumption
<1> DEFINE n == Len(book.lines)
           P(i) == PathOf(cols, book.lines[i])
           Final == {i \in DOMAIN book.lines : \A k \in DOMAIN book.lines : k > i => P(k) # P(i)}
           f == [i \in Final |-> [path |-> P(i), line |-> book.lines[i]]]
<1>2. n \in Nat /\ DOMAIN book.lines = 1 .. n
  BY <1>1
<1>3. Parsed(book, cols) = {[path |-> P(i), line |-> book.lines[i]] : i \in Final}
  BY DEF Parsed
<1>4. \A i \in 1 .. n : \E k \in Final : P(k) = P(i)
  <2> SUFFICES ASSUME NEW i \in 1 .. n PROVE \E k \in Final : P(k) = P(i)
    OBVIOUS
  <2> DEFINE T == {k \in 1 .. n : P(k) = P(i)}
  <2>1. T \in SUBSET (1 .. n) /\ T # {}
    OBVIOUS
  <2>2. PICK m \in T : \A k \in T : k <= m
    BY <1>2, <2>1, LatestOf
  <2>3. m \in DOMAIN book.lines /\ P(m) = P(i)
    BY <1>2
  <2>4. ASSUME NEW k \in DOMAIN book.lines, k > m PROVE P(k) # P(m)
    <3>1. k \in 1 .. n /\ ~(k <= m)
      BY <1>2, <2>4
    <3> QED BY <2>2, <2>3, <3>1
  <2> QED BY <2>3, <2>4
<1>5. Final \subseteq 1 .. n
  BY <1>2
<1> HIDE DEF Final, P
<1>6. \A i \in Final : [path |-> P(i), line |-> book.lines[i]].path = P(i)
  OBVIOUS
<1>7. {P(i) : i \in DOMAIN book.lines} = {p.path : p \in Parsed(book, cols)}
  <2>1. ASSUME NEW i \in DOMAIN book.lines PROVE P(i) \in {p.path : p \in Parsed(book, cols)}
    <3>1. PICK k \in Final : P(k) = P(i)
      BY <1>2, <1>4, <2>1
    <3>2. [path |-> P(k), line |-> book.lines[k]] \in Parsed(book, cols)
      BY <1>3
    <3> QED BY <1>6, <3>1, <3>2
  <2>2. ASSUME NEW p \in Parsed(book, cols) PROVE p.path \in {P(i) : i \in DOMAIN book.lines}
    BY <1>2, <1>3, <1>5, <1>6
  <2> QED BY <2>1, <2>2
<1>8. IsFiniteSet(Parsed(book, cols))
  <2>1. IsFiniteSet(1 .. n)
    BY <1>2, FS_Interval
  <2>2. IsFiniteSet(Final)
    BY <1>5, <2>1, FS_Subset
  <2>3. f \in Surjection(Final, Parsed(book, cols))
    BY <1>3 DEF Surjection
  <2> HIDE DEF f
  <2> QED BY <2>2, <2>3, FS_Surjection
<1> QED BY <1>7, <1>8 DEF P

LEMMA PathsCounted ==
  ASSUME NEW S, IsFiniteSet(S), \A p, q \in S : p.path = q.path => p = q
  PROVE  Cardinality({p.path : p \in S}) = Cardinality(S)
<1> DEFINE T == {p.path : p \in S}
           f == [p \in S |-> p.path]
<1>1. f \in Bijection(S, T)
  BY DEF Bijection, Injection, Surjection, IsInjective
<1>2. ExistsBijection(S, T)
  BY <1>1 DEF ExistsBijection
<1> HIDE DEF T
<1>3. Cardinality(T) = Cardinality(S)
  BY <1>2, FS_Bijection
<1> QED BY <1>3 DEF T

\* What writing the items parsed to those before does to them, in sets and numbers.
WritesItems(before, parsed) ==
  LET paths == {p.path : p \in parsed}
      Of(p) == {e \in before : e.path = p.path}
      after == {e \in before : \A p \in parsed : p.path # e.path}
                 \cup {[path |-> p.path, line |-> p.line, on |-> \A e \in Of(p) : e.on] : p \in parsed}
      Names(es) == {e.path : e \in es}
      Same(p) == \E e \in Of(p) : e.line = p.line
      added == Cardinality({p \in parsed : Of(p) = {}})
      updated == Cardinality({p \in parsed : Of(p) # {} /\ ~Same(p)})
  IN  /\ {e \in before : e.path \notin paths} = {e \in after : e.path \notin paths}
      /\ paths \subseteq Names(after)
      /\ \A e \in before, f \in after : e.path = f.path => e.on = f.on
      /\ added = Cardinality(Names(after) \ Names(before))
      /\ updated = Cardinality(Names(before \ after))
      /\ Cardinality({p \in parsed : Same(p)}) = Cardinality(paths) - added - updated

\* The items of a base before and after those of a workbook are written to it.
LEMMA ItemsWritten ==
  ASSUME NEW before, NEW parsed, IsFiniteSet(parsed),
         \A e \in before : e.on \in BOOLEAN /\ e = [path |-> e.path, line |-> e.line, on |-> e.on],
         \A e, f \in before : e.path = f.path => e = f,
         \A p, q \in parsed : p.path = q.path => p = q
  PROVE  WritesItems(before, parsed)
<1> DEFINE paths == {p.path : p \in parsed}
           Of(p) == {e \in before : e.path = p.path}
           Kept(p) == \A e \in Of(p) : e.on
           Made(p) == [path |-> p.path, line |-> p.line, on |-> Kept(p)]
           Rest == {e \in before : \A p \in parsed : p.path # e.path}
           after == Rest \cup {Made(p) : p \in parsed}
           Names(es) == {e.path : e \in es}
           Same(p) == \E e \in Of(p) : e.line = p.line
           A == {p \in parsed : Of(p) = {}}
           U == {p \in parsed : Of(p) # {} /\ ~Same(p)}
           S == {p \in parsed : Same(p)}
<1>1. \A p \in parsed : Made(p).path = p.path /\ Made(p).line = p.line /\ (Made(p).on = Kept(p))
  OBVIOUS
<1>2. \A p \in parsed : \A e \in before : e.path = p.path => Of(p) = {e} /\ (Kept(p) = e.on)
  <2> SUFFICES ASSUME NEW p \in parsed, NEW e \in before, e.path = p.path
               PROVE  Of(p) = {e} /\ (Kept(p) = e.on)
    OBVIOUS
  <2>1. Of(p) = {e}
    OBVIOUS
  <2>2. e.on \in BOOLEAN /\ (Kept(p) <=> e.on)
    BY <2>1
  <2> QED BY <2>1, <2>2
<1>3. \A f \in after : f \in Rest \/ \E p \in parsed : f = Made(p) /\ f.path = p.path
  BY <1>1
<1>4. \A p \in parsed : Made(p) \in after
  OBVIOUS
<1>5. \A e \in Rest : e \in before /\ e \in after /\ \A p \in parsed : p.path # e.path
  OBVIOUS
<1>6. \A e \in before : (\A p \in parsed : p.path # e.path) => e \in Rest
  OBVIOUS
<1>7. \A p \in parsed : \A e \in before : e.path = p.path /\ e.line = p.line => Made(p) = e
  <2> SUFFICES ASSUME NEW p \in parsed, NEW e \in before, e.path = p.path, e.line = p.line PROVE Made(p) = e
    OBVIOUS
  <2>1. e = [path |-> e.path, line |-> e.line, on |-> e.on] /\ (Kept(p) = e.on)
    BY <1>2
  <2> QED BY <2>1, Zenon
<1>8. \A p \in parsed : (Of(p) = {} <=> \A e \in before : e.path # p.path)
                       /\ (Same(p) <=> \E e \in before : e.path = p.path /\ e.line = p.line)
  OBVIOUS
<1> HIDE DEF Of, Kept, Made, Rest, Same
<1>9. {e \in before : e.path \notin paths} = {e \in after : e.path \notin paths}
  BY <1>3, <1>5, <1>6
<1>10. paths \subseteq Names(after)
  BY <1>1, <1>4
<1>11. ASSUME NEW e \in before, NEW f \in after, e.path = f.path PROVE e.on = f.on
  BY <1>1, <1>2, <1>3, <1>5, <1>11
<1>12. /\ IsFiniteSet(A) /\ IsFiniteSet(U) /\ IsFiniteSet(S)
       /\ Cardinality(Names(A)) = Cardinality(A) /\ Cardinality(Names(U)) = Cardinality(U)
       /\ Cardinality(paths) = Cardinality(parsed)
  <2>1. A \subseteq parsed /\ U \subseteq parsed /\ S \subseteq parsed
    OBVIOUS
  <2>2. IsFiniteSet(A) /\ IsFiniteSet(U) /\ IsFiniteSet(S)
    BY <2>1, FS_Subset
  <2> HIDE DEF A, U, S
  <2>3. (\A p, q \in A : p.path = q.path => p = q) /\ (\A p, q \in U : p.path = q.path => p = q)
    BY <2>1
  <2>4. Cardinality(Names(A)) = Cardinality(A)
    BY <2>2, <2>3, PathsCounted
  <2>5. Cardinality(Names(U)) = Cardinality(U)
    BY <2>2, <2>3, PathsCounted
  <2>6. Cardinality(paths) = Cardinality(parsed)
    BY PathsCounted
  <2> QED BY <2>2, <2>4, <2>5, <2>6
<1>13. Names(after) \ Names(before) = Names(A)
  <2>1. ASSUME NEW f \in after, f.path \notin Names(before) PROVE f.path \in Names(A)
    BY <1>3, <1>5, <1>8, <2>1
  <2>2. ASSUME NEW p \in A PROVE p.path \in Names(after) /\ p.path \notin Names(before)
    BY <1>1, <1>4, <1>8, <2>2
  <2> HIDE DEF A, after
  <2> QED BY <2>1, <2>2
<1>14. Names(before \ after) = Names(U)
  <2>1. ASSUME NEW e \in before, e \notin after PROVE e.path \in Names(U)
    <3>1. PICK p \in parsed : p.path = e.path
      BY <1>5, <1>6, <2>1
    <3>2. e.line # p.line
      BY <1>4, <1>7, <2>1, <3>1
    <3>3. Of(p) = {e}
      BY <1>2, <3>1
    <3>4. ~Same(p)
      <4> SUFFICES ASSUME Same(p) PROVE FALSE
        OBVIOUS
      <4>1. PICK f \in before : f.path = p.path /\ f.line = p.line
        BY <1>8
      <4> QED BY <3>1, <3>2, <4>1
    <3> QED BY <3>1, <3>3, <3>4
  <2>2. ASSUME NEW p \in U PROVE p.path \in Names(before \ after)
    <3>1. p \in parsed /\ Of(p) # {} /\ ~Same(p)
      BY <2>2
    <3>2. PICK e \in before : e.path = p.path
      BY <1>8, <3>1
    <3>3. e.line # p.line
      BY <1>8, <3>1, <3>2
    <3>4. e \notin after
      <4> SUFFICES ASSUME e \in after PROVE FALSE
        OBVIOUS
      <4>1. PICK q \in parsed : e = Made(q) /\ e.path = q.path
        BY <1>3, <1>5, <3>1, <3>2
      <4>2. q = p
        BY <3>1, <3>2, <4>1
      <4> QED BY <1>1, <3>1, <3>3, <4>1, <4>2
    <3> QED BY <3>2, <3>4
  <2> HIDE DEF U, after
  <2> QED BY <2>1, <2>2
<1>15. Cardinality(S) = Cardinality(parsed) - Cardinality(A) - Cardinality(U)
  <2>1. \A p \in parsed : Same(p) => Of(p) # {}
    BY <1>8
  <2>2. parsed = (A \cup U) \cup S /\ A \cap U = {} /\ (A \cup U) \cap S = {}
    BY <2>1
  <2> HIDE DEF A, U, S
  <2>3. IsFiniteSet(A \cup U) /\ Cardinality(A \cup U) = Cardinality(A) + Cardinality(U) - Cardinality(A \cap U)
    BY <1>12, FS_Union
  <2>4. Cardinality(parsed) = Cardinality(A \cup U) + Cardinality(S) - Cardinality((A \cup U) \cap S)
    BY <1>12, <2>2, <2>3, FS_Union
  <2>5. /\ Cardinality(A \cap U) = 0 /\ Cardinality((A \cup U) \cap S) = 0
        /\ {Cardinality(A), Cardinality(U), Cardinality(S)} \subseteq Nat
    <3>1. Cardinality({}) = 0
      BY FS_EmptySet
    <3>2. Cardinality(A) \in Nat /\ Cardinality(U) \in Nat /\ Cardinality(S) \in Nat
      BY <1>12, FS_CardinalityType
    <3> QED BY <2>2, <3>1, <3>2
  <2>6. Cardinality(A \cup U) = Cardinality(A) + Cardinality(U)
    BY <2>3, <2>5
  <2>7. Cardinality(parsed) = Cardinality(A) + Cardinality(U) + Cardinality(S)
    BY <2>4, <2>5, <2>6
  <2> QED BY <2>5, <2>7
<1>16. /\ Cardinality(A) = Cardinality(Names(after) \ Names(before))
       /\ Cardinality(U) = Cardinality(Names(before \ after))
       /\ Cardinality(S) = Cardinality(paths) - Cardinality(A) - Cardinality(U)
  BY <1>12, <1>13, <1>14, <1>15
<1> QED BY <1>9, <1>10, <1>11, <1>16 DEF WritesItems, Of, Kept, Made, Rest, Same

LEMMA OnlyImport ==
  ASSUME ImpInv, ImportNext, NEW u \in Upload, upload[u].at = "importing", upload'[u].at = "imported"
  PROVE  Import(u)
<1>0. ImportTyped /\ DOMAIN upload = Upload /\ upload[u] \in Uploads
  BY DEF ImpInv, ImportTyped
<1>1. upload'[u] # upload[u] /\ upload' # upload
  OBVIOUS
<1>2. ASSUME NEW v \in Upload,
             \/ RequestPreview(v) \/ Invalid(v) \/ Stage(v) \/ Previewed(v) \/ Expire(v)
             \/ ConfirmImport(v) \/ Keep(v) \/ Refused(v)
      PROVE  FALSE
  <2>1. \E now : upload' = [upload EXCEPT ![v] = now]
    <3>1. Reject(v) => \E now : upload' = [upload EXCEPT ![v] = now]
      BY DEF Reject
    <3>2. CASE RequestPreview(v)
      BY <3>2 DEF RequestPreview
    <3>3. CASE Invalid(v) \/ Expire(v) \/ Refused(v)
      BY <3>1, <3>3 DEF Invalid, Expire, Refused
    <3>4. CASE Stage(v) \/ Keep(v)
      BY <1>0, <3>1, <3>4 DEF Stage, Keep, ImportTyped
    <3>5. CASE Previewed(v) \/ ConfirmImport(v)
      BY <1>0, <3>1, <3>5 DEF Previewed, ConfirmImport, ImportTyped
    <3> QED BY <1>2, <3>2, <3>3, <3>4, <3>5
  <2>2. v = u
    BY <1>0, <1>1, <2>1 DEF ImportTyped
  <2>3. Refused(u)
    <3>1. Free.at = "free"
      BY DEF Free
    <3>2. ~RequestPreview(u)
      BY <3>1 DEF RequestPreview
    <3> QED BY <1>2, <2>2, <3>2 DEF Invalid, Stage, Previewed, Expire, ConfirmImport, Keep
  <2>4. upload'[u] = [Free EXCEPT !.at = "gone"]
    BY <1>0, <2>3 DEF Refused, Reject, ImportTyped
  <2> QED BY <2>4 DEF Free
<1>3. ASSUME NEW v \in Upload, Import(v) PROVE v = u
  <2>1. upload' = [upload EXCEPT ![v] = [Free EXCEPT !.at = "imported"]]
    BY <1>3 DEF Import
  <2> QED BY <1>0, <1>1, <2>1
<1>4. ASSUME Restart PROVE FALSE
  <2>1. upload'[u] = Free \/ upload'[u] = upload[u]
    BY <1>4 DEF Restart
  <2> QED BY <1>1, <2>1 DEF Free
<1>5. ASSUME NEW b \in KBase,
             \/ SwitchKBase(b) \/ DeleteKBase(b)
             \/ \E line \in Line, sw \in BOOLEAN :
                  AddEntry(b, line, sw) \/ \E e \in entries[b] : EditEntry(b, e, line, sw)
             \/ \E e \in entries[b] : DeleteEntry(b, e)
      PROVE  FALSE
  BY <1>1, <1>5 DEF SwitchKBase, DeleteKBase, AddEntry, EditEntry, DeleteEntry, Edit
<1> QED BY <1>2, <1>3, <1>4, <1>5 DEF ImportNext

LEMMA ImportWrites ==
  ASSUME ImpInv, NEW u \in Upload, Import(u)
  PROVE  \E b \in KBase : WritesItsLines(u, b)
<1>0. ImportTyped /\ LinesStand
  BY DEF ImpInv
<1> DEFINE book == upload[u].book
           cols == ColumnsOf(book, Chosen(u))
           parsed == Parsed(book, cols)
           row == [cols |-> cols, on |-> upload[u].seen = NoKBase \/ upload[u].seen.on]
           paths == {p.path : p \in parsed}
           Names(es) == {e.path : e \in es}
<1>1. PICK b \in KBase :
        /\ IF upload[u].base # NoKBase THEN b = upload[u].base ELSE kb[b] = Unused
        /\ kb' = [kb EXCEPT ![b] = row]
        /\ entries' = [entries EXCEPT ![b] = After(b, parsed)]
        /\ report' = Summary(b, parsed)
        /\ history' = Recorded(b, u)
  BY DEF Import
<1>2. cols \in Cols /\ book \in Workbook
  <2>1. upload[u].at = "importing"
    BY DEF Import
  <2> QED BY <1>1, <2>1, ImportTarget
<1>3. /\ {PathOf(cols, book.lines[i]) : i \in DOMAIN book.lines} = paths
      /\ IsFiniteSet(parsed) /\ \A p, q \in parsed : p.path = q.path => p = q
  BY <1>2, PathsParsed, ParsedLines
<1>4. row.cols = cols
  OBVIOUS
<1> HIDE DEF cols, row, parsed
<1>5. /\ kb'[b] = row /\ entries'[b] = After(b, parsed) /\ [base |-> b, up |-> u] \in history'
      /\ \A c \in KBase \ {b} : kb'[c] = kb[c] /\ entries'[c] = entries[c]
  BY <1>0, <1>1 DEF ImportTyped, Recorded
<1>6. /\ \A e \in entries[b] : e.on \in BOOLEAN /\ e = [path |-> e.path, line |-> e.line, on |-> e.on]
      /\ \A e, f \in entries[b] : e.path = f.path => e = f
  BY <1>0 DEF LinesStand
<1> DEFINE Same(p) == \E e \in At(b, p.path) : e.line = p.line
           added == Cardinality({p \in parsed : At(b, p.path) = {}})
           updated == Cardinality({p \in parsed : At(b, p.path) # {} /\ ~Same(p)})
           skipped == Cardinality({p \in parsed : Same(p)})
<1>7. report'.added = added /\ report'.updated = updated /\ report'.skipped = skipped
  BY <1>1 DEF Summary
<1>8. /\ {e \in entries[b] : e.path \notin paths} = {e \in After(b, parsed) : e.path \notin paths}
      /\ paths \subseteq Names(After(b, parsed))
      /\ \A e \in entries[b], f \in After(b, parsed) : e.path = f.path => e.on = f.on
      /\ added = Cardinality(Names(After(b, parsed)) \ Names(entries[b]))
      /\ updated = Cardinality(Names(entries[b] \ After(b, parsed)))
      /\ skipped = Cardinality(paths) - added - updated
  <2> DEFINE before == entries[b]
  <2>1. /\ \A e \in before : e.on \in BOOLEAN /\ e = [path |-> e.path, line |-> e.line, on |-> e.on]
        /\ \A e, f \in before : e.path = f.path => e = f
    BY <1>6
  <2> DEFINE Of(p) == {e \in before : e.path = p.path}
             after == {e \in before : \A p \in parsed : p.path # e.path}
                        \cup {[path |-> p.path, line |-> p.line, on |-> \A e \in Of(p) : e.on] : p \in parsed}
             Alike(p) == \E e \in Of(p) : e.line = p.line
  <2>2. /\ {e \in before : e.path \notin paths} = {e \in after : e.path \notin paths}
        /\ paths \subseteq Names(after)
        /\ \A e \in before, f \in after : e.path = f.path => e.on = f.on
        /\ Cardinality({p \in parsed : Of(p) = {}}) = Cardinality(Names(after) \ Names(before))
        /\ Cardinality({p \in parsed : Of(p) # {} /\ ~Alike(p)}) = Cardinality(Names(before \ after))
        /\ Cardinality({p \in parsed : Alike(p)})
             = Cardinality(paths) - Cardinality({p \in parsed : Of(p) = {}})
                 - Cardinality({p \in parsed : Of(p) # {} /\ ~Alike(p)})
    <3>1. WritesItems(before, parsed)
      <4> HIDE DEF before
      <4> QED BY <1>3, <2>1, ItemsWritten
    <3> QED BY <3>1 DEF WritesItems
  <2>3. after = After(b, parsed)
    BY DEF After, At
  <2>4. \A p : At(b, p.path) = Of(p) /\ (Same(p) <=> Alike(p))
    BY DEF At
  <2> HIDE DEF after, Of, before
  <2>5. /\ {p \in parsed : Of(p) = {}} = {p \in parsed : At(b, p.path) = {}}
        /\ {p \in parsed : Of(p) # {} /\ ~Alike(p)} = {p \in parsed : At(b, p.path) # {} /\ ~Same(p)}
        /\ {p \in parsed : Alike(p)} = {p \in parsed : Same(p)}
    BY <2>4
  <2> QED BY <2>2, <2>3, <2>5 DEF before
<1> HIDE DEF added, updated, skipped
<1>9. {PathOf(kb'[b].cols, upload[u].book.lines[i]) : i \in DOMAIN upload[u].book.lines} = paths
  BY <1>3, <1>4, <1>5
<1>10. /\ {e \in entries[b] : e.path \notin paths} = {e \in entries'[b] : e.path \notin paths}
       /\ paths \subseteq Names(entries'[b])
       /\ \A e \in entries[b], f \in entries'[b] : e.path = f.path => e.on = f.on
       /\ report'.added = Cardinality(Names(entries'[b]) \ Names(entries[b]))
       /\ report'.updated = Cardinality(Names(entries[b] \ entries'[b]))
       /\ report'.skipped = Cardinality(paths) - report'.added - report'.updated
  BY <1>5, <1>7, <1>8
<1> HIDE DEF paths
<1> QED BY <1>5, <1>9, <1>10, Zenon DEF WritesItsLines

\* An import changes the items of its workbook in the base it finds, no switch and
\* no other base, and its report counts what it changed (importKnowledgeWorkbook).
THEOREM ImportsChangeTheirLines == ImportSpec => ImportChangesItsLines
<1>1. ASSUME ImpInv, [ImportNext]_importVars, NEW u \in Upload,
             upload[u].at = "importing", upload'[u].at = "imported"
      PROVE  \E b \in KBase : WritesItsLines(u, b)
  <2>1. upload' # upload
    BY <1>1
  <2>2. ImportNext
    BY <1>1, <2>1 DEF importVars, requestVars
  <2> QED BY <1>1, <2>2, OnlyImport, ImportWrites
<1>2. ASSUME ImpInv, [ImportNext]_importVars
      PROVE  \A u \in Upload : (upload[u].at = "importing" /\ upload'[u].at = "imported") =>
               \E b \in KBase : WritesItsLines(u, b)
  BY <1>1, <1>2
<1> QED BY <1>2, WorkbookInvariant, PTL DEF ImportSpec, ImportChangesItsLines

----------------------------------------------------------------------------
(* The choice of an item (KnowledgeMatch). *)

Stocks == [MItem -> [text : Text, on : BOOLEAN] \cup {NoText}]
Copy == [item : MItem, text : Text]

ResultsTyped(res) ==
  res = [r \in MRecord |-> res[r]] /\ \A r \in MRecord : res[r].item \in MItem \cup {0}

MatchTyped ==
  /\ stock \in Stocks /\ snapshots \in Seq(Stocks) /\ snapshots # <<>>
  /\ bound \in [MRecord -> 0 .. Len(snapshots)]
  /\ call = [m \in Matching |-> call[m]]
  /\ copies \in [MRecord -> Seq(Copy)]
  /\ ResultsTyped(result)
  /\ extract = [r \in MRecord |-> extract[r]]
  /\ \A c \in cache : c.item \in MItem /\ c.fresh \in BOOLEAN /\ c.key[2] = Ranked(c.seen)

\* A model is asked with the best items of the version that the record's job is
\* bound to.
AskedStand ==
  \A m \in Matching : call[m].at = "asking" =>
    /\ bound[m[1]] > 0 /\ call[m].query \in Query
    /\ call[m].offer = Best(snapshots[bound[m[1]]], call[m].query)

\* What a record of that version (v, whose snapshot is kept) holds.
HoldsOf(kept, v, cs, res, ext) ==
  /\ \A n \in 1 .. Len(cs) : /\ v > 0 /\ cs[n].item \in Enabled(kept)
                             /\ cs[n].text = kept[cs[n].item].text
  /\ res.st = "completed" =>
       /\ v > 0 /\ res.item \in Enabled(kept)
       /\ res.query \in Query /\ \E c \in Best(kept, res.query) : c.item = res.item
       /\ Ranked(res.seen) = Ranked(Best(kept, res.query))
       /\ \E n \in 1 .. Len(cs) : cs[n].item = res.item
  /\ ext.item # 0 => v > 0 /\ ext.text = kept[ext.item].text

RecordsHold ==
  \A r \in MRecord : HoldsOf(snapshots[bound[r]], bound[r], copies[r], result[r], extract[r])

MatchInv == MatchTyped /\ AskedStand /\ RecordsHold

\* What is offered is enabled.
LEMMA OfferedStands ==
  ASSUME NEW kept \in Stocks, NEW query, NEW c \in Best(kept, query)
  PROVE  /\ c.item \in Enabled(kept) /\ c.item \in MItem /\ kept[c.item] \in [text : Text, on : BOOLEAN]
         /\ c.text = kept[c.item].text /\ c.text \in Text
<1>1. c.item \in Enabled(kept) /\ c.text = kept[c.item].text
  <2>1. PICK i \in Enabled(kept) :
          c = [item |-> i, text |-> kept[i].text, score |-> Score(kept, query, i)]
    BY DEF Best
  <2> QED BY <2>1
<1>2. c.item \in MItem /\ kept[c.item] # NoText
  BY <1>1 DEF Enabled
<1>3. kept[c.item] \in [text : Text, on : BOOLEAN]
  BY <1>2 DEF Stocks
<1> QED BY <1>1, <1>2, <1>3

LEMMA MatchInitially == MatchInit => MatchInv
<1> SUFFICES ASSUME MatchInit PROVE MatchInv
  OBVIOUS
<1>1. stock \in Stocks /\ snapshots = <<stock>>
  BY DEF MatchInit, Stocks
<1>2. snapshots \in Seq(Stocks) /\ snapshots # <<>> /\ Len(snapshots) = 1
  BY <1>1
<1>3. \A r \in MRecord : /\ bound[r] = 0 /\ copies[r] = <<>> /\ result[r] = NoMatch
                         /\ extract[r] = [item |-> 0, text |-> NoText]
  BY DEF MatchInit
<1>4. /\ bound \in [MRecord -> 0 .. Len(snapshots)] /\ copies \in [MRecord -> Seq(Copy)]
      /\ ResultsTyped(result)
      /\ call = [m \in Matching |-> call[m]] /\ extract = [r \in MRecord |-> extract[r]] /\ cache = {}
  BY <1>2 DEF MatchInit, NoMatch, ResultsTyped
<1>5. MatchTyped
  BY <1>1, <1>2, <1>4 DEF MatchTyped
<1>6. AskedStand
  BY DEF MatchInit, AskedStand, NoCall
<1>7. RecordsHold
  BY <1>3 DEF RecordsHold, HoldsOf, NoMatch
<1> QED BY <1>5, <1>6, <1>7 DEF MatchInv

\* The base is edited and published; the versions there are stay.
LEMMA StockStep ==
  ASSUME MatchInv,
         \/ \E i \in MItem : DropItem(i) \/ \E t \in Text, b \in BOOLEAN : SaveItem(i, t, b)
         \/ PublishKnowledge
  PROVE  MatchInv'
<1>0. MatchTyped /\ AskedStand /\ RecordsHold
  BY DEF MatchInv
<1>1. UNCHANGED <<bound, call, called, cancelled, cache, copies, result, extract>>
  BY DEF DropItem, SaveItem, PublishKnowledge, Touch
<1>2. stock' \in Stocks
  <2>0. stock \in Stocks
    BY <1>0 DEF MatchTyped
  <2>1. CASE \E i \in MItem : DropItem(i)
    BY <2>0, <2>1 DEF Stocks, DropItem
  <2>2. CASE \E i \in MItem, t \in Text, b \in BOOLEAN : SaveItem(i, t, b)
    <3>1. PICK i \in MItem, t \in Text, b \in BOOLEAN : stock' = [stock EXCEPT ![i] = [text |-> t, on |-> b]]
      BY <2>2 DEF SaveItem
    <3> QED BY <2>0, <3>1 DEF Stocks
  <2>3. CASE PublishKnowledge
    BY <2>0, <2>3 DEF PublishKnowledge
  <2> QED BY <2>1, <2>2, <2>3
<1>3. snapshots' = snapshots \/ snapshots' = Append(snapshots, stock)
  BY DEF DropItem, SaveItem, PublishKnowledge
<1>4. /\ snapshots' \in Seq(Stocks) /\ snapshots' # <<>> /\ Len(snapshots') \in Nat
      /\ Len(snapshots) \in Nat /\ Len(snapshots) <= Len(snapshots')
      /\ \A v \in 1 .. Len(snapshots) : snapshots'[v] = snapshots[v]
  <2>1. snapshots \in Seq(Stocks) /\ snapshots # <<>> /\ stock \in Stocks
    BY <1>0 DEF MatchTyped
  <2>2. CASE snapshots' = snapshots
    BY <2>1, <2>2
  <2>3. CASE snapshots' = Append(snapshots, stock)
    <3>1. /\ Len(snapshots') = Len(snapshots) + 1 /\ Len(snapshots) \in Nat
          /\ \A v \in 1 .. Len(snapshots) : snapshots'[v] = snapshots[v]
      BY <2>1, <2>3
    <3>2. snapshots' \in Seq(Stocks) /\ snapshots' # <<>>
      BY <2>1, <2>3
    <3> QED BY <3>1, <3>2
  <2> QED BY <1>3, <2>2, <2>3
<1>5. \A r \in MRecord : bound[r] \in 0 .. Len(snapshots)
  BY <1>0 DEF MatchTyped
<1>6. MatchTyped'
  <2>1. bound' \in [MRecord -> 0 .. Len(snapshots')]
    BY <1>0, <1>1, <1>4 DEF MatchTyped
  <2> QED BY <1>0, <1>1, <1>2, <1>4, <2>1 DEF MatchTyped
<1>7. \A r \in MRecord : bound[r] > 0 => snapshots'[bound[r]] = snapshots[bound[r]]
  BY <1>4, <1>5
<1>8. AskedStand'
  BY <1>0, <1>1, <1>7 DEF AskedStand, Matching
<1>9. RecordsHold'
  BY <1>0, <1>1, <1>7 DEF RecordsHold, HoldsOf
<1> QED BY <1>6, <1>8, <1>9 DEF MatchInv

\* A candidate of the record's version is stored.
LEMMA MatchedStep ==
  ASSUME MatchInv, NEW r \in MRecord, NEW v \in 1 .. Len(snapshots), bound[r] \in {0, v},
         NEW query \in Query, NEW c \in Best(snapshots[v], query), NEW seen,
         Ranked(seen) = Ranked(Best(snapshots[v], query)), Matched(r, c, query, seen)
  PROVE  /\ HoldsOf(snapshots[v], v, copies'[r], result'[r], extract[r])
         /\ copies' \in [MRecord -> Seq(Copy)]
         /\ ResultsTyped(result')
         /\ \A s \in MRecord \ {r} : copies'[s] = copies[s] /\ result'[s] = result[s]
<1>0. MatchTyped /\ RecordsHold
  BY DEF MatchInv
<1> DEFINE kept == snapshots[v]
<1>1. kept \in Stocks /\ v > 0
  BY <1>0 DEF MatchTyped
<1>2. /\ c.item \in Enabled(kept) /\ c.item \in MItem /\ c.text = kept[c.item].text /\ c.text \in Text
  BY <1>1, OfferedStands
<1> DEFINE x == [item |-> c.item, text |-> c.text]
           done == [st |-> "completed", item |-> c.item, query |-> query, seen |-> seen]
<1>3. x \in Copy /\ x.item \in Enabled(kept) /\ x.text = kept[x.item].text
  BY <1>2 DEF Copy
<1>4. /\ copies' = [copies EXCEPT ![r] = Append(copies[r], x)]
      /\ result' = [result EXCEPT ![r] = done]
  BY <1>0 DEF Matched, MatchTyped
<1>5. copies[r] \in Seq(Copy)
  BY <1>0 DEF MatchTyped
<1> HIDE DEF x
<1>6. copies'[r] = Append(copies[r], x) /\ result'[r] = done
  BY <1>0, <1>4 DEF MatchTyped, ResultsTyped
<1>7. HoldsOf(snapshots[bound[r]], bound[r], copies[r], result[r], extract[r])
  BY <1>0 DEF RecordsHold
<1>8. /\ \A n \in 1 .. Len(copies[r]) : /\ copies[r][n].item \in Enabled(kept)
                                       /\ copies[r][n].text = kept[copies[r][n].item].text
      /\ extract[r].item # 0 => extract[r].text = kept[extract[r].item].text
  BY <1>1, <1>7 DEF HoldsOf
<1>9. /\ Len(copies'[r]) = Len(copies[r]) + 1 /\ Len(copies[r]) \in Nat
      /\ \A n \in 1 .. Len(copies'[r]) :
           copies'[r][n] = x \/ (n \in 1 .. Len(copies[r]) /\ copies'[r][n] = copies[r][n])
      /\ copies'[r][Len(copies[r]) + 1] = x
  BY <1>3, <1>5, <1>6
<1>10. \A n \in 1 .. Len(copies'[r]) : /\ copies'[r][n].item \in Enabled(kept)
                                       /\ copies'[r][n].text = kept[copies'[r][n].item].text
  BY <1>3, <1>8, <1>9
<1>11. \E n \in 1 .. Len(copies'[r]) : copies'[r][n].item = c.item
  BY <1>9 DEF x
<1>12. HoldsOf(kept, v, copies'[r], result'[r], extract[r])
  <2> HIDE DEF kept
  <2>1. result'[r].item = c.item /\ result'[r].query = query /\ result'[r].seen = seen
    BY <1>6
  <2>2. /\ \E k \in Best(kept, query) : k.item = result'[r].item
        /\ Ranked(seen) = Ranked(Best(kept, query))
    BY <2>1 DEF kept
  <2> QED BY <1>1, <1>2, <1>8, <1>10, <1>11, <2>1, <2>2 DEF HoldsOf
<1>13. copies' \in [MRecord -> Seq(Copy)]
  BY <1>0, <1>3, <1>4, <1>5 DEF MatchTyped
<1>14. ResultsTyped(result')
  BY <1>0, <1>2, <1>4 DEF MatchTyped, ResultsTyped
<1> QED BY <1>0, <1>4, <1>12, <1>13, <1>14 DEF MatchTyped, ResultsTyped

\* A record's analysis begins.
LEMMA BeginMatchStep ==
  ASSUME MatchInv, NEW r \in MRecord, BeginMatch(r)
  PROVE  MatchInv'
<1>0. MatchTyped /\ AskedStand /\ RecordsHold
  BY DEF MatchInv
<1> DEFINE m == <<r, called[r] + 1>>
           v == IF bound[r] = 0 THEN Len(snapshots) ELSE bound[r]
<1>1. UNCHANGED <<stock, snapshots, cancelled, extract>> /\ bound' = [bound EXCEPT ![r] = v]
  BY DEF BeginMatch
<1>2. v \in 1 .. Len(snapshots) /\ bound[r] \in {0, v} /\ snapshots[v] \in Stocks
  <2>1. Len(snapshots) \in Nat /\ Len(snapshots) > 0 /\ bound[r] \in 0 .. Len(snapshots)
    BY <1>0 DEF MatchTyped
  <2>2. v \in 1 .. Len(snapshots) /\ bound[r] \in {0, v}
    BY <2>1
  <2>3. snapshots \in Seq(Stocks)
    BY <1>0 DEF MatchTyped
  <2> HIDE DEF v
  <2> QED BY <2>2, <2>3
<1>3. PICK query \in Query :
        LET offer == Best(snapshots[v], query) IN
        \/ /\ offer = {}
           /\ Concludes(r, "needs_review")
           /\ UNCHANGED <<call, cache, copies>>
        \/ /\ offer # {}
           /\ \E hit \in Hits(query, offer), c \in offer : 
                c.item = hit.item /\ Matched(r, c, query, hit.seen)
           /\ UNCHANGED <<call, cache>>
        \/ /\ offer # {} /\ Hits(query, offer) = {}
           /\ cache' = cache \ Remembered(Key(query, offer))
           /\ call' = [call EXCEPT ![m] = [at |-> "asking", query |-> query, offer |-> offer]]
           /\ UNCHANGED <<copies, result>>
  BY DEF BeginMatch
<1> DEFINE offer == Best(snapshots[v], query)
<1> HIDE DEF v
<1>4. bound' \in [MRecord -> 0 .. Len(snapshots)] /\ bound'[r] = v /\ v > 0
      /\ \A s \in MRecord : s # r => bound'[s] = bound[s]
  BY <1>0, <1>1, <1>2 DEF MatchTyped
<1>5. HoldsOf(snapshots[bound[r]], bound[r], copies[r], result[r], extract[r])
  BY <1>0 DEF RecordsHold
<1>6. /\ HoldsOf(snapshots[v], v, copies'[r], result'[r], extract[r])
      /\ copies' \in [MRecord -> Seq(Copy)]
      /\ ResultsTyped(result')
      /\ \A s \in MRecord \ {r} : copies'[s] = copies[s] /\ result'[s] = result[s]
  <2>1. CASE Concludes(r, "needs_review") /\ UNCHANGED copies
    <3> DEFINE none == [NoMatch EXCEPT !.st = "needs_review"]
    <3>1. result' = [result EXCEPT ![r] = none] /\ none.item = 0 /\ none.st = "needs_review"
      BY <2>1 DEF Concludes, NoMatch
    <3> HIDE DEF none
    <3>2. ResultsTyped(result')
      BY <1>0, <3>1 DEF MatchTyped, ResultsTyped
    <3>3. result'[r].st # "completed" /\ \A s \in MRecord \ {r} : result'[s] = result[s]
      BY <1>0, <3>1 DEF MatchTyped, ResultsTyped
    <3>4. HoldsOf(snapshots[v], v, copies'[r], result'[r], extract[r])
      BY <1>2, <1>4, <1>5, <2>1, <3>3 DEF HoldsOf
    <3> QED BY <1>0, <2>1, <3>2, <3>3, <3>4 DEF MatchTyped
  <2>2. CASE \E hit \in Hits(query, offer), c \in offer :
               c.item = hit.item /\ Matched(r, c, query, hit.seen)
    <3>1. PICK hit \in Hits(query, offer), c \in Best(snapshots[v], query) :
            Matched(r, c, query, hit.seen)
      BY <2>2
    <3>2. hit \in cache /\ hit.key = Key(query, offer)
      BY DEF Hits, Remembered
    <3>3. hit.key[2] = Ranked(hit.seen)
      BY <1>0, <3>2 DEF MatchTyped
    <3>4. Ranked(hit.seen) = Ranked(Best(snapshots[v], query))
      BY <3>2, <3>3 DEF Key
    <3> QED BY <1>2, <3>1, <3>4, MatchedStep
  <2>3. CASE UNCHANGED <<copies, result>>
    <3>1. HoldsOf(snapshots[v], v, copies'[r], result'[r], extract[r])
      BY <1>2, <1>4, <1>5, <2>3 DEF HoldsOf
    <3> QED BY <1>0, <2>3, <3>1 DEF MatchTyped
  <2> QED BY <1>3, <2>1, <2>2, <2>3
<1>7. RecordsHold'
  <2> SUFFICES ASSUME NEW s \in MRecord
               PROVE  HoldsOf(snapshots[bound'[s]], bound'[s], copies'[s], result'[s], extract[s])
    BY <1>1 DEF RecordsHold, HoldsOf
  <2>1. CASE s = r
    BY <1>4, <1>6, <2>1
  <2>2. CASE s # r
    BY <1>0, <1>4, <1>6, <2>2 DEF RecordsHold
  <2> QED BY <2>1, <2>2
<1>8. cache' \subseteq cache
  BY <1>3
<1>9. /\ call' = [k \in Matching |-> call'[k]]
      /\ \A k \in Matching : call'[k] = call[k] \/
           (k = m /\ call'[k] = [at |-> "asking", query |-> query, offer |-> offer])
  BY <1>0, <1>3 DEF MatchTyped
<1>10. AskedStand'
  <2> SUFFICES ASSUME NEW k \in Matching, call'[k].at = "asking"
               PROVE  /\ bound'[k[1]] > 0 /\ call'[k].query \in Query
                      /\ call'[k].offer = Best(snapshots[bound'[k[1]]], call'[k].query)
    BY <1>1 DEF AskedStand
  <2>1. CASE call'[k] = call[k]
    <3>1. /\ bound[k[1]] > 0 /\ call[k].query \in Query /\ k[1] \in MRecord
          /\ call[k].offer = Best(snapshots[bound[k[1]]], call[k].query)
      BY <1>0, <2>1 DEF AskedStand, Matching
    <3>2. bound'[k[1]] = bound[k[1]]
      BY <1>2, <1>4, <3>1
    <3> QED BY <2>1, <3>1, <3>2
  <2>2. CASE k = m /\ call'[k] = [at |-> "asking", query |-> query, offer |-> offer]
    BY <1>4, <2>2
  <2> QED BY <1>9, <2>1, <2>2
<1>11. MatchTyped'
  BY <1>0, <1>1, <1>4, <1>6, <1>8, <1>9 DEF MatchTyped
<1> QED BY <1>7, <1>10, <1>11 DEF MatchInv

\* A call ends, with or without a choice.
LEMMA AnswerMatchStep ==
  ASSUME MatchInv, NEW m \in Matching,
         Choose(m) \/ DropLate(m) \/ \E st \in {"needs_review", "failed"} : NoChoice(m, st)
  PROVE  MatchInv'
<1>0. MatchTyped /\ AskedStand /\ RecordsHold
  BY DEF MatchInv
<1> DEFINE r == m[1]
<1>1. /\ UNCHANGED <<stock, snapshots, bound, extract>> /\ call[m].at = "asking" /\ r \in MRecord
      /\ call' = [call EXCEPT ![m] = [NoCall EXCEPT !.at = "ended"]]
  BY DEF Choose, DropLate, NoChoice, Ends, Matching
<1>2. /\ bound[r] > 0 /\ bound[r] \in 1 .. Len(snapshots) /\ snapshots[bound[r]] \in Stocks
      /\ call[m].query \in Query /\ call[m].offer = Best(snapshots[bound[r]], call[m].query)
  <2>1. /\ bound[r] > 0 /\ call[m].query \in Query
        /\ call[m].offer = Best(snapshots[bound[r]], call[m].query)
    BY <1>0, <1>1 DEF AskedStand
  <2>2. bound[r] \in 0 .. Len(snapshots) /\ snapshots \in Seq(Stocks)
    BY <1>0, <1>1 DEF MatchTyped
  <2> QED BY <2>1, <2>2
<1> DEFINE v == bound[r]
           query == call[m].query
           offer == call[m].offer
<1>3. HoldsOf(snapshots[v], v, copies[r], result[r], extract[r])
  BY <1>0, <1>1 DEF RecordsHold
<1>4. /\ HoldsOf(snapshots[v], v, copies'[r], result'[r], extract[r])
      /\ copies' \in [MRecord -> Seq(Copy)]
      /\ ResultsTyped(result')
      /\ \A s \in MRecord \ {r} : copies'[s] = copies[s] /\ result'[s] = result[s]
  <2>1. CASE \E st \in {"needs_review", "failed"} : NoChoice(m, st)
    <3>1. PICK st \in {"needs_review", "failed"} : NoChoice(m, st)
      BY <2>1
    <3> DEFINE none == [NoMatch EXCEPT !.st = st]
    <3>4. none.item = 0 /\ none.st = st
      BY DEF NoMatch
    <3>5. result' = [result EXCEPT ![r] = none] /\ copies' = copies
      BY <3>1 DEF NoChoice, Concludes
    <3> HIDE DEF none
    <3>2. ResultsTyped(result')
      BY <1>0, <3>4, <3>5 DEF MatchTyped, ResultsTyped
    <3> HIDE DEF r
    <3>3. result'[r].st # "completed" /\ \A s \in MRecord \ {r} : result'[s] = result[s]
      BY <1>0, <1>1, <3>4, <3>5 DEF MatchTyped, ResultsTyped
    <3>6. HoldsOf(snapshots[v], v, copies'[r], result'[r], extract[r])
      BY <1>3, <3>3, <3>5 DEF HoldsOf
    <3> QED BY <1>0, <3>2, <3>3, <3>5, <3>6 DEF MatchTyped
  <2>2. CASE Choose(m)
    <3>1. PICK c \in offer : Matched(r, c, query, offer)
      BY <2>2 DEF Choose
    <3>4. offer = Best(snapshots[v], query)
      BY <1>2
    <3>2. c \in Best(snapshots[v], query)
      BY <1>2, <3>1
    <3>3. v \in 1 .. Len(snapshots) /\ query \in Query /\ bound[r] \in {0, v}
      BY <1>2
    <3> HIDE DEF v, query, offer, r
    <3> QED BY <1>1, <3>1, <3>2, <3>3, <3>4, MatchedStep
  <2>3. CASE DropLate(m)
    <3>1. UNCHANGED <<copies, result>>
      BY <2>3 DEF DropLate
    <3> QED BY <1>0, <1>3, <3>1 DEF MatchTyped
  <2> QED BY <2>1, <2>2, <2>3
<1>5. RecordsHold'
  <2> SUFFICES ASSUME NEW s \in MRecord
               PROVE  HoldsOf(snapshots[bound[s]], bound[s], copies'[s], result'[s], extract[s])
    BY <1>1 DEF RecordsHold, HoldsOf
  <2>1. CASE s = r
    BY <1>4, <2>1
  <2>2. CASE s # r
    BY <1>0, <1>4, <2>2 DEF RecordsHold
  <2> QED BY <2>1, <2>2
<1>6. /\ call' = [k \in Matching |-> call'[k]]
      /\ \A k \in Matching : call'[k] = call[k] \/ call'[k].at = "ended"
  BY <1>0, <1>1 DEF MatchTyped, NoCall
<1>7. AskedStand'
  BY <1>0, <1>1, <1>6 DEF AskedStand
<1>8. \A k \in cache' : k.item \in MItem /\ k.fresh \in BOOLEAN /\ k.key[2] = Ranked(k.seen)
  <2>0. \A k \in cache : k.item \in MItem /\ k.fresh \in BOOLEAN /\ k.key[2] = Ranked(k.seen)
    BY <1>0 DEF MatchTyped
  <2>1. CASE cache' = cache
    BY <2>0, <2>1
  <2>2. CASE Choose(m)
    <3>1. PICK c \in offer :
            cache' = (cache \ Remembered(Key(query, offer)))
                       \cup {[key |-> Key(query, offer), item |-> c.item, fresh |-> TRUE,
                              seen |-> offer]}
      BY <2>2 DEF Choose
    <3> DEFINE new == [key |-> Key(query, offer), item |-> c.item, fresh |-> TRUE, seen |-> offer]
    <3>2. c \in Best(snapshots[v], query) /\ snapshots[v] \in Stocks
      BY <1>2, <3>1
    <3>3. c.item \in MItem
      <4> HIDE DEF v, query
      <4> QED BY <3>2, OfferedStands
    <3>4. new.item \in MItem /\ new.fresh \in BOOLEAN /\ new.key[2] = Ranked(new.seen)
      BY <3>3 DEF Key
    <3>5. \A k \in cache' : k \in cache \/ k = new
      BY <3>1
    <3> HIDE DEF new
    <3> QED BY <2>0, <3>4, <3>5
  <2> QED BY <2>1, <2>2 DEF DropLate, NoChoice
<1>9. MatchTyped'
  BY <1>0, <1>1, <1>4, <1>6, <1>8 DEF MatchTyped
<1> QED BY <1>5, <1>7, <1>9 DEF MatchInv

\* What the extracting field reads is one of the record's copies.
LEMMA ExtractStep ==
  ASSUME MatchInv, NEW r \in MRecord, ExtractValue(r)
  PROVE  MatchInv'
<1>0. MatchTyped /\ AskedStand /\ RecordsHold
  BY DEF MatchInv
<1>1. UNCHANGED <<stock, snapshots, bound, call, called, cancelled, cache, copies, result, touches>>
  BY DEF ExtractValue
<1> DEFINE found == {n \in 1 .. Len(copies[r]) : copies[r][n].item = result[r].item}
           e == IF found = {} THEN [item |-> 0, text |-> NoText]
                ELSE copies[r][CHOOSE n \in found : \A k \in found : k <= n]
<1>2. extract' = [extract EXCEPT ![r] = e]
  BY DEF ExtractValue
<1>3. e.item = 0 \/ \E n \in 1 .. Len(copies[r]) : e = copies[r][n]
  <2>1. CASE found = {}
    BY <2>1
  <2>2. CASE found # {}
    <3> DEFINE n == CHOOSE n \in found : \A k \in found : k <= n
    <3>1. Len(copies[r]) \in Nat /\ found \in SUBSET (1 .. Len(copies[r]))
      BY <1>0 DEF MatchTyped
    <3>2. \E m \in found : \A k \in found : k <= m
      <4> HIDE DEF found
      <4> QED BY <2>2, <3>1, LatestOf
    <3>3. n \in found
      BY <3>2
    <3>4. e = copies[r][n]
      BY <2>2
    <3> QED BY <3>3, <3>4
  <2> QED BY <2>1, <2>2
<1> HIDE DEF e
<1>4. HoldsOf(snapshots[bound[r]], bound[r], copies[r], result[r], extract[r])
  BY <1>0 DEF RecordsHold
<1>5. HoldsOf(snapshots[bound[r]], bound[r], copies[r], result[r], e)
  <2>1. e.item # 0 => bound[r] > 0 /\ e.text = snapshots[bound[r]][e.item].text
    BY <1>3, <1>4 DEF HoldsOf
  <2> QED BY <1>4, <2>1 DEF HoldsOf
<1>6. extract'[r] = e /\ \A s \in MRecord : s # r => extract'[s] = extract[s]
  BY <1>0, <1>2 DEF MatchTyped
<1>7. RecordsHold'
  <2> SUFFICES ASSUME NEW s \in MRecord
               PROVE  HoldsOf(snapshots[bound[s]], bound[s], copies[s], result[s], extract'[s])
    BY <1>1 DEF RecordsHold, HoldsOf
  <2> QED BY <1>0, <1>5, <1>6 DEF RecordsHold
<1>8. MatchTyped'
  <2>1. extract' = [s \in MRecord |-> extract'[s]]
    BY <1>0, <1>2 DEF MatchTyped
  <2> QED BY <1>0, <1>1, <2>1 DEF MatchTyped
<1> QED BY <1>0, <1>1, <1>7, <1>8 DEF MatchInv, AskedStand

LEMMA MatchStep == MatchInv /\ [MatchNext]_matchVars => MatchInv'
<1> SUFFICES ASSUME MatchInv, [MatchNext]_matchVars PROVE MatchInv'
  OBVIOUS
<1>0. MatchTyped /\ AskedStand /\ RecordsHold
  BY DEF MatchInv
<1>1. CASE \/ \E i \in MItem : DropItem(i) \/ \E t \in Text, b \in BOOLEAN : SaveItem(i, t, b)
           \/ PublishKnowledge
  BY <1>1, StockStep
<1>2. CASE \E r \in MRecord : BeginMatch(r)
  BY <1>2, BeginMatchStep
<1>3. CASE \E r \in MRecord : ExtractValue(r)
  BY <1>3, ExtractStep
<1>4. CASE \E m \in Matching : \/ Choose(m) \/ DropLate(m)
                               \/ \E st \in {"needs_review", "failed"} : NoChoice(m, st)
  BY <1>4, AnswerMatchStep
<1>5. CASE \E m \in Matching : CancelMatch(m)
  BY <1>0, <1>5 DEF CancelMatch, MatchInv, MatchTyped, AskedStand, RecordsHold, HoldsOf
<1>6. CASE Forget
  <2>1. UNCHANGED <<stock, snapshots, bound, call, copies, result, extract>>
    BY <1>6 DEF Forget
  <2>2. \A k \in cache' : k.item \in MItem /\ k.fresh \in BOOLEAN /\ k.key[2] = Ranked(k.seen)
    <3>1. PICK c \in cache : cache' = (cache \ {c}) \cup {[c EXCEPT !.fresh = FALSE]} \/ cache' = {}
      BY <1>6 DEF Forget
    <3> DEFINE old == [c EXCEPT !.fresh = FALSE]
    <3>2. /\ old.item = c.item /\ old.key = c.key /\ old.seen = c.seen
          /\ old.fresh = FALSE \/ old.fresh = c.fresh
      OBVIOUS
    <3>3. \A k \in cache' : k \in cache \/ k = old
      BY <3>1
    <3> HIDE DEF old
    <3> QED BY <1>0, <3>2, <3>3 DEF MatchTyped
  <2> QED BY <1>0, <2>1, <2>2 DEF MatchInv, MatchTyped, AskedStand, RecordsHold, HoldsOf
<1>7. CASE UNCHANGED matchVars
  BY <1>0, <1>7 DEF matchVars, MatchInv, MatchTyped, AskedStand, RecordsHold, HoldsOf
<1> QED BY <1>1, <1>2, <1>3, <1>4, <1>5, <1>6, <1>7 DEF MatchNext

LEMMA MatchInvStands == MatchInv => MatchStands
<1> SUFFICES ASSUME MatchInv PROVE MatchStands
  OBVIOUS
<1>0. MatchTyped /\ RecordsHold
  BY DEF MatchInv
<1>1. MatchTypeOK
  <2>1. \A i \in MItem : stock[i] # NoText => stock[i] \in [text : Text, on : BOOLEAN]
    BY <1>0 DEF MatchTyped, Stocks
  <2>2. \A r \in MRecord : result[r].item \in MItem \cup {0}
    BY <1>0 DEF MatchTyped, ResultsTyped
  <2> QED BY <1>0, <2>1, <2>2 DEF MatchTyped, MatchTypeOK
<1> QED BY <1>0, <1>1 DEF RecordsHold, HoldsOf, MatchStands

\* MatchInv holds throughout, for any records, items, texts, scores and limits:
\* edits, publications and late answers of the model keep it.
THEOREM MatchInvariant == MatchSpec => []MatchInv
<1>1. MatchInv /\ [MatchNext]_matchVars => MatchInv'
  BY MatchStep
<1> QED BY MatchInitially, <1>1, PTL DEF MatchSpec

\* The item of a record is among the best of its job's own version for its
\* question, it was chosen from candidates of the same items and scores, and what
\* is stored and read of it is that version's text, also when the choice was
\* remembered from another record, of another version or of older texts that
\* score the same (matchKnowledgeItem, buildCacheKey, extractKnowledgeValue).
THEOREM MatchesStand == MatchSpec => []MatchStands
BY MatchInvariant, MatchInvStands, PTL

----------------------------------------------------------------------------
(* The page of the bases (KnowledgeDesk). *)

KbValue == {"gone", "on", "off", "switched"}
KbRows == UNION {[S -> KbValue] : S \in SUBSET KbItem}
Editor == [item : KbItem \cup {None}, saving : 0 .. 2, value : KbValue]
Listing == [page : Int, of : Int, pages : Int, rows : KbRows, ticked : SUBSET KbItem, locked : BOOLEAN,
            doomed : KbItem \cup {None}, editor : Editor \cup {None}, fetch : Fetch \cup {None},
            fault : BOOLEAN]
DeskState == [tab : {"content", "items", "search"}, bases : SUBSET KbBase, sel : KbBase \cup {None},
              loading : BOOLEAN]
ImportForm == [target : KbBase \cup {None}, file : KbFile \cup {None}, shown : KbFile \cup {None},
               reading : SUBSET KbFile, sent : BOOLEAN]

DeskTyped ==
  /\ kbs \subseteq KbBase /\ stored \in [KbItem -> KbValue]
  /\ \A r \in asked : r.seen \subseteq KbBase
  /\ desk \in DeskState /\ desk.sel \in desk.bases \cup {None}
  /\ form \in ImportForm \cup {None} /\ (form # None => form.shown \in {None, form.file})
  /\ probe \in [seek : {None, desk.sel}, found : {None, desk.sel}]

\* What the list shows, ticks and asks about is of the base selected; a list
\* that is not on the screen keeps nothing.
PaneStands(d, l) ==
  /\ l \in Listing
  /\ ~Listed(d) => l = Shut
  /\ \A i \in DOMAIN l.rows \cup l.ticked : BaseOf[i] = d.sel
  /\ l.doomed # None => BaseOf[l.doomed] = d.sel
  /\ (l.editor # None /\ l.editor.item # None) => BaseOf[l.editor.item] = d.sel
  /\ l.fetch # None => l.fetch.page = l.page
  /\ (Listed(d) /\ l.fetch = None /\ ~l.fault) => l.of = l.page

\* One change at most is the list's own, and it locks it.
Own(o) == o # None /\ o.cur
ChangesStand(d, l, ops) ==
  /\ ops \in [Slot -> KbChange \cup {None}]
  /\ l.locked <=> \E s \in Slot : Own(ops[s])
  /\ \A s, t \in Slot : Own(ops[s]) /\ Own(ops[t]) => s = t
  /\ \A s \in Slot : Own(ops[s]) =>
       ops[s].kind \notin {"base", "save"} /\ \A i \in ops[s].items : BaseOf[i] = d.sel
  /\ \A s \in Slot : ops[s] # None /\ ops[s].ref = Here => Listed(d)

DeskInv == DeskTyped /\ PaneStands(desk, listing) /\ ChangesStand(desk, listing, op)

\* A list that is opened reads its first page.
LEMMA ShutList ==
  /\ Shut \in Listing /\ DOMAIN Shut.rows = {} /\ Shut.ticked = {} /\ ~Shut.locked
  /\ Shut.doomed = None /\ Shut.editor = None /\ Shut.fetch = None
<1>1. Empty \in KbRows /\ DOMAIN Empty = {}
  <2>1. Empty \in [{} -> KbValue]
    BY DEF Empty
  <2> QED BY <2>1 DEF KbRows
<1> QED BY <1>1 DEF Shut, Listing

LEMMA SameList ==
  ASSUME NEW l \in Listing, l.locked = FALSE
  PROVE  [l EXCEPT !.locked = FALSE] = l
BY DEF Listing

LEMMA LoadList ==
  ASSUME NEW l \in Listing, NEW p \in Int, NEW by \in 0 .. 2
  PROVE  /\ Load(l, p, by) \in Listing /\ Load(l, p, by).fetch # None
         /\ Load(l, p, by).page = p /\ Load(l, p, by).fetch.page = p
         /\ Load(l, p, by).rows = l.rows /\ Load(l, p, by).ticked = l.ticked
         /\ Load(l, p, by).locked = l.locked /\ Load(l, p, by).doomed = l.doomed
         /\ Load(l, p, by).editor = l.editor
<1>1. [page |-> p, by |-> by] \in Fetch /\ [page |-> p, by |-> by] # None
  BY DeskAssumption DEF Fetch
<1> QED BY <1>1 DEF Load, Listing

LEMMA DeskInitially == KbInit => DeskInv
<1> SUFFICES ASSUME KbInit PROVE DeskInv
  OBVIOUS
<1>1. kbs \subseteq KbBase /\ stored \in [KbItem -> KbValue]
  BY DEF KbInit, KbValue
<1>2. desk \in DeskState /\ desk.sel = None /\ ~Listed(desk)
  BY DEF KbInit, DeskState, Listed
<1>3. DeskTyped
  BY <1>1, <1>2 DEF KbInit, DeskTyped
<1>4. PaneStands(desk, listing)
  BY <1>2, ShutList DEF KbInit, PaneStands
<1>5. ChangesStand(desk, listing, op)
  BY ShutList DEF KbInit, ChangesStand, Own
<1> QED BY <1>3, <1>4, <1>5 DEF DeskInv

\* What is shown changes: a list that is left is forgotten, and a change begun
\* in it is no longer the list's own.
LEMMA ShowStep ==
  ASSUME DeskInv, NEW d \in DeskState, d.sel \in d.bases \cup {None},
         NEW ops \in [Slot -> KbChange \cup {None}], \A s \in Slot : ops[s] \in {op[s], None},
         Listed(desk) /\ Listed(d) /\ d.sel = desk.sel => ops = op,
         Show(d, ops)
  PROVE  /\ desk' = d /\ probe' \in [seek : {None, d.sel}, found : {None, d.sel}]
         /\ PaneStands(desk', listing') /\ ChangesStand(desk', listing', op')
<1>0. DeskTyped /\ PaneStands(desk, listing) /\ ChangesStand(desk, listing, op)
  BY DEF DeskInv
<1>1. /\ desk' = d
      /\ listing' = IF ~Listed(d) THEN Shut
                    ELSE IF Listed(desk) /\ d.sel = desk.sel THEN listing
                    ELSE Load(Shut, 1, 0)
      /\ op' = [s \in Slot |-> IF ops[s] = None THEN None ELSE Left(ops[s], d)]
      /\ probe' = IF Searching(d) /\ d.sel = desk.sel THEN probe ELSE [seek |-> None, found |-> None]
  BY DEF Show
<1>2. probe' \in [seek : {None, d.sel}, found : {None, d.sel}]
  BY <1>0, <1>1 DEF DeskTyped
<1>3. CASE Listed(desk) /\ Listed(d) /\ d.sel = desk.sel
  <2>1. listing' = listing /\ op' = [s \in Slot |-> op[s]]
    BY <1>1, <1>3 DEF Left
  <2>2. op' = op
    BY <1>0, <2>1 DEF ChangesStand
  <2>3. PaneStands(d, listing) /\ ChangesStand(d, listing, op)
    BY <1>0, <1>3 DEF PaneStands, ChangesStand
  <2> QED BY <1>1, <1>2, <2>1, <2>2, <2>3
<1>4. CASE ~(Listed(desk) /\ Listed(d) /\ d.sel = desk.sel)
  <2>1. \A s \in Slot : op'[s] # None =>
          /\ op'[s] \in KbChange /\ ~op'[s].cur /\ (op'[s].ref = Here => Listed(d))
    <3> SUFFICES ASSUME NEW s \in Slot, op'[s] # None
                 PROVE  op'[s] \in KbChange /\ ~op'[s].cur /\ (op'[s].ref = Here => Listed(d))
      OBVIOUS
    <3>1. ops[s] = op[s] /\ op[s] \in KbChange /\ op[s] # None /\ op'[s] = Left(op[s], d)
      BY <1>1
    <3>2. CASE Listed(desk)
      <4>1. desk.sel \in KbBase
        BY <1>0, <3>2 DEF DeskTyped, DeskState, Listed
      <4>2. op'[s] = [op[s] EXCEPT !.cur = FALSE,
                                   !.ref = IF op[s].ref = Here /\ ~Listed(d) THEN desk.sel ELSE op[s].ref]
        BY <1>4, <3>1, <3>2 DEF Left
      <4>3. op'[s].ref \in KbBase \cup {Here} /\ op'[s].cur = FALSE
        BY <3>1, <4>1, <4>2 DEF KbChange
      <4>4. op'[s] = [op[s] EXCEPT !.cur = FALSE, !.ref = op'[s].ref]
        BY <3>1, <4>2 DEF KbChange
      <4>5. op'[s] \in KbChange
        BY <3>1, <4>3, <4>4 DEF KbChange
      <4>6. op'[s].ref = Here => Listed(d)
        BY <3>1, <4>1, <4>2, DeskAssumption DEF KbChange
      <4> QED BY <4>3, <4>5, <4>6
    <3>3. CASE ~Listed(desk)
      <4>1. op'[s] = op[s]
        BY <3>1, <3>3 DEF Left
      <4>2. ~listing.locked
        BY <1>0, <3>3, ShutList DEF PaneStands
      <4> QED BY <1>0, <3>1, <3>3, <4>1, <4>2 DEF ChangesStand, Own
    <3> QED BY <3>2, <3>3
  <2>2. listing' = Shut \/ (Listed(d) /\ listing' = Load(Shut, 1, 0))
    BY <1>1, <1>4
  <2> DEFINE first == Load(Shut, 1, 0)
  <2>6. /\ first \in Listing /\ first.fetch # None /\ first.page = 1 /\ first.fetch.page = 1
        /\ DOMAIN first.rows = {} /\ first.ticked = {} /\ ~first.locked
        /\ first.doomed = None /\ first.editor = None
    <3>1. Shut \in Listing /\ 1 \in Int /\ 0 \in 0 .. 2
      BY ShutList
    <3>2. /\ first \in Listing /\ first.fetch # None /\ first.page = 1 /\ first.fetch.page = 1
          /\ first.rows = Shut.rows /\ first.ticked = Shut.ticked /\ first.locked = Shut.locked
          /\ first.doomed = Shut.doomed /\ first.editor = Shut.editor
      BY <3>1, LoadList
    <3> HIDE DEF first
    <3> QED BY <3>2, ShutList
  <2>7. listing' = Shut \/ (Listed(d) /\ listing' = first)
    BY <2>2
  <2> HIDE DEF first
  <2>3. listing' \in Listing /\ ~listing'.locked
    BY <2>6, <2>7, ShutList
  <2>4. ChangesStand(desk', listing', op')
    <3>1. op' \in [Slot -> KbChange \cup {None}]
      BY <1>1, <2>1
    <3> QED BY <1>1, <2>1, <2>3, <3>1 DEF ChangesStand, Own
  <2>5. PaneStands(desk', listing')
    <3>1. CASE listing' = Shut /\ ~Listed(d)
      BY <1>1, <3>1, ShutList DEF PaneStands
    <3>2. CASE listing' = first /\ Listed(d)
      BY <1>1, <3>2, <2>6 DEF PaneStands
    <3>3. listing' = Shut => ~Listed(d)
      BY <1>1, <1>4, <2>6, ShutList DEF first
    <3> QED BY <2>7, <3>1, <3>2, <3>3
  <2> QED BY <1>1, <1>2, <2>4, <2>5
<1> QED BY <1>3, <1>4

LEMMA AskStep ==
  ASSUME DeskInv, NEW prefer, NEW ops \in [Slot -> KbChange \cup {None}],
         \A s \in Slot : ops[s] \in {op[s], None}, AskBases(prefer, ops)
  PROVE  /\ asked' = asked \cup {[prefer |-> prefer, seen |-> kbs]}
         /\ desk' \in DeskState /\ desk'.sel \in desk'.bases \cup {None}
         /\ probe' \in [seek : {None, desk'.sel}, found : {None, desk'.sel}]
         /\ PaneStands(desk', listing') /\ ChangesStand(desk', listing', op')
<1> DEFINE d == [desk EXCEPT !.loading = TRUE]
<1>1. d \in DeskState /\ d.sel \in d.bases \cup {None} /\ ~Listed(d)
  BY DEF DeskInv, DeskTyped, DeskState, Listed
<1>2. Show(d, ops) /\ asked' = asked \cup {[prefer |-> prefer, seen |-> kbs]}
  BY DEF AskBases
<1> HIDE DEF d
<1>3. Listed(desk) /\ Listed(d) /\ d.sel = desk.sel => ops = op
  BY <1>1
<1>4. /\ desk' = d /\ probe' \in [seek : {None, d.sel}, found : {None, d.sel}]
      /\ PaneStands(desk', listing') /\ ChangesStand(desk', listing', op')
  BY <1>1, <1>2, <1>3, ShowStep
<1> QED BY <1>1, <1>2, <1>4

\* The lists of bases that come.
LEMMA BasesStep ==
  ASSUME DeskInv, NEW r \in asked,
         BasesFail(r) \/ \E bs \in {r.seen, kbs} : BasesReply(r, bs)
  PROVE  DeskInv'
<1>0. DeskTyped /\ PaneStands(desk, listing) /\ ChangesStand(desk, listing, op)
  BY DEF DeskInv
<1>1. op \in [Slot -> KbChange \cup {None}]
  BY <1>0 DEF ChangesStand
<1>2. /\ asked' = asked \ {r} /\ UNCHANGED <<kbs, stored, form>>
      /\ \E d \in DeskState : d.sel \in d.bases \cup {None} /\ Show(d, op)
  <2>1. CASE BasesFail(r)
    <3> DEFINE d == [desk EXCEPT !.loading = FALSE]
    <3>1. d \in DeskState /\ d.sel \in d.bases \cup {None}
      BY <1>0 DEF DeskTyped, DeskState
    <3> QED BY <2>1, <3>1 DEF BasesFail, kbServerVars
  <2>2. CASE \E bs \in {r.seen, kbs} : BasesReply(r, bs)
    <3>1. PICK bs \in {r.seen, kbs} : BasesReply(r, bs)
      BY <2>2
    <3>2. bs \subseteq KbBase
      BY <1>0 DEF DeskTyped
    <3> DEFINE target == IF r.prefer # None THEN r.prefer ELSE desk.sel
    <3>3. PICK b \in IF target \in bs THEN {target} ELSE IF bs = {} THEN {None} ELSE bs :
            Show([desk EXCEPT !.bases = bs, !.sel = b, !.loading = FALSE], op)
      BY <3>1 DEF BasesReply
    <3> DEFINE d == [desk EXCEPT !.bases = bs, !.sel = b, !.loading = FALSE]
    <3>4. b \in bs \cup {None}
      BY <3>3
    <3>5. d \in DeskState /\ d.sel \in d.bases \cup {None}
      BY <1>0, <3>2, <3>4 DEF DeskTyped, DeskState
    <3> QED BY <3>1, <3>3, <3>5 DEF BasesReply, kbServerVars
  <2> QED BY <2>1, <2>2
<1>3. PICK d \in DeskState : d.sel \in d.bases \cup {None} /\ Show(d, op)
  BY <1>2
<1>4. /\ desk' = d /\ probe' \in [seek : {None, d.sel}, found : {None, d.sel}]
      /\ PaneStands(desk', listing') /\ ChangesStand(desk', listing', op')
  BY <1>1, <1>3, ShowStep
<1>5. DeskTyped'
  BY <1>0, <1>2, <1>3, <1>4 DEF DeskTyped
<1> QED BY <1>4, <1>5 DEF DeskInv

\* The person leaves for another base or another side.
LEMMA TurnStep ==
  ASSUME DeskInv, NEW tab \in {"content", "items", "search"}, NEW b \in KbBase \cup {None}, Turn(tab, b)
  PROVE  DeskInv'
<1>0. DeskTyped /\ PaneStands(desk, listing) /\ ChangesStand(desk, listing, op)
  BY DEF DeskInv
<1>1. op \in [Slot -> KbChange \cup {None}]
  BY <1>0 DEF ChangesStand
<1> DEFINE d == [desk EXCEPT !.tab = tab, !.sel = b]
<1>2. d \in DeskState /\ d.sel \in d.bases \cup {None}
  BY <1>0 DEF DeskTyped, DeskState, Turn
<1>3. Show(d, op) /\ UNCHANGED <<kbs, stored, asked, form>>
  BY DEF Turn, Beside, kbServerVars
<1> HIDE DEF d
<1>4. /\ desk' = d /\ probe' \in [seek : {None, d.sel}, found : {None, d.sel}]
      /\ PaneStands(desk', listing') /\ ChangesStand(desk', listing', op')
  BY <1>1, <1>2, <1>3, ShowStep
<1>5. DeskTyped'
  BY <1>0, <1>2, <1>3, <1>4 DEF DeskTyped
<1> QED BY <1>4, <1>5 DEF DeskInv

LEMMA OnScreen ==
  ASSUME DeskTyped, Listed(desk)
  PROVE  desk.sel \in KbBase
BY DEF DeskTyped, DeskState, Listed

\* A page comes, or does not.
LEMMA PageStep ==
  ASSUME DeskInv, ItemsReply \/ ItemsFail
  PROVE  DeskInv'
<1>0. DeskTyped /\ PaneStands(desk, listing) /\ ChangesStand(desk, listing, op)
  BY DEF DeskInv
<1>1. UNCHANGED <<kbs, stored, desk, asked, op, form, probe>> /\ listing.fetch # None
  BY DEF ItemsReply, ItemsFail, kbServerVars
<1>2. Listed(desk) /\ listing \in Listing /\ listing.fetch \in Fetch /\ listing.fetch.page = listing.page
  BY <1>0, <1>1, ShutList DEF PaneStands, Listing
<1>3. desk.sel \in KbBase
  BY <1>0, <1>2, OnScreen
<1>4. listing'.locked = listing.locked /\ PaneStands(desk, listing')
  <2>1. CASE ItemsFail
    <3>1. listing' = [listing EXCEPT !.fetch = None, !.fault = TRUE]
      BY <2>1 DEF ItemsFail
    <3>2. /\ listing' \in Listing /\ listing'.fault /\ listing'.fetch = None
          /\ listing'.rows = listing.rows /\ listing'.ticked = listing.ticked
          /\ listing'.doomed = listing.doomed /\ listing'.editor = listing.editor
          /\ listing'.locked = listing.locked
      BY <3>1, <1>2 DEF Listing
    <3> QED BY <1>0, <1>2, <3>2 DEF PaneStands
  <2>2. CASE ItemsReply
    <3> DEFINE last == Pages(desk.sel)
               p == listing.fetch.page
               got == [i \in PageOf(desk.sel, p) |-> stored[i]]
    <3>1. last \in Int
      <4>1. KeptIn(desk.sel) \subseteq KbItem
        BY DEF KeptIn
      <4>2. IsFiniteSet(KeptIn(desk.sel))
        BY <4>1, DeskAssumption, FS_Subset
      <4>3. Cardinality(KeptIn(desk.sel)) \in Nat
        BY <4>2, FS_CardinalityType
      <4> DEFINE c == Cardinality(KeptIn(desk.sel))
      <4>4. last = IF KeptIn(desk.sel) = {} THEN 1 ELSE (c + KbPageSize - 1) \div KbPageSize
        BY DEF Pages
      <4>5. c \in Nat /\ KbPageSize \in Nat \ {0}
        BY <4>3, DeskAssumption
      <4> HIDE DEF c, last
      <4> QED BY <4>4, <4>5
    <3>2. got \in KbRows /\ \A i \in DOMAIN got : BaseOf[i] = desk.sel
      <4>1. PageOf(desk.sel, p) \subseteq KeptIn(desk.sel)
        BY DEF PageOf
      <4>2. PageOf(desk.sel, p) \subseteq KbItem /\ \A i \in PageOf(desk.sel, p) : BaseOf[i] = desk.sel
        BY <4>1 DEF KeptIn
      <4>3. \A i \in PageOf(desk.sel, p) : stored[i] \in KbValue
        BY <4>2, <1>0 DEF DeskTyped
      <4>4. got \in [PageOf(desk.sel, p) -> KbValue] /\ DOMAIN got = PageOf(desk.sel, p)
        BY <4>3
      <4> QED BY <4>2, <4>4 DEF KbRows
    <3>3. listing' = IF p > last THEN Load(listing, last, 0)
                     ELSE [listing EXCEPT !.rows = got, !.of = p, !.pages = last, !.fetch = None]
      BY <2>2 DEF ItemsReply
    <3>4. p \in Int
      BY <1>2 DEF Fetch
    <3> HIDE DEF last, p, got
    <3>5. CASE p > last
      <4> DEFINE now == Load(listing, last, 0)
      <4>1. /\ now \in Listing /\ now.fetch # None /\ now.page = last /\ now.fetch.page = last
            /\ now.rows = listing.rows /\ now.ticked = listing.ticked /\ now.locked = listing.locked
            /\ now.doomed = listing.doomed /\ now.editor = listing.editor
        <5>1. 0 \in 0 .. 2
          OBVIOUS
        <5> QED BY <1>2, <3>1, <5>1, LoadList
      <4>2. listing' = now
        BY <3>3, <3>5
      <4> HIDE DEF now
      <4> QED BY <1>0, <1>2, <4>1, <4>2 DEF PaneStands
    <3>6. CASE ~(p > last)
      <4>1. listing' = [listing EXCEPT !.rows = got, !.of = p, !.pages = last, !.fetch = None]
        BY <3>3, <3>6
      <4>2. /\ listing' \in Listing /\ listing'.fetch = None /\ listing'.of = p /\ listing'.page = listing.page
            /\ listing'.rows = got /\ listing'.ticked = listing.ticked /\ listing'.locked = listing.locked
            /\ listing'.doomed = listing.doomed /\ listing'.editor = listing.editor
        BY <4>1, <1>2, <3>1, <3>2, <3>4 DEF Listing
      <4>3. p = listing.page
        BY <1>2 DEF p
      <4> QED BY <1>0, <1>2, <3>2, <4>2, <4>3 DEF PaneStands
    <3> QED BY <3>5, <3>6
  <2> QED BY <2>1, <2>2, <1>1
<1>5. ChangesStand(desk', listing', op')
  BY <1>0, <1>1, <1>4 DEF ChangesStand
<1>6. DeskTyped'
  BY <1>0, <1>1 DEF DeskTyped
<1> QED BY <1>1, <1>4, <1>5, <1>6 DEF DeskInv

\* A gesture in the list that begins no change of the items.
LEMMA PaneStep ==
  ASSUME DeskInv, NEW i \in KbItem \cup {None},
         \/ \E p \in 1 .. listing.pages : TurnPage(p)
         \/ i \in KbItem /\ (TickItem(i) \/ AskDelete(i))
         \/ \E T \in {{}, DOMAIN listing.rows} : TickPage(T)
         \/ EditItem(i) \/ CloseModal
  PROVE  DeskInv'
<1>0. DeskTyped /\ PaneStands(desk, listing) /\ ChangesStand(desk, listing, op)
  BY DEF DeskInv
<1>1. UNCHANGED <<kbs, stored, desk, asked, op, form, probe>>
  BY DEF TurnPage, TickItem, AskDelete, TickPage, EditItem, CloseModal, Only, Beside, kbServerVars
<1>2. Listed(desk) /\ listing \in Listing
  BY <1>0, ShutList DEF PaneStands, TurnPage, TickItem, AskDelete, TickPage, EditItem, CloseModal, OnRow, InPane
<1>7. i \in DOMAIN listing.rows => i \in KbItem /\ BaseOf[i] = desk.sel /\ listing.rows[i] \in KbValue
  <2>1. PICK S \in SUBSET KbItem : listing.rows \in [S -> KbValue]
    BY <1>2 DEF Listing, KbRows
  <2>2. \A j \in DOMAIN listing.rows : BaseOf[j] = desk.sel
    BY <1>0 DEF PaneStands
  <2> QED BY <2>1, <2>2
<1>4. listing'.locked = listing.locked /\ PaneStands(desk, listing')
  <2>1. CASE \E p \in 1 .. listing.pages : TurnPage(p)
    <3>1. PICK p \in 1 .. listing.pages : TurnPage(p)
      BY <2>1
    <3>2. p \in Int /\ 0 \in 0 .. 2
      BY <1>2 DEF Listing
    <3> DEFINE now == Load(listing, p, 0)
    <3>3. /\ now \in Listing /\ now.fetch # None /\ now.page = p /\ now.fetch.page = p
          /\ now.rows = listing.rows /\ now.ticked = listing.ticked /\ now.locked = listing.locked
          /\ now.doomed = listing.doomed /\ now.editor = listing.editor
      BY <1>2, <3>2, LoadList
    <3>4. listing' = now
      BY <3>1 DEF TurnPage
    <3> HIDE DEF now
    <3> QED BY <1>0, <1>2, <3>3, <3>4 DEF PaneStands
  <2>2. CASE i \in KbItem /\ TickItem(i)
    <3>1. i \in DOMAIN listing.rows
          /\ listing' = [listing EXCEPT !.ticked = IF i \in @ THEN @ \ {i} ELSE @ \cup {i}]
      BY <2>2 DEF TickItem, OnRow
    <3> DEFINE T == IF i \in listing.ticked THEN listing.ticked \ {i} ELSE listing.ticked \cup {i}
    <3>2. T \subseteq KbItem /\ \A j \in T : BaseOf[j] = desk.sel
      BY <1>0, <1>2, <1>7, <3>1 DEF PaneStands, Listing
    <3>3. listing' = [listing EXCEPT !.ticked = T]
      BY <1>2, <3>1 DEF Listing
    <3> HIDE DEF T
    <3>4. /\ listing' \in Listing /\ listing'.ticked = T /\ listing'.rows = listing.rows
          /\ listing'.fetch = listing.fetch /\ listing'.page = listing.page /\ listing'.of = listing.of
          /\ listing'.fault = listing.fault /\ listing'.locked = listing.locked
          /\ listing'.doomed = listing.doomed /\ listing'.editor = listing.editor
      BY <3>2, <3>3, <1>2 DEF Listing
    <3> QED BY <1>0, <1>2, <3>2, <3>4 DEF PaneStands
  <2>3. CASE i \in KbItem /\ AskDelete(i)
    <3>1. i \in DOMAIN listing.rows /\ listing' = [listing EXCEPT !.doomed = i]
      BY <2>3 DEF AskDelete, OnRow
    <3>4. /\ listing' \in Listing /\ listing'.ticked = listing.ticked /\ listing'.rows = listing.rows
          /\ listing'.fetch = listing.fetch /\ listing'.page = listing.page /\ listing'.of = listing.of
          /\ listing'.fault = listing.fault /\ listing'.locked = listing.locked
          /\ listing'.doomed = i /\ listing'.editor = listing.editor
      BY <3>1, <1>2 DEF Listing
    <3> QED BY <1>0, <1>2, <1>7, <3>1, <3>4 DEF PaneStands
  <2>4. CASE \E T \in {{}, DOMAIN listing.rows} : TickPage(T)
    <3>1. PICK T \in {{}, DOMAIN listing.rows} : listing' = [listing EXCEPT !.ticked = T]
      BY <2>4 DEF TickPage
    <3>2. T \subseteq KbItem /\ \A j \in T : BaseOf[j] = desk.sel
      BY <1>0, <1>2, <3>1 DEF PaneStands, Listing, KbRows
    <3>4. /\ listing' \in Listing /\ listing'.ticked = T /\ listing'.rows = listing.rows
          /\ listing'.fetch = listing.fetch /\ listing'.page = listing.page /\ listing'.of = listing.of
          /\ listing'.fault = listing.fault /\ listing'.locked = listing.locked
          /\ listing'.doomed = listing.doomed /\ listing'.editor = listing.editor
      BY <3>1, <3>2, <1>2 DEF Listing
    <3> QED BY <1>0, <1>2, <3>2, <3>4 DEF PaneStands
  <2>5. CASE EditItem(i)
    <3> DEFINE e == [item |-> i, saving |-> 0, value |-> IF i = None THEN "on" ELSE listing.rows[i]]
    <3>1. listing' = [listing EXCEPT !.editor = e] /\ (i # None => i \in DOMAIN listing.rows)
      BY <2>5 DEF EditItem, OnRow
    <3>2. e \in Editor /\ e.item = i
      BY <1>7, <3>1 DEF Editor, KbValue
    <3> HIDE DEF e
    <3>4. /\ listing' \in Listing /\ listing'.ticked = listing.ticked /\ listing'.rows = listing.rows
          /\ listing'.fetch = listing.fetch /\ listing'.page = listing.page /\ listing'.of = listing.of
          /\ listing'.fault = listing.fault /\ listing'.locked = listing.locked
          /\ listing'.doomed = listing.doomed /\ listing'.editor = e
      BY <3>1, <3>2, <1>2 DEF Listing
    <3> QED BY <1>0, <1>2, <1>7, <3>1, <3>2, <3>4 DEF PaneStands
  <2>6. CASE CloseModal
    <3>1. listing' = [listing EXCEPT !.editor = None, !.doomed = None]
      BY <2>6 DEF CloseModal
    <3>4. /\ listing' \in Listing /\ listing'.ticked = listing.ticked /\ listing'.rows = listing.rows
          /\ listing'.fetch = listing.fetch /\ listing'.page = listing.page /\ listing'.of = listing.of
          /\ listing'.fault = listing.fault /\ listing'.locked = listing.locked
          /\ listing'.doomed = None /\ listing'.editor = None
      BY <3>1, <1>2 DEF Listing
    <3> QED BY <1>0, <1>2, <3>4 DEF PaneStands
  <2> QED BY <2>1, <2>2, <2>3, <2>4, <2>5, <2>6
<1>5. ChangesStand(desk', listing', op')
  BY <1>0, <1>1, <1>4 DEF ChangesStand
<1>6. DeskTyped'
  BY <1>0, <1>1 DEF DeskTyped
<1> QED BY <1>1, <1>4, <1>5, <1>6 DEF DeskInv

\* A change of items is begun in a list that no change locks.
LEMMA BeginStep ==
  ASSUME DeskInv, NEW kind \in {"toggle", "batch", "delete"}, NEW those \in SUBSET KbItem,
         NEW value \in {"gone", "on", "off"}, Listed(desk), ~listing.locked,
         \A i \in those : BaseOf[i] = desk.sel, BeginChange(kind, those, value)
  PROVE  DeskInv'
<1>0. DeskTyped /\ PaneStands(desk, listing) /\ ChangesStand(desk, listing, op)
  BY DEF DeskInv
<1>1. UNCHANGED <<kbs, stored, desk, asked, form, probe>>
  BY DEF BeginChange, Only, Beside, kbServerVars
<1>2. desk.sel \in KbBase
  BY <1>0, OnScreen
<1> DEFINE o == [kind |-> kind, items |-> those, value |-> value, base |-> desk.sel,
                 cur |-> TRUE, ref |-> Here, stage |-> "sent", done |-> {}]
<1>3. PICK s \in Slot : op[s] = None /\ op' = [t \in Slot |-> IF t = s THEN o
                           ELSE IF op[t] = None THEN None ELSE [op[t] EXCEPT !.cur = FALSE]]
  BY DEF BeginChange
<1>4. o \in KbChange /\ o.cur /\ o.kind = kind /\ o.items = those
  BY <1>2 DEF KbChange
<1>5. \A t \in Slot : t # s => op'[t] \in KbChange \cup {None} /\ ~Own(op'[t])
  BY <1>0, <1>3 DEF ChangesStand, KbChange, Own
<1> HIDE DEF o
<1>6. op'[s] = o /\ o # None
  BY <1>3, <1>4, DeskAssumption
<1>7. op' \in [Slot -> KbChange \cup {None}]
  BY <1>3, <1>4, <1>5, <1>6
<1>8. listing' = [listing EXCEPT !.locked = TRUE, !.doomed = None]
  BY DEF BeginChange
<1>9. /\ listing' \in Listing /\ listing'.ticked = listing.ticked /\ listing'.rows = listing.rows
      /\ listing'.fetch = listing.fetch /\ listing'.page = listing.page /\ listing'.of = listing.of
      /\ listing'.fault = listing.fault /\ listing'.locked
      /\ listing'.doomed = None /\ listing'.editor = listing.editor
  BY <1>0, <1>8 DEF Listing, PaneStands
<1>10. PaneStands(desk', listing')
  BY <1>0, <1>1, <1>9 DEF PaneStands
<1>11. ChangesStand(desk', listing', op')
  <2>1. \A t \in Slot : Own(op'[t]) => t = s
    BY <1>5
  <2>2. Own(op'[s]) /\ op'[s].kind \notin {"base", "save"} /\ op'[s].items = those
    BY <1>4, <1>6 DEF Own
  <2> QED BY <1>1, <1>7, <1>9, <2>1, <2>2 DEF ChangesStand
<1>12. DeskTyped'
  BY <1>0, <1>1 DEF DeskTyped
<1> QED BY <1>10, <1>11, <1>12 DEF DeskInv

LEMMA ItemChangeStep ==
  ASSUME DeskInv,
         \/ \E i \in KbItem : ToggleItem(i)
         \/ \E value \in {"on", "off"} : BatchSet(value)
         \/ ConfirmDelete
  PROVE  DeskInv'
<1>0. DeskTyped /\ PaneStands(desk, listing)
  BY DEF DeskInv
<1>1. CASE \E i \in KbItem : ToggleItem(i)
  <2>1. PICK i \in KbItem : ToggleItem(i)
    BY <1>1
  <2>2. /\ Listed(desk) /\ ~listing.locked /\ BaseOf[i] = desk.sel
        /\ BeginChange("toggle", {i}, Flip(listing.rows[i]))
    BY <1>0, <2>1 DEF ToggleItem, OnRow, InPane, PaneStands
  <2>3. Flip(listing.rows[i]) \in {"gone", "on", "off"}
    BY DEF Flip
  <2> DEFINE value == Flip(listing.rows[i])
  <2>4. \A j \in {i} : BaseOf[j] = desk.sel
    BY <2>2
  <2>5. BeginChange("toggle", {i}, value) /\ value \in {"gone", "on", "off"}
    BY <2>2, <2>3
  <2> HIDE DEF value
  <2> QED BY <2>2, <2>4, <2>5, BeginStep
<1>2. CASE \E value \in {"on", "off"} : BatchSet(value)
  <2>1. PICK value \in {"on", "off"} : BatchSet(value)
    BY <1>2
  <2>2. /\ Listed(desk) /\ ~listing.locked /\ listing.ticked \in SUBSET KbItem
        /\ \A i \in listing.ticked : BaseOf[i] = desk.sel /\ BeginChange("batch", listing.ticked, value)
    BY <1>0, <2>1 DEF BatchSet, InPane, PaneStands, Listing
  <2>3. BeginChange("batch", listing.ticked, value)
    BY <2>1 DEF BatchSet
  <2> QED BY <2>2, <2>3, BeginStep
<1>3. CASE ConfirmDelete
  <2>1. listing.doomed # None /\ ~listing.locked /\ BeginChange("delete", {listing.doomed}, "gone")
    BY <1>3 DEF ConfirmDelete
  <2>2. Listed(desk) /\ listing.doomed \in KbItem /\ BaseOf[listing.doomed] = desk.sel
    BY <1>0, <2>1, ShutList DEF PaneStands, Listing
  <2>3. \A i \in {listing.doomed} : BaseOf[i] = desk.sel
    BY <2>2
  <2> DEFINE those == {listing.doomed}
  <2>4. those \in SUBSET KbItem /\ (\A i \in those : BaseOf[i] = desk.sel) /\ BeginChange("delete", those, "gone")
    BY <2>1, <2>2, <2>3
  <2> HIDE DEF those
  <2> QED BY <2>1, <2>2, <2>4, BeginStep
<1> QED BY <1>1, <1>2, <1>3

\* A change of an item in its dialog, or of a base, is no change of the list's own.
LEMMA AsideStep ==
  ASSUME DeskInv, NEW s \in Slot, op[s] = None, NEW o \in KbChange, ~o.cur, o.ref = Here => Listed(desk),
         op' = [op EXCEPT ![s] = o]
  PROVE  /\ op' \in [Slot -> KbChange \cup {None}]
         /\ \A t \in Slot : Own(op'[t]) <=> Own(op[t])
         /\ \A t \in Slot : Own(op[t]) => op'[t] = op[t]
         /\ \A t \in Slot : op'[t] # None /\ op'[t].ref = Here => Listed(desk)
<1>0. ChangesStand(desk, listing, op)
  BY DEF DeskInv
<1> QED BY <1>0, DeskAssumption DEF ChangesStand, Own

LEMMA OtherChangeStep ==
  ASSUME DeskInv,
         \/ \E value \in {"on", "off"} : SubmitItem(value)
         \/ \E b \in KbBase : \E value \in {"gone", "switched"} : ChangeBase(b, value)
  PROVE  DeskInv'
<1>0. DeskTyped /\ PaneStands(desk, listing) /\ ChangesStand(desk, listing, op)
  BY DEF DeskInv
<1>1. UNCHANGED <<kbs, stored, desk, asked, form, probe>>
  BY DEF SubmitItem, ChangeBase, Only, Beside, kbServerVars
<1>2. /\ op' \in [Slot -> KbChange \cup {None}]
      /\ \A t \in Slot : Own(op'[t]) <=> Own(op[t])
      /\ \A t \in Slot : Own(op[t]) => op'[t] = op[t]
      /\ \A t \in Slot : op'[t] # None /\ op'[t].ref = Here => Listed(desk)
      /\ PaneStands(desk, listing') /\ listing'.locked = listing.locked
  <2>1. CASE \E value \in {"on", "off"} : SubmitItem(value)
    <3>1. PICK value \in {"on", "off"} : SubmitItem(value)
      BY <2>1
    <3>2. Listed(desk) /\ listing.editor \in Editor /\ listing \in Listing
      BY <1>0, <3>1, ShutList DEF SubmitItem, PaneStands, Listing
    <3> DEFINE those == IF listing.editor.item = None THEN {} ELSE {listing.editor.item}
               o == [kind |-> "save", value |-> value, base |-> desk.sel, cur |-> FALSE, items |-> those,
                     ref |-> Here, stage |-> "sent", done |-> {}]
    <3>3. those \subseteq KbItem
      BY <3>2 DEF Editor
    <3>4. desk.sel \in KbBase
      BY <1>0, <3>2, OnScreen
    <3>5. PICK s \in Slot : op[s] = None /\ op' = [op EXCEPT ![s] = o]
                           /\ listing' = [listing EXCEPT !.editor.saving = s]
      BY <3>1 DEF SubmitItem
    <3> HIDE DEF those
    <3>6. o \in KbChange /\ ~o.cur
      BY <3>3, <3>4 DEF KbChange
    <3> HIDE DEF o
    <3>7. /\ op' \in [Slot -> KbChange \cup {None}]
          /\ \A t \in Slot : Own(op'[t]) <=> Own(op[t])
          /\ \A t \in Slot : Own(op[t]) => op'[t] = op[t]
          /\ \A t \in Slot : op'[t] # None /\ op'[t].ref = Here => Listed(desk)
      BY <3>2, <3>5, <3>6, AsideStep
    <3> DEFINE e == [listing.editor EXCEPT !.saving = s]
    <3>8. e \in Editor /\ e.item = listing.editor.item
      BY <3>2 DEF Editor, Slot
    <3>9. listing' = [listing EXCEPT !.editor = e]
      BY <3>2, <3>5 DEF Listing
    <3>10. listing.editor # None
      BY <3>1 DEF SubmitItem
    <3> HIDE DEF e
    <3>11. /\ listing' \in Listing /\ listing'.ticked = listing.ticked /\ listing'.rows = listing.rows
           /\ listing'.fetch = listing.fetch /\ listing'.page = listing.page /\ listing'.of = listing.of
           /\ listing'.fault = listing.fault /\ listing'.locked = listing.locked
           /\ listing'.doomed = listing.doomed /\ listing'.editor = e
      BY <3>2, <3>8, <3>9 DEF Listing
    <3>12. PaneStands(desk, listing')
      BY <1>0, <3>2, <3>8, <3>10, <3>11 DEF PaneStands
    <3> QED BY <3>7, <3>11, <3>12
  <2>2. CASE \E b \in KbBase : \E value \in {"gone", "switched"} : ChangeBase(b, value)
    <3>1. PICK b \in KbBase, value \in {"gone", "switched"} : ChangeBase(b, value)
      BY <2>2
    <3> DEFINE o == [kind |-> "base", items |-> {}, value |-> value, base |-> b,
                     cur |-> FALSE, ref |-> b, stage |-> "sent", done |-> {}]
    <3>2. PICK s \in Slot : op[s] = None /\ op' = [op EXCEPT ![s] = o]
      BY <3>1 DEF ChangeBase
    <3>3. o \in KbChange /\ ~o.cur /\ o.ref # Here /\ listing' = listing
      BY <3>1, DeskAssumption DEF KbChange, ChangeBase
    <3> HIDE DEF o
    <3>4. /\ op' \in [Slot -> KbChange \cup {None}]
          /\ \A t \in Slot : Own(op'[t]) <=> Own(op[t])
          /\ \A t \in Slot : Own(op[t]) => op'[t] = op[t]
          /\ \A t \in Slot : op'[t] # None /\ op'[t].ref = Here => Listed(desk)
      BY <3>2, <3>3, AsideStep
    <3> QED BY <1>0, <3>3, <3>4
  <2> QED BY <2>1, <2>2
<1>3. ChangesStand(desk', listing', op')
  BY <1>0, <1>1, <1>2 DEF ChangesStand
<1>4. DeskTyped'
  BY <1>0, <1>1 DEF DeskTyped
<1> QED BY <1>1, <1>2, <1>3, <1>4 DEF DeskInv

\* A change goes on: it stays what it was.
LEMMA GoesOn ==
  ASSUME DeskInv, NEW s \in Slot, op[s] # None, NEW o \in KbChange,
         o.cur = op[s].cur, o.kind = op[s].kind, o.items = op[s].items, o.ref = op[s].ref,
         op' = [op EXCEPT ![s] = o], desk' = desk, listing'.locked = listing.locked
  PROVE  ChangesStand(desk', listing', op')
<1>0. ChangesStand(desk, listing, op)
  BY DEF DeskInv
<1>1. op' \in [Slot -> KbChange \cup {None}] /\ o # None
  BY <1>0, DeskAssumption DEF ChangesStand
<1>2. /\ op'[s] = o /\ (Own(op'[s]) <=> Own(op[s]))
      /\ \A t \in Slot : t # s => op'[t] = op[t]
  BY <1>0, <1>1 DEF ChangesStand, Own
<1>3. \A t \in Slot : /\ Own(op'[t]) <=> Own(op[t])
                      /\ op[t] # None => op'[t].kind = op[t].kind /\ op'[t].items = op[t].items
                                         /\ op'[t].ref = op[t].ref
                      /\ op'[t] # None => op[t] # None
  BY <1>2
<1> QED BY <1>0, <1>1, <1>3 DEF ChangesStand, Own

\* A change ends; if it was the list's own, the list is unlocked.
LEMMA ChangeEnds ==
  ASSUME DeskInv, NEW s \in Slot, op[s] # None, op' = Drop(s), desk' = desk,
         listing'.locked <=> (listing.locked /\ ~op[s].cur)
  PROVE  ChangesStand(desk', listing', op')
<1>0. ChangesStand(desk, listing, op)
  BY DEF DeskInv
<1>1. op' = [op EXCEPT ![s] = None]
  BY DEF Drop
<1>2. op' \in [Slot -> KbChange \cup {None}] /\ op'[s] = None /\ \A t \in Slot : t # s => op'[t] = op[t]
  BY <1>0, <1>1 DEF ChangesStand
<1>3. listing'.locked <=> \E t \in Slot : Own(op'[t])
  <2>1. CASE op[s].cur
    BY <1>0, <1>2, <2>1 DEF ChangesStand, Own
  <2>2. CASE ~op[s].cur
    BY <1>0, <1>2, <2>2 DEF ChangesStand, Own
  <2> QED BY <2>1, <2>2
<1>4. \A t \in Slot : op'[t] = op[t] \/ op'[t] = None
  BY <1>2
<1>5. \A t \in Slot : Own(op'[t]) => op'[t] = op[t] /\ Own(op[t])
  BY <1>4 DEF Own
<1>6. \A t \in Slot : op'[t] # None => op'[t] = op[t]
  BY <1>4
<1> QED BY <1>0, <1>2, <1>3, <1>5, <1>6 DEF ChangesStand

\* The server makes or refuses a change.
LEMMA ServeStep ==
  ASSUME DeskInv, NEW s \in Slot, Serve(s) \/ BaseRefused(s)
  PROVE  DeskInv'
<1>0. DeskTyped /\ PaneStands(desk, listing) /\ ChangesStand(desk, listing, op)
  BY DEF DeskInv
<1>1. UNCHANGED <<desk, asked, listing, form, probe>> /\ op[s] # None /\ op[s] \in KbChange
  BY <1>0 DEF Serve, BaseRefused, Only, Beside, ChangesStand
<1>2. CASE Serve(s)
  <2>1. PICK done \in SUBSET KbItem :
          /\ stored' = [i \in KbItem |-> IF i \in done THEN op[s].value ELSE stored[i]]
          /\ op' = [op EXCEPT ![s].stage = "served", ![s].done = done]
          /\ kbs' = IF op[s].kind = "base" /\ op[s].value = "gone" THEN kbs \ {op[s].base} ELSE kbs
    BY <1>2 DEF Serve
  <2> DEFINE o == [op[s] EXCEPT !.stage = "served", !.done = done]
  <2>2. op' = [op EXCEPT ![s] = o]
    BY <1>0, <2>1 DEF ChangesStand
  <2>3. o \in KbChange /\ o.cur = op[s].cur /\ o.kind = op[s].kind /\ o.items = op[s].items /\ o.ref = op[s].ref
    BY <1>1 DEF KbChange
  <2> HIDE DEF o
  <2>4. ChangesStand(desk', listing', op')
    BY <1>1, <2>2, <2>3, GoesOn
  <2>5. op[s].value \in KbValue
    BY <1>1 DEF KbChange, KbValue
  <2>6. DeskTyped'
    BY <1>0, <1>1, <2>1, <2>5 DEF DeskTyped
  <2> QED BY <1>0, <1>1, <2>4, <2>6 DEF DeskInv
<1>3. CASE BaseRefused(s)
  <2>1. op' = Drop(s) /\ UNCHANGED <<kbs, stored>> /\ op[s].kind = "base"
    BY <1>3 DEF BaseRefused, Only, Beside, kbServerVars
  <2>2. listing'.locked <=> (listing.locked /\ ~op[s].cur)
    BY <1>0, <1>1, <2>1 DEF ChangesStand, Own, PaneStands, Listing
  <2>3. ChangesStand(desk', listing', op')
    BY <1>1, <2>1, <2>2, ChangeEnds
  <2>4. DeskTyped'
    BY <1>0, <1>1, <2>1 DEF DeskTyped
  <2> QED BY <1>0, <1>1, <2>3, <2>4 DEF DeskInv
<1> QED BY <1>2, <1>3

\* A change that is over, when the bases are read again.
LEMMA DropAndAsk ==
  ASSUME DeskInv, NEW s \in Slot, NEW prefer, AskBases(prefer, Drop(s)),
         UNCHANGED <<kbs, stored, form>>
  PROVE  DeskInv'
<1>0. DeskTyped /\ ChangesStand(desk, listing, op)
  BY DEF DeskInv
<1> DEFINE ops == Drop(s)
<1>1. ops \in [Slot -> KbChange \cup {None}] /\ \A t \in Slot : ops[t] \in {op[t], None}
  BY <1>0 DEF ChangesStand, Drop
<1>2. AskBases(prefer, ops)
  OBVIOUS
<1> HIDE DEF ops
<1>3. /\ asked' = asked \cup {[prefer |-> prefer, seen |-> kbs]}
      /\ desk' \in DeskState /\ desk'.sel \in desk'.bases \cup {None}
      /\ probe' \in [seek : {None, desk'.sel}, found : {None, desk'.sel}]
      /\ PaneStands(desk', listing') /\ ChangesStand(desk', listing', op')
  BY <1>1, <1>2, AskStep
<1>4. DeskTyped'
  BY <1>0, <1>3 DEF DeskTyped
<1> QED BY <1>3, <1>4 DEF DeskInv

\* A change is answered.
LEMMA ReplyStep ==
  ASSUME DeskInv, NEW s \in Slot, Reply(s)
  PROVE  DeskInv'
<1>0. DeskTyped /\ PaneStands(desk, listing) /\ ChangesStand(desk, listing, op)
  BY DEF DeskInv
<1> DEFINE o == op[s]
<1>1. o # None /\ o \in KbChange /\ UNCHANGED <<kbs, stored, form>>
  BY <1>0 DEF Reply, ChangesStand, kbServerVars
<1>2. listing \in Listing /\ listing.page \in Int /\ s \in 0 .. 2
  BY <1>0 DEF PaneStands, Listing, Slot
<1> DEFINE again == Load(listing, listing.page, s)
<1>3. /\ again \in Listing /\ again.fetch # None /\ again.page = listing.page
      /\ again.fetch.page = listing.page /\ again.rows = listing.rows /\ again.ticked = listing.ticked
      /\ again.locked = listing.locked /\ again.doomed = listing.doomed /\ again.editor = listing.editor
  BY <1>2, LoadList
<1> DEFINE waits == [o EXCEPT !.stage = "reload"]
<1>4. /\ Reloads(s) = [op EXCEPT ![s] = waits] /\ waits \in KbChange /\ waits.cur = o.cur
      /\ waits.kind = o.kind /\ waits.items = o.items /\ waits.ref = o.ref
  BY <1>0, <1>1 DEF Reloads, ChangesStand, KbChange
<1>5. CASE o.kind = "base"
  <2>1. AskBases(None, Drop(s))
    BY <1>5 DEF Reply
  <2> QED BY <1>1, <2>1, DropAndAsk
<1>6. CASE o.kind = "save"
  <2>1. /\ IF o.done = {} \/ RefOf(o) # o.base
            THEN /\ op' = Drop(s)
                 /\ listing' = IF listing.editor # None /\ listing.editor.saving = s
                                  THEN [listing EXCEPT !.editor.saving = 0] ELSE listing
            ELSE /\ op' = Reloads(s)
                 /\ listing' = IF o.ref = Here THEN [again EXCEPT !.editor = None] ELSE listing
        /\ UNCHANGED <<asked, desk, probe>>
    BY <1>6 DEF Reply
  <2>2. ~o.cur
    BY <1>0, <1>1, <1>6 DEF ChangesStand, Own
  <2>3. listing'.locked = listing.locked /\ PaneStands(desk, listing')
    <3>1. CASE listing' = listing
      BY <1>0, <3>1
    <3>2. CASE listing.editor # None /\ listing' = [listing EXCEPT !.editor.saving = 0]
      <4> DEFINE e == [listing.editor EXCEPT !.saving = 0]
      <4>1. e \in Editor /\ e.item = listing.editor.item
        BY <1>2, <3>2 DEF Editor, Listing
      <4>2. listing' = [listing EXCEPT !.editor = e]
        BY <1>2, <3>2 DEF Listing
      <4>3. Listed(desk)
        BY <1>0, <3>2, ShutList DEF PaneStands
      <4> HIDE DEF e
      <4>4. /\ listing' \in Listing /\ listing'.ticked = listing.ticked /\ listing'.rows = listing.rows
            /\ listing'.fetch = listing.fetch /\ listing'.page = listing.page /\ listing'.of = listing.of
            /\ listing'.fault = listing.fault /\ listing'.locked = listing.locked
            /\ listing'.doomed = listing.doomed /\ listing'.editor = e
        BY <1>2, <4>1, <4>2 DEF Listing
      <4> QED BY <1>0, <3>2, <4>1, <4>3, <4>4 DEF PaneStands
    <3>3. CASE o.ref = Here /\ listing' = [again EXCEPT !.editor = None]
      <4>1. Listed(desk)
        BY <1>0, <1>1, <3>3 DEF ChangesStand
      <4> HIDE DEF again
      <4>2. /\ listing' \in Listing /\ listing'.ticked = listing.ticked /\ listing'.rows = listing.rows
            /\ listing'.fetch # None /\ listing'.page = listing.page /\ listing'.fetch.page = listing.page
            /\ listing'.locked = listing.locked /\ listing'.doomed = listing.doomed /\ listing'.editor = None
        BY <1>3, <3>3 DEF Listing
      <4> QED BY <1>0, <4>1, <4>2 DEF PaneStands
    <3> QED BY <2>1, <3>1, <3>2, <3>3
  <2>4. ChangesStand(desk', listing', op')
    <3>1. CASE op' = Drop(s)
      <4>1. listing'.locked <=> (listing.locked /\ ~op[s].cur)
        BY <1>0, <2>2, <2>3 DEF PaneStands, Listing
      <4> QED BY <1>1, <2>1, <3>1, <4>1, ChangeEnds
    <3>2. CASE op' = Reloads(s)
      <4> HIDE DEF waits
      <4> QED BY <1>1, <1>4, <2>1, <2>3, <3>2, GoesOn
    <3> QED BY <2>1, <3>1, <3>2
  <2>5. DeskTyped'
    BY <1>0, <1>1, <2>1 DEF DeskTyped
  <2> QED BY <2>1, <2>3, <2>4, <2>5 DEF DeskInv
<1>7. CASE o.kind \notin {"base", "save"}
  <2>1. /\ IF ~AnswerCounts(o) THEN op' = Drop(s) /\ listing' = listing
            ELSE IF o.done = {} /\ o.kind # "batch"
            THEN op' = Drop(s) /\ listing' = [listing EXCEPT !.locked = FALSE]
            ELSE /\ op' = Reloads(s)
                 /\ listing' = [again EXCEPT !.ticked = IF o.kind = "batch" THEN o.items \ o.done ELSE @]
        /\ UNCHANGED <<asked, desk, probe>>
    BY <1>7 DEF Reply
  <2>2. DeskTyped'
    BY <1>0, <1>1, <2>1 DEF DeskTyped
  <2>3. CASE ~o.cur
    <3>1. op' = Drop(s) /\ listing' = listing
      BY <2>1, <2>3 DEF AnswerCounts
    <3>2. listing'.locked <=> (listing.locked /\ ~op[s].cur)
      BY <1>2, <2>3, <3>1 DEF Listing
    <3>3. ChangesStand(desk', listing', op')
      BY <1>1, <2>1, <3>1, <3>2, ChangeEnds
    <3> QED BY <1>0, <2>1, <2>2, <3>1, <3>3 DEF DeskInv
  <2>4. CASE o.cur
    <3>1. Own(o) /\ listing.locked /\ \A i \in o.items : BaseOf[i] = desk.sel
      BY <1>0, <1>1, <2>4 DEF Own, ChangesStand
    <3>2. Listed(desk)
      BY <1>0, <3>1, ShutList DEF PaneStands
    <3>3. CASE o.done = {} /\ o.kind # "batch"
      <4>1. op' = Drop(s) /\ listing' = [listing EXCEPT !.locked = FALSE]
        BY <2>1, <2>4, <3>3 DEF AnswerCounts
      <4>2. /\ listing' \in Listing /\ listing'.ticked = listing.ticked /\ listing'.rows = listing.rows
            /\ listing'.fetch = listing.fetch /\ listing'.page = listing.page /\ listing'.of = listing.of
            /\ listing'.fault = listing.fault /\ listing'.locked = FALSE
            /\ listing'.doomed = listing.doomed /\ listing'.editor = listing.editor
        BY <1>2, <4>1 DEF Listing
      <4>3. listing'.locked <=> (listing.locked /\ ~op[s].cur)
        BY <2>4, <4>2
      <4>4. ChangesStand(desk', listing', op')
        BY <1>1, <2>1, <4>1, <4>3, ChangeEnds
      <4>5. PaneStands(desk, listing')
        BY <1>0, <3>2, <4>2 DEF PaneStands
      <4> QED BY <2>1, <2>2, <4>4, <4>5 DEF DeskInv
    <3>4. CASE ~(o.done = {} /\ o.kind # "batch")
      <4>1. /\ op' = Reloads(s)
            /\ listing' = [again EXCEPT !.ticked = IF o.kind = "batch" THEN o.items \ o.done ELSE @]
        BY <2>1, <2>4, <3>4 DEF AnswerCounts
      <4> DEFINE T == IF o.kind = "batch" THEN o.items \ o.done ELSE listing.ticked
      <4>2. T \subseteq KbItem /\ \A i \in T : BaseOf[i] = desk.sel
        BY <1>0, <1>1, <1>2, <3>1 DEF KbChange, PaneStands, Listing
      <4>3. listing' = [again EXCEPT !.ticked = T]
        BY <1>3, <4>1 DEF Listing
      <4> HIDE DEF T, again
      <4>4. /\ listing' \in Listing /\ listing'.ticked = T /\ listing'.rows = listing.rows
            /\ listing'.fetch # None /\ listing'.page = listing.page /\ listing'.fetch.page = listing.page
            /\ listing'.locked = listing.locked /\ listing'.doomed = listing.doomed
            /\ listing'.editor = listing.editor
        BY <1>3, <4>2, <4>3 DEF Listing
      <4>5. PaneStands(desk, listing')
        BY <1>0, <3>2, <4>2, <4>4 DEF PaneStands
      <4> HIDE DEF waits
      <4>6. ChangesStand(desk', listing', op')
        BY <1>1, <1>4, <2>1, <4>1, <4>4, GoesOn
      <4> QED BY <2>1, <2>2, <4>5, <4>6 DEF DeskInv
    <3> QED BY <3>3, <3>4
  <2> QED BY <2>3, <2>4
<1> QED BY <1>5, <1>6, <1>7

\* The page read again has come.
LEMMA FinishStep ==
  ASSUME DeskInv, NEW s \in Slot, Finish(s)
  PROVE  DeskInv'
<1>0. DeskTyped /\ PaneStands(desk, listing) /\ ChangesStand(desk, listing, op)
  BY DEF DeskInv
<1>1. op[s] # None /\ op[s] \in KbChange /\ UNCHANGED <<kbs, stored, form>>
  BY <1>0 DEF Finish, ChangesStand, kbServerVars
<1>2. \/ AskBases(op[s].base, Drop(s))
      \/ /\ op' = Drop(s) /\ listing' = [listing EXCEPT !.locked = @ /\ ~op[s].cur]
         /\ UNCHANGED <<asked, desk, probe>>
  BY DEF Finish
<1>3. CASE AskBases(op[s].base, Drop(s))
  BY <1>1, <1>3, DropAndAsk
<1>4. CASE /\ op' = Drop(s) /\ listing' = [listing EXCEPT !.locked = @ /\ ~op[s].cur]
           /\ UNCHANGED <<asked, desk, probe>>
  <2> DEFINE keep == listing.locked /\ ~op[s].cur
  <2>1. listing \in Listing /\ keep \in BOOLEAN /\ listing' = [listing EXCEPT !.locked = keep]
    BY <1>0, <1>4 DEF PaneStands, Listing
  <2>2. listing.locked => keep \/ listing # Shut
    BY ShutList
  <2>3. listing'.locked = keep
    BY <2>1 DEF Listing
  <2>4. ChangesStand(desk', listing', op')
    BY <1>1, <1>4, <2>3, ChangeEnds
  <2>5. PaneStands(desk, listing')
    <3>1. CASE Listed(desk)
      <4> HIDE DEF keep
      <4>2. /\ listing' \in Listing /\ listing'.ticked = listing.ticked /\ listing'.rows = listing.rows
            /\ listing'.fetch = listing.fetch /\ listing'.page = listing.page /\ listing'.of = listing.of
            /\ listing'.fault = listing.fault
            /\ listing'.doomed = listing.doomed /\ listing'.editor = listing.editor
        BY <2>1 DEF Listing
      <4> QED BY <1>0, <3>1, <4>2 DEF PaneStands
    <3>2. CASE ~Listed(desk)
      <4>1. listing = Shut /\ keep = FALSE
        BY <1>0, <3>2, ShutList DEF PaneStands
      <4> HIDE DEF keep
      <4>2. listing' = listing
        <5>1. listing' = [Shut EXCEPT !.locked = FALSE] /\ listing = Shut
          BY <2>1, <4>1
        <5>2. Shut.locked = FALSE /\ Shut \in Listing
          BY ShutList DEF Listing
        <5> QED BY <5>1, <5>2, SameList
      <4> QED BY <1>0, <4>2
    <3> QED BY <3>1, <3>2
  <2>6. DeskTyped'
    BY <1>0, <1>1, <1>4 DEF DeskTyped
  <2> QED BY <1>4, <2>4, <2>5, <2>6 DEF DeskInv
<1> QED BY <1>2, <1>3, <1>4

\* The trial search is asked and answered.
LEMMA SearchStep ==
  ASSUME DeskInv, SearchFor \/ \E ok \in BOOLEAN : SearchReply(ok)
  PROVE  DeskInv'
<1>0. DeskTyped /\ PaneStands(desk, listing) /\ ChangesStand(desk, listing, op)
  BY DEF DeskInv
<1>1. UNCHANGED <<kbs, stored, desk, asked, listing, op, form>>
  BY DEF SearchFor, SearchReply, Beside, kbServerVars
<1>2. probe' \in [seek : {None, desk.sel}, found : {None, desk.sel}]
  <2>0. probe \in [seek : {None, desk.sel}, found : {None, desk.sel}]
    BY <1>0 DEF DeskTyped
  <2>1. CASE SearchFor
    BY <2>0, <2>1 DEF SearchFor
  <2>2. CASE \E ok \in BOOLEAN : SearchReply(ok)
    BY <2>0, <2>2 DEF SearchReply
  <2> QED BY <2>1, <2>2
<1>3. DeskTyped'
  BY <1>0, <1>1, <1>2 DEF DeskTyped
<1> QED BY <1>0, <1>1, <1>3 DEF DeskInv

\* The dialog that imports a workbook.
LEMMA FormSteps ==
  ASSUME DeskInv,
         \/ \E b \in KbBase \cup {None} : OpenImport(b)
         \/ \E ok \in BOOLEAN : \E f \in KbFile : PreviewReply(f, ok)
         \/ \E f \in KbFile : ChooseFile(f)
         \/ SendImport \/ CloseImport \/ ImportRefused
  PROVE  DeskInv'
<1>0. DeskTyped /\ PaneStands(desk, listing) /\ ChangesStand(desk, listing, op)
  BY DEF DeskInv
<1>1. UNCHANGED <<kbs, stored, desk, asked, listing, op, probe>>
  BY DEF OpenImport, PreviewReply, ChooseFile, SendImport, CloseImport, ImportRefused, FormStep, kbServerVars
<1>2. form' \in ImportForm \cup {None} /\ (form' # None => form'.shown \in {None, form'.file})
  <2>0. form # None => form \in ImportForm /\ form.shown \in {None, form.file}
    BY <1>0 DEF DeskTyped
  <2>1. CASE \E b \in KbBase \cup {None} : OpenImport(b)
    BY <2>1 DEF OpenImport, ImportForm
  <2>2. CASE \E ok \in BOOLEAN : \E f \in KbFile : PreviewReply(f, ok)
    BY <2>0, <2>2 DEF PreviewReply, ImportForm, IsNewest
  <2>3. CASE \E f \in KbFile : ChooseFile(f)
    <3>1. PICK f \in KbFile :
            form # None /\ form' = [form EXCEPT !.file = f, !.shown = None, !.reading = @ \cup {f}]
      BY <2>3 DEF ChooseFile
    <3>2. form' \in ImportForm /\ form'.shown = None
      BY <2>0, <3>1 DEF ImportForm
    <3> QED BY <3>2
  <2>4. CASE SendImport
    BY <2>0, <2>4 DEF SendImport, ImportForm
  <2>5. CASE CloseImport
    BY <2>5 DEF CloseImport
  <2>6. CASE ImportRefused
    BY <2>0, <2>6 DEF ImportRefused, ImportForm
  <2> QED BY <2>1, <2>2, <2>3, <2>4, <2>5, <2>6
<1>3. DeskTyped'
  BY <1>0, <1>1, <1>2 DEF DeskTyped
<1> QED BY <1>0, <1>1, <1>3 DEF DeskInv

\* A workbook is imported.
LEMMA ImportedStep ==
  ASSUME DeskInv, NEW b \in KbBase, Imported(b)
  PROVE  DeskInv'
<1>0. DeskTyped /\ PaneStands(desk, listing) /\ ChangesStand(desk, listing, op)
  BY DEF DeskInv
<1>1. /\ kbs' = kbs \cup {b} /\ form' = None /\ AskBases(b, op)
      /\ stored' = [i \in KbItem |-> IF BaseOf[i] = b /\ stored[i] = "gone" THEN "on" ELSE stored[i]]
  BY DEF Imported
<1>2. op \in [Slot -> KbChange \cup {None}]
  BY <1>0 DEF ChangesStand
<1>3. /\ asked' = asked \cup {[prefer |-> b, seen |-> kbs]}
      /\ desk' \in DeskState /\ desk'.sel \in desk'.bases \cup {None}
      /\ probe' \in [seek : {None, desk'.sel}, found : {None, desk'.sel}]
      /\ PaneStands(desk', listing') /\ ChangesStand(desk', listing', op')
  BY <1>1, <1>2, AskStep
<1>4. stored' \in [KbItem -> KbValue]
  BY <1>0, <1>1 DEF DeskTyped, KbValue
<1>5. DeskTyped'
  BY <1>0, <1>1, <1>3, <1>4 DEF DeskTyped
<1> QED BY <1>3, <1>5 DEF DeskInv

\* Other people change the items and the bases.
LEMMA MeanwhileStep ==
  ASSUME DeskInv,
         \/ \E i \in KbItem : \E value \in {"gone", "on", "off"} : Meanwhile(i, value)
         \/ \E b \in KbBase : MeanwhileDrop(b)
  PROVE  DeskInv'
<1>0. DeskTyped /\ PaneStands(desk, listing) /\ ChangesStand(desk, listing, op)
  BY DEF DeskInv
<1>1. UNCHANGED <<desk, asked, listing, op, form, probe>>
  BY DEF Meanwhile, MeanwhileDrop
<1>2. kbs' \subseteq KbBase /\ stored' \in [KbItem -> KbValue]
  <2>1. CASE \E i \in KbItem : \E value \in {"gone", "on", "off"} : Meanwhile(i, value)
    BY <1>0, <2>1 DEF DeskTyped, Meanwhile, KbValue
  <2>2. CASE \E b \in KbBase : MeanwhileDrop(b)
    BY <1>0, <2>2 DEF DeskTyped, MeanwhileDrop, KbValue
  <2> QED BY <2>1, <2>2
<1>3. DeskTyped'
  BY <1>0, <1>1, <1>2 DEF DeskTyped
<1> QED BY <1>0, <1>1, <1>3 DEF DeskInv

LEMMA DeskStep == DeskInv /\ [KbNext]_deskVars => DeskInv'
<1> SUFFICES ASSUME DeskInv, [KbNext]_deskVars PROVE DeskInv'
  OBVIOUS
<1>1. CASE \E r \in asked : BasesFail(r) \/ \E bs \in {r.seen, kbs} : BasesReply(r, bs)
  BY <1>1, BasesStep
<1>2. CASE ItemsReply \/ ItemsFail
  BY <1>2, PageStep
<1>3. CASE \E tab \in {"content", "items", "search"}, b \in KbBase \cup {None} : Turn(tab, b)
  BY <1>3, TurnStep
<1>4. CASE \/ \E p \in 1 .. listing.pages : TurnPage(p)
           \/ \E i \in KbItem : TickItem(i) \/ AskDelete(i)
           \/ \E T \in {{}, DOMAIN listing.rows} : TickPage(T)
           \/ \E i \in KbItem \cup {None} : EditItem(i)
           \/ CloseModal
  <2>1. \/ \E i \in KbItem \cup {None} : i \in KbItem /\ (TickItem(i) \/ AskDelete(i))
        \/ \E i \in KbItem \cup {None} : EditItem(i)
        \/ \E p \in 1 .. listing.pages : TurnPage(p)
        \/ (\E T \in {{}, DOMAIN listing.rows} : TickPage(T)) \/ CloseModal
    BY <1>4
  <2> QED BY <2>1, PaneStep
<1>5. CASE \/ \E i \in KbItem : ToggleItem(i)
           \/ \E value \in {"on", "off"} : BatchSet(value)
           \/ ConfirmDelete
  BY <1>5, ItemChangeStep
<1>6. CASE \/ \E value \in {"on", "off"} : SubmitItem(value)
           \/ \E b \in KbBase : \E value \in {"gone", "switched"} : ChangeBase(b, value)
  BY <1>6, OtherChangeStep
<1>7. CASE \E s \in Slot : Serve(s) \/ BaseRefused(s)
  BY <1>7, ServeStep
<1>8. CASE \E s \in Slot : Reply(s)
  BY <1>8, ReplyStep
<1>9. CASE \E s \in Slot : Finish(s)
  BY <1>9, FinishStep
<1>10. CASE SearchFor \/ \E ok \in BOOLEAN : SearchReply(ok)
  BY <1>10, SearchStep
<1>11. CASE \/ \E b \in KbBase \cup {None} : OpenImport(b)
            \/ \E ok \in BOOLEAN : \E f \in KbFile : PreviewReply(f, ok)
            \/ \E f \in KbFile : ChooseFile(f)
            \/ SendImport \/ CloseImport \/ ImportRefused
  BY <1>11, FormSteps
<1>12. CASE \E b \in KbBase : Imported(b)
  BY <1>12, ImportedStep
<1>13. CASE \/ \E i \in KbItem : \E value \in {"gone", "on", "off"} : Meanwhile(i, value)
            \/ \E b \in KbBase : MeanwhileDrop(b)
  BY <1>13, MeanwhileStep
<1>14. CASE UNCHANGED deskVars
  BY <1>14 DEF deskVars, DeskInv, DeskTyped, PaneStands, ChangesStand
<1> QED BY <1>1, <1>2, <1>3, <1>4, <1>5, <1>6, <1>7, <1>8, <1>9, <1>10, <1>11, <1>12, <1>13, <1>14 DEF KbNext

LEMMA DeskInvHolds == DeskInv => DeskHolds
<1> SUFFICES ASSUME DeskInv PROVE DeskHolds
  OBVIOUS
<1>1. /\ desk.sel \in desk.bases \cup {None} /\ probe.found \in {None, desk.sel}
      /\ form # None => form.shown \in {None, form.file}
  BY DEF DeskInv, DeskTyped
<1>2. listing.locked \in BOOLEAN
  BY DEF DeskInv, PaneStands, Listing
<1>3. listing.locked = (\E s \in Slot : op[s] # None /\ op[s].cur)
  BY <1>2 DEF DeskInv, ChangesStand, Own
<1> QED BY <1>1, <1>3 DEF DeskInv, PaneStands, DeskHolds

\* DeskInv holds throughout, for any bases, items, files and page size, whatever
\* the order in which answers come (KnowledgeWorkspace, KnowledgeItemList).
THEOREM DeskInvariant == DeskSpec => []DeskInv
<1>1. DeskInv /\ [KbNext]_deskVars => DeskInv'
  BY DeskStep
<1> QED BY DeskInitially, <1>1, PTL DEF DeskSpec

\* What the list shows, ticks, edits or deletes is of the base selected, and it is
\* locked exactly while its own change is under way.
THEOREM DeskStands == DeskSpec => []DeskHolds
BY DeskInvariant, DeskInvHolds, PTL

----------------------------------------------------------------------------
(* The parts of the run. *)

LEMMA EachPart == Spec => ImportSpec /\ DeskSpec
<1>1. Init => KnowledgeInit /\ KbInit
  BY DEF Init
<1>2. [Next]_<<part, syncVars, hotVars, importVars, matchVars, deskVars>>
        => [ImportNext]_importVars /\ [KbNext]_deskVars
  BY DEF Next
<1> QED BY <1>1, <1>2, PTL DEF Spec, ImportSpec, DeskSpec

\* The bases hold the items of their workbooks and what was edited since, every
\* item once, whatever uploads, imports and edits come between; and the page of
\* a person who keeps them shows one base and what is under way in it, however
\* late the answers come.
THEOREM BasesAndPageStand == Spec => []BasesStand
<1>1. ImpInv /\ DeskHolds => BasesStand
  BY ImpInvStands DEF BasesStand
<1> QED BY <1>1, EachPart, WorkbookInvariant, DeskStands, PTL
=============================================================================
