--------------------------- MODULE SectionVersions ---------------------------
(***************************************************************************)
(* The configuration versions of one analysis section (draft, published,   *)
(* archived; one published version is current), the live table of fields   *)
(* they are projected on, which the older field routes still edit, and the *)
(* imports and jobs that are bound to a version.                           *)
(*                                                                         *)
(* A snapshot is a function from the ids of its fields to their key, their *)
(* switch and the keys they depend on; the rest of a field, the section,   *)
(* the export columns, the knowledge and the business rules of a version   *)
(* travel with it and have checks of their own, which may refuse a draft   *)
(* and change nothing.  The number a version is shown with is left out.    *)
(* Every operation is one transaction.                                     *)
(***************************************************************************)
EXTENDS Naturals

CONSTANTS Field,        \* ids of fields
          Key,          \* keys of fields
          Baseline,     \* the live fields the first version was made from
          Import,       \* uploads
          Legacy,       \* those of them that are jobs older than the versions
          MaxVersions,  \* bound on the versions ever made
          MaxDraftEdits,     \* bound on the edits of drafts and of the live table
          NoRow

Version == 1 .. MaxVersions
Status == {"none", "draft", "published", "archived", "gone"}
FieldRow == [key : Key, on : BOOLEAN, deps : SUBSET Key]
Snapshots == UNION {[F -> FieldRow] : F \in SUBSET Field}
UniqueKeys(snap) == \A f, g \in DOMAIN snap : snap[f].key = snap[g].key => f = g

\* The live table has UNIQUE(section_id, key) when the first version is made.
ASSUME VersionAssumption == /\ Legacy \subseteq Import /\ NoRow \notin FieldRow
                            /\ MaxVersions \in Nat \ {0} /\ MaxDraftEdits \in Nat
                            /\ Baseline \in Snapshots /\ UniqueKeys(Baseline)

VARIABLES
  ver,      \* ver[v]: [st, snap] of the version with id v
  current,  \* the versions with is_current = 1
  live,     \* live[f]: the row of analysis_fields, or NoRow
  bound,    \* bound[i]: [st, ver] of an import and of the job it becomes
  accepted, \* (history) accepted[i]: the version and content i was accepted under
  edited,   \* (history) the live table was edited since it was last projected on
  rekeyed,  \* (history) a live row was deleted or given another key
  draftEdits     \* edits so far

verVars == <<ver, current, live, bound, accepted, edited, rekeyed, draftEdits>>

NoFields == [f \in {} |-> NoRow]
Unused == [st |-> "none", snap |-> NoFields]
Rows == {f \in Field : live[f] # NoRow}
LiveSnap == [f \in Rows |-> live[f]]
Snap(v) == ver[v].snap
Switched(snap) == {f \in DOMAIN snap : snap[f].on}
\* The partial function s, overridden by t.
Over(s, t) == [f \in DOMAIN s \cup DOMAIN t |-> IF f \in DOMAIN t THEN t[f] ELSE s[f]]
KeysOf(snap) == {snap[f].key : f \in DOMAIN snap}

(* What a snapshot is checked for. *)

\* No cycle: a set of keys each of which depends on a key of the set is empty.
Acyclic(snap) == \A C \in SUBSET KeysOf(snap) :
                   (\A f \in DOMAIN snap : snap[f].key \in C => snap[f].deps \cap C # {})
                      => C = {}
Grounded(snap) == \A f \in DOMAIN snap : snap[f].deps \subseteq KeysOf(snap)
NeedsOnlyEnabled(snap) ==
  \A f, g \in DOMAIN snap :
    (snap[f].on /\ snap[g].key \in snap[f].deps) => snap[g].on
\* (mutant) a field may change its key to one that nobody has
NoForeignKey(snap) ==
  \A f \in DOMAIN snap, g \in Rows : (snap[f].key = live[g].key) => f = g
\* A field keeps its key, and a key its field, while the row lives.
KeepsIdentity(snap) ==
  \A f \in DOMAIN snap, g \in Rows : (f = g) <=> (snap[f].key = live[g].key)
ValidSnapshot(snap) == /\ UniqueKeys(snap) /\ Grounded(snap) /\ Acyclic(snap)
                       /\ NeedsOnlyEnabled(snap) /\ KeepsIdentity(snap)

(* The projection of a version on the live table. *)

\* The others are switched off: a row keeps its key for ever.
Projected(snap) ==
  [f \in Field |-> IF f \in DOMAIN snap THEN snap[f]
                   ELSE IF live[f] = NoRow THEN NoRow ELSE [live[f] EXCEPT !.on = FALSE]]
\* UNIQUE(section_id, key).  An upsert that meets a key on its way fails too:
\* the transaction is rolled back, and the step is one that does not happen.
FitsTable(table) == \A f, g \in Field :
                 (f # g /\ table[f] # NoRow /\ table[g] # NoRow) => table[f].key # table[g].key
Project(snap) == /\ FitsTable(Projected(snap))
                 /\ live' = Projected(snap)
                 /\ edited' = FALSE
----------------------------------------------------------------------------
VerInit == /\ ver = [v \in Version |-> IF v = 1
                                       THEN [st |-> "published", snap |-> Baseline]
                                       ELSE Unused]
           /\ current = {1}
           /\ live = [f \in Field |-> IF f \in DOMAIN Baseline THEN Baseline[f] ELSE NoRow]
           /\ bound = [i \in Import |-> [st |-> IF i \in Legacy THEN "legacy" ELSE "none",
                                         ver |-> NoRow]]
           /\ accepted = [i \in Import |-> NoRow]
           /\ edited = FALSE
           /\ rekeyed = FALSE
           /\ draftEdits = 0

CurrentVersion == CHOOSE v \in current : TRUE

(* Drafts. *)

\* (mutant) a disabled row is taken for a field somebody added
DraftOfAllRows ==
  IF CurrentVersion = 1 THEN LiveSnap ELSE Over(LiveSnap, Snap(CurrentVersion))

\* The first version is the baseline of a migration: while it is current, a
\* draft takes the whole live table.  Later, the current version and the
\* enabled live fields it does not know.
DraftContent ==
  IF CurrentVersion = 1 THEN LiveSnap
  ELSE Over(Snap(CurrentVersion),
            [f \in {g \in Rows : live[g].on} \ DOMAIN Snap(CurrentVersion) |-> live[f]])

CreateDraft(v) ==
  /\ ver[v].st = "none" /\ \A w \in Version : w < v => ver[w] # Unused
  /\ ver' = [ver EXCEPT ![v] = [st |-> "draft", snap |-> DraftContent]]
  /\ UNCHANGED <<current, live, bound, accepted, edited, rekeyed, draftEdits>>

Patches(snap) ==
  {Over(snap, row) : row \in UNION {[{g} -> FieldRow] : g \in Field}}
    \cup {[f \in DOMAIN snap \ {g} |-> snap[f]] : g \in DOMAIN snap}

\* A patch adds, replaces or removes a field.
UpdateDraft(v) ==
  /\ ver[v].st = "draft" /\ draftEdits < MaxDraftEdits
  /\ \E snap \in Patches(Snap(v)) : /\ ValidSnapshot(snap)
                                    /\ ver' = [ver EXCEPT ![v].snap = snap]
  /\ draftEdits' = draftEdits + 1
  /\ UNCHANGED <<current, live, bound, accepted, edited, rekeyed>>

DeleteDraft(v) == /\ ver[v].st = "draft"
                  /\ ver' = [ver EXCEPT ![v] = [Unused EXCEPT !.st = "gone"]]
                  /\ UNCHANGED <<current, live, bound, accepted, edited, rekeyed, draftEdits>>

(* Published versions. *)

Publish(v) == /\ ver[v].st = "draft" /\ ValidSnapshot(Snap(v))
              /\ Project(Snap(v))
              /\ ver' = [ver EXCEPT ![v].st = "published"]
              /\ current' = {v}
              /\ UNCHANGED <<bound, accepted, rekeyed, draftEdits>>

Activate(v) == /\ ver[v].st = "published"
               /\ current' = {v}
               /\ Project(Snap(v))
               /\ UNCHANGED <<ver, bound, accepted, rekeyed, draftEdits>>

Archive(v) == /\ ver[v].st = "published" /\ v \notin current
              /\ ver' = [ver EXCEPT ![v].st = "archived"]
              /\ UNCHANGED <<current, live, bound, accepted, edited, rekeyed, draftEdits>>

Restore(v) == /\ ver[v].st = "archived"
              /\ ver' = [ver EXCEPT ![v].st = "published"]
              /\ UNCHANGED <<current, live, bound, accepted, edited, rekeyed, draftEdits>>

(* The routes that edit the live table. *)

UpsertField(f, e) ==
  /\ draftEdits < MaxDraftEdits
  /\ LET table == Over(LiveSnap, [g \in {f} |-> e])
     IN UniqueKeys(table) /\ Grounded(table) /\ Acyclic(table)
  /\ live' = [live EXCEPT ![f] = e]
  /\ rekeyed' = (rekeyed \/ (live[f] # NoRow /\ live[f].key # e.key))
  /\ edited' = TRUE
  /\ draftEdits' = draftEdits + 1
  /\ UNCHANGED <<ver, current, bound, accepted>>

DeleteField(f) == /\ live[f] # NoRow /\ draftEdits < MaxDraftEdits
                  /\ live' = [live EXCEPT ![f] = NoRow]
                  /\ edited' = TRUE
                  /\ rekeyed' = TRUE
                  /\ draftEdits' = draftEdits + 1
                  /\ UNCHANGED <<ver, current, bound, accepted>>

(* Imports and jobs. *)

IsPublished(v) == ver[v].st = "published"
\* What an import, and the job of an import, may be bound to.
Bindable(v) == IsPublished(v)

\* The request names a version, or takes the current one.
AcceptImport(i) ==
  /\ bound[i].st = "none"
  /\ \E v \in Version :
       /\ Bindable(v)
       /\ bound' = [bound EXCEPT ![i] = [st |-> "queued", ver |-> v]]
       /\ accepted' = [accepted EXCEPT ![i] = [ver |-> v, snap |-> Snap(v)]]
  /\ UNCHANGED <<ver, current, live, edited, rekeyed, draftEdits>>

FailImport(i) == bound' = [bound EXCEPT ![i].st = "failed"]

\* The worker resolves the import contract of the version, awaits the workbook
\* and creates the job; a version that was archived meanwhile fails it.
BeginImport(i) == /\ bound[i].st = "queued"
                  /\ IF Bindable(bound[i].ver) THEN bound' = [bound EXCEPT ![i].st = "read"]
                                               ELSE FailImport(i)
                  /\ UNCHANGED <<ver, current, live, accepted, edited, rekeyed, draftEdits>>

CreateJob(i) == /\ bound[i].st = "read"
                /\ IF Bindable(bound[i].ver) THEN bound' = [bound EXCEPT ![i].st = "job"]
                                             ELSE FailImport(i)
                /\ UNCHANGED <<ver, current, live, accepted, edited, rekeyed, draftEdits>>

\* A job without a version takes the current one when it is first analysed.
BindLegacy(i) ==
  /\ bound[i].st = "legacy"
  /\ bound' = [bound EXCEPT ![i] = [st |-> "job", ver |-> CurrentVersion]]
  /\ accepted' = [accepted EXCEPT ![i] = [ver |-> CurrentVersion, snap |-> Snap(CurrentVersion)]]
  /\ UNCHANGED <<ver, current, live, edited, rekeyed, draftEdits>>

VerNext ==
  \/ \E v \in Version : \/ CreateDraft(v) \/ UpdateDraft(v) \/ DeleteDraft(v)
                        \/ Publish(v) \/ Activate(v) \/ Archive(v) \/ Restore(v)
  \/ \E f \in Field : DeleteField(f) \/ \E e \in FieldRow : UpsertField(f, e)
  \/ \E i \in Import : AcceptImport(i) \/ BeginImport(i) \/ CreateJob(i) \/ BindLegacy(i)

VerSpec == VerInit /\ [][VerNext]_verVars
----------------------------------------------------------------------------
VerTypeOK ==
  /\ ver \in [Version -> [st : Status, snap : Snapshots]]
  /\ current \subseteq Version
  /\ live \in [Field -> FieldRow \cup {NoRow}]
  /\ bound \in [Import -> [st : {"none", "legacy", "queued", "read", "failed", "job"},
                           ver : Version \cup {NoRow}]]
  /\ accepted \in [Import -> {NoRow} \cup [ver : Version, snap : Snapshots]]
  /\ edited \in BOOLEAN /\ rekeyed \in BOOLEAN /\ draftEdits \in 0 .. MaxDraftEdits

\* An import that was accepted under a configuration is carried out, and its
\* job analysed, under that version with exactly that content, whatever is
\* drafted, published, activated, archived or edited meanwhile; and exactly one
\* version is current, and published.
AcceptedContentStands ==
  /\ VerTypeOK
  /\ \E v \in Version : current = {v} /\ ver[v].st = "published"
  /\ \A i \in Import : accepted[i] # NoRow => /\ bound[i].ver = accepted[i].ver
                                            /\ Snap(accepted[i].ver) = accepted[i].snap

\* While nobody deletes or re-keys a live row by the older routes, every
\* published version can be made current again: no two versions that were ever
\* published use one key for different fields, although their drafts were
\* written side by side.
HistoryCanBeActivated ==
  ~rekeyed => \A v \in Version : IsPublished(v) => FitsTable(Projected(Snap(v)))

\* What was published stays what it was, and can be gone back to.
HistoryStands == AcceptedContentStands /\ HistoryCanBeActivated

\* A new draft says what the current version says, while nobody edited the live
\* table: the fields an earlier version had, and the current one has not, do
\* not come back (only a draft of the migrated baseline lists them, disabled).
DraftsContinue ==
  [][\A v \in Version :
       (ver[v].st = "none" /\ ver'[v].st = "draft" /\ ~edited)
          => /\ Switched(ver'[v].snap) = Switched(Snap(CurrentVersion))
             /\ current # {1} => ver'[v].snap = Snap(CurrentVersion)]_verVars
=============================================================================
