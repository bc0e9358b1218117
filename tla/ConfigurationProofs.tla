------------------------ MODULE ConfigurationProofs ------------------------
(***************************************************************************)
(* What the configuration the analyses run with promises for any sections, *)
(* versions, members, models, addresses, calls, edits, previews, releases  *)
(* and starts: the versions of a section (SectionVersions), the catalogue  *)
(* of a provider (ModelCatalog), the routing of calls (ModelRouting) and   *)
(* the upgrade of a database (Upgrades).                                   *)
(*                                                                         *)
(* A version that was published stays what it was and can be gone back to, *)
(* and drafts continue the current one.  The catalogue needs two           *)
(* invariants beyond the ones that are checked: the check under way for a  *)
(* row an operator has removed does not enable it, and a stored preview is *)
(* the plan of the rows in its fingerprint.  Routing needs that whoever a  *)
(* call has given up, it has asked, or the provider has refused it; and    *)
(* that a member has no more failures than there are calls that can no     *)
(* longer find one.  An upgrade needs, of a database of every schema, what *)
(* the steps up to that schema leave behind (Standing), and that a start   *)
(* that was cut off is before or after all of its migrations.              *)
(***************************************************************************)
EXTENDS SectionVersions, ModelRouting, ModelCatalog, Upgrades, FiniteSetTheorems,
        WellFoundedInduction, NaturalsInduction, TLAPS

----------------------------------------------------------------------------
(* The versions of a section. *)

Published == {"published", "archived"}

\* A version that an import was accepted under has been published.
AcceptedIsPublished ==
  \A i \in Import : accepted[i] # NoRow =>
    accepted[i].ver \in Version /\ ver[accepted[i].ver].st \in Published

\* The live rows have the fields of every version that was ever published, with
\* their keys, as long as nobody deletes or re-keys one.
KeysAreKept ==
  ~rekeyed => \A v \in Version : ver[v].st \in Published =>
                \A f \in DOMAIN Snap(v) : live[f] # NoRow /\ live[f].key = Snap(v)[f].key

\* The live rows that are on are those of the current version, as long as
\* nobody edits them.
LiveRowsAreCurrent ==
  ~edited => \A v \in current, f \in Field :
    IF f \in DOMAIN Snap(v) THEN live[f] = Snap(v)[f] ELSE live[f] = NoRow \/ ~live[f].on

\* What is inductive.
HInv == /\ AcceptedContentStands /\ AcceptedIsPublished
        /\ FitsTable(live) /\ KeysAreKept /\ LiveRowsAreCurrent

DraftsStep ==
  \A v \in Version :
    (ver[v].st = "none" /\ ver'[v].st = "draft" /\ ~edited)
       => /\ Switched(ver'[v].snap) = Switched(Snap(CurrentVersion))
          /\ current # {1} => ver'[v].snap = Snap(CurrentVersion)

----------------------------------------------------------------------------
(* Snapshots. *)

LEMMA SnapshotIs ==
  ASSUME NEW s \in Snapshots
  PROVE  /\ DOMAIN s \subseteq Field /\ s = [f \in DOMAIN s |-> s[f]]
         /\ \A f \in DOMAIN s : s[f] \in FieldRow
BY DEF Snapshots

LEMMA SnapshotMade ==
  ASSUME NEW F \in SUBSET Field, NEW s \in [F -> FieldRow]
  PROVE  s \in Snapshots
BY DEF Snapshots

LEMMA RowIsRow == \A e \in FieldRow : e # NoRow
BY VersionAssumption

LEMMA OverIs ==
  ASSUME NEW s \in Snapshots, NEW t \in Snapshots
  PROVE  Over(s, t) \in Snapshots
<1>1. (DOMAIN s \cup DOMAIN t) \in SUBSET Field
  BY SnapshotIs
<1>2. Over(s, t) \in [DOMAIN s \cup DOMAIN t -> FieldRow]
  BY SnapshotIs DEF Over
<1> QED BY <1>1, <1>2, SnapshotMade

LEMMA LiveSnapIs ==
  ASSUME VerTypeOK
  PROVE  LiveSnap \in Snapshots /\ DOMAIN LiveSnap = Rows /\ \A f \in Rows : LiveSnap[f] = live[f]
<1>1. Rows \in SUBSET Field /\ LiveSnap \in [Rows -> FieldRow]
  BY DEF Rows, LiveSnap, VerTypeOK
<1> QED BY <1>1, SnapshotMade DEF LiveSnap

LEMMA NoFieldsIs == NoFields \in Snapshots
<1>1. {} \in SUBSET Field /\ NoFields \in [{} -> FieldRow]
  BY DEF NoFields
<1> QED BY <1>1, SnapshotMade

LEMMA ProjectedIs ==
  ASSUME VerTypeOK, NEW s \in Snapshots
  PROVE  /\ Projected(s) \in [Field -> FieldRow \cup {NoRow}]
         /\ \A f \in DOMAIN s : Projected(s)[f] = s[f]
         /\ \A f \in Field \ DOMAIN s :
              /\ live[f] = NoRow => Projected(s)[f] = NoRow
              /\ live[f] # NoRow => /\ Projected(s)[f] # NoRow
                                    /\ Projected(s)[f].key = live[f].key /\ ~Projected(s)[f].on
<1>1. \A f \in Field : live[f] # NoRow =>
        /\ [live[f] EXCEPT !.on = FALSE] \in FieldRow
        /\ [live[f] EXCEPT !.on = FALSE].key = live[f].key
        /\ [live[f] EXCEPT !.on = FALSE].on = FALSE
  BY DEF VerTypeOK, FieldRow
<1>2. DOMAIN s \subseteq Field /\ \A f \in DOMAIN s : s[f] \in FieldRow
  BY SnapshotIs
<1>3. \A f \in Field : Projected(s)[f] = IF f \in DOMAIN s THEN s[f]
                                         ELSE IF live[f] = NoRow THEN NoRow
                                         ELSE [live[f] EXCEPT !.on = FALSE]
  BY DEF Projected
<1>4. Projected(s) \in [Field -> FieldRow \cup {NoRow}]
  BY <1>1, <1>2 DEF Projected
<1> QED BY <1>1, <1>2, <1>3, <1>4, RowIsRow

LEMMA CurrentIs ==
  ASSUME HInv
  PROVE  /\ CurrentVersion \in Version /\ current = {CurrentVersion}
         /\ ver[CurrentVersion].st = "published" /\ Snap(CurrentVersion) \in Snapshots
BY DEF HInv, AcceptedContentStands, VerTypeOK, CurrentVersion, Snap

LEMMA InitHolds ==
  ASSUME VerInit
  PROVE  HInv
<1>1. \A f \in DOMAIN Baseline : f \in Field /\ Baseline[f] \in FieldRow /\ Baseline[f] # NoRow
  BY SnapshotIs, RowIsRow, VersionAssumption
<1>2. [st |-> "published", snap |-> Baseline] \in [st : Status, snap : Snapshots]
  BY VersionAssumption DEF Status
<1>3. Unused \in [st : Status, snap : Snapshots]
  BY NoFieldsIs DEF Unused, Status
<1>4. 1 \in Version
  BY VersionAssumption DEF Version
<1>5. ver \in [Version -> [st : Status, snap : Snapshots]]
  BY <1>2, <1>3 DEF VerInit
<1>6. live \in [Field -> FieldRow \cup {NoRow}]
  BY <1>1 DEF VerInit
<1>7. bound \in [Import -> [st : {"none", "legacy", "queued", "read", "failed", "job"},
                            ver : Version \cup {NoRow}]]
  BY DEF VerInit
<1>8. VerTypeOK
  <2>1. current \subseteq Version /\ edited \in BOOLEAN /\ rekeyed \in BOOLEAN
    BY <1>4 DEF VerInit
  <2>3. draftEdits \in 0 .. MaxDraftEdits
    <3>1. MaxDraftEdits \in Nat /\ draftEdits = 0 BY VersionAssumption DEF VerInit
    <3> QED BY <3>1
  <2>2. accepted \in [Import -> {NoRow} \cup [ver : Version, snap : Snapshots]]
    BY DEF VerInit
  <2> QED BY <1>5, <1>6, <1>7, <2>1, <2>2, <2>3 DEF VerTypeOK
<1>9. /\ ver[1].st = "published" /\ Snap(1) = Baseline
      /\ \A v \in Version : v # 1 => ver[v].st = "none"
  BY <1>4 DEF VerInit, Snap, Unused
<1>10. AcceptedContentStands /\ AcceptedIsPublished
  BY <1>4, <1>8, <1>9 DEF AcceptedContentStands, AcceptedIsPublished, VerInit
<1>11. \A f \in Field : live[f] = IF f \in DOMAIN Baseline THEN Baseline[f] ELSE NoRow
  BY DEF VerInit
<1>12. FitsTable(live)
  BY <1>11, VersionAssumption DEF FitsTable, UniqueKeys
<1>13. KeysAreKept
  BY <1>1, <1>9, <1>11 DEF KeysAreKept, Published
<1>14. LiveRowsAreCurrent
  <2>1. current = {1} BY DEF VerInit
  <2> QED BY <2>1, <1>1, <1>9, <1>11 DEF LiveRowsAreCurrent
<1> QED BY <1>10, <1>12, <1>13, <1>14 DEF HInv

----------------------------------------------------------------------------
(* Steps that change versions, but neither what is or was published nor the *)
(* live table.                                                              *)

LEMMA VersionsMove ==
  ASSUME HInv, ver' \in [Version -> [st : Status, snap : Snapshots]],
         UNCHANGED <<current, live, bound, accepted, edited, rekeyed>>,
         draftEdits' \in 0 .. MaxDraftEdits,
         \A v \in Version : ver[v].st \in Published <=> ver'[v].st \in Published,
         \A v \in Version : ver[v].st \in Published => ver'[v].snap = ver[v].snap,
         \A v \in current : ver'[v].st = "published"
  PROVE  HInv'
<1>1. VerTypeOK'
  BY DEF HInv, AcceptedContentStands, VerTypeOK
<1>2. AcceptedContentStands' /\ AcceptedIsPublished'
  BY <1>1 DEF HInv, AcceptedContentStands, AcceptedIsPublished, Snap
<1>3. FitsTable(live)' /\ KeysAreKept'
  BY DEF HInv, FitsTable, KeysAreKept, Snap
<1>4. LiveRowsAreCurrent'
  <2>1. \A v \in current : v \in Version /\ ver[v].st \in Published
    BY DEF HInv, AcceptedContentStands, Published
  <2> QED BY <2>1 DEF HInv, LiveRowsAreCurrent, Snap
<1> QED BY <1>2, <1>3, <1>4 DEF HInv

LEMMA DraftContentIs ==
  ASSUME HInv
  PROVE  DraftContent \in Snapshots
<1>1. LiveSnap \in Snapshots
  BY LiveSnapIs DEF HInv, AcceptedContentStands
<1>2. DEFINE F == {g \in Rows : live[g].on} \ DOMAIN Snap(CurrentVersion)
<1>3. F \in SUBSET Field /\ [f \in F |-> live[f]] \in [F -> FieldRow]
  BY DEF Rows, HInv, AcceptedContentStands, VerTypeOK
<1>4. [f \in F |-> live[f]] \in Snapshots
  BY <1>3, SnapshotMade
<1> HIDE DEF F
<1>5. Over(Snap(CurrentVersion), [f \in F |-> live[f]]) \in Snapshots
  BY <1>4, CurrentIs, OverIs
<1> QED BY <1>1, <1>5 DEF DraftContent, F

LEMMA PatchIs ==
  ASSUME NEW s \in Snapshots, NEW p \in Patches(s)
  PROVE  p \in Snapshots
<1>1. ASSUME NEW given \in UNION {[{g} -> FieldRow] : g \in Field}
      PROVE  Over(s, given) \in Snapshots
  <2>1. PICK g \in Field : given \in [{g} -> FieldRow]
    OBVIOUS
  <2>2. given \in Snapshots
    BY <2>1, SnapshotMade
  <2> QED BY <2>2, OverIs
<1>2. ASSUME NEW g \in DOMAIN s
      PROVE  [f \in DOMAIN s \ {g} |-> s[f]] \in Snapshots
  <2>1. /\ DOMAIN s \ {g} \in SUBSET Field
        /\ [f \in DOMAIN s \ {g} |-> s[f]] \in [DOMAIN s \ {g} -> FieldRow]
    BY <1>2, SnapshotIs
  <2> QED BY <2>1, SnapshotMade
<1>3. CASE p \in {Over(s, given) : given \in UNION {[{g} -> FieldRow] : g \in Field}}
  BY <1>1, <1>3
<1>4. CASE p \in {[f \in DOMAIN s \ {g} |-> s[f]] : g \in DOMAIN s}
  BY <1>2, <1>4
<1> QED BY <1>3, <1>4 DEF Patches

LEMMA CreateDraftStep ==
  ASSUME HInv, NEW v \in Version, CreateDraft(v)
  PROVE  HInv'
<1>1. DraftContent \in Snapshots
  BY DraftContentIs
<1>2. [st |-> "draft", snap |-> DraftContent] \in [st : Status, snap : Snapshots]
  BY <1>1 DEF Status
<1>3. ver' \in [Version -> [st : Status, snap : Snapshots]]
  BY <1>2 DEF CreateDraft, HInv, AcceptedContentStands, VerTypeOK
<1>4. ver[v].st = "none" /\ ver'[v].st = "draft"
      /\ \A w \in Version : w # v => ver'[w] = ver[w]
  BY DEF CreateDraft, HInv, AcceptedContentStands, VerTypeOK
<1>5. \A w \in current : w \in Version /\ ver[w].st = "published"
  BY DEF HInv, AcceptedContentStands
<1>6. draftEdits \in 0 .. MaxDraftEdits
  BY DEF HInv, AcceptedContentStands, VerTypeOK
<1>7. UNCHANGED <<current, live, bound, accepted, edited, rekeyed, draftEdits>>
  BY DEF CreateDraft
<1>8. /\ \A w \in Version : ver[w].st \in Published <=> ver'[w].st \in Published
      /\ \A w \in Version : ver[w].st \in Published => ver'[w].snap = ver[w].snap
      /\ \A w \in current : ver'[w].st = "published"
  BY <1>4, <1>5 DEF Published
<1> QED BY <1>3, <1>6, <1>7, <1>8, VersionsMove

LEMMA UpdateDraftStep ==
  ASSUME HInv, NEW v \in Version, UpdateDraft(v)
  PROVE  HInv'
<1>1. PICK p \in Patches(Snap(v)) : ver' = [ver EXCEPT ![v].snap = p]
  BY DEF UpdateDraft
<1>2. Snap(v) \in Snapshots
  BY DEF HInv, AcceptedContentStands, VerTypeOK, Snap
<1>3. p \in Snapshots
  BY <1>2, PatchIs
<1>4. ver' \in [Version -> [st : Status, snap : Snapshots]]
  BY <1>1, <1>3 DEF HInv, AcceptedContentStands, VerTypeOK
<1>5. ver[v].st = "draft" /\ ver'[v].st = "draft"
      /\ \A w \in Version : w # v => ver'[w] = ver[w]
  BY <1>1 DEF UpdateDraft, HInv, AcceptedContentStands, VerTypeOK
<1>6. \A w \in current : w \in Version /\ ver[w].st = "published"
  BY DEF HInv, AcceptedContentStands
<1>7. draftEdits' \in 0 .. MaxDraftEdits
  BY VersionAssumption DEF UpdateDraft, HInv, AcceptedContentStands, VerTypeOK
<1>8. UNCHANGED <<current, live, bound, accepted, edited, rekeyed>>
  BY DEF UpdateDraft
<1>9. /\ \A w \in Version : ver[w].st \in Published <=> ver'[w].st \in Published
      /\ \A w \in Version : ver[w].st \in Published => ver'[w].snap = ver[w].snap
      /\ \A w \in current : ver'[w].st = "published"
  BY <1>5, <1>6 DEF Published
<1> QED BY <1>4, <1>7, <1>8, <1>9, VersionsMove

LEMMA DeleteDraftStep ==
  ASSUME HInv, NEW v \in Version, DeleteDraft(v)
  PROVE  HInv'
<1>1. [Unused EXCEPT !.st = "gone"] = [st |-> "gone", snap |-> NoFields]
  BY DEF Unused
<1>2. [st |-> "gone", snap |-> NoFields] \in [st : Status, snap : Snapshots]
  BY NoFieldsIs DEF Status
<1>3. ver' \in [Version -> [st : Status, snap : Snapshots]]
  BY <1>1, <1>2 DEF DeleteDraft, HInv, AcceptedContentStands, VerTypeOK
<1>4. ver[v].st = "draft" /\ ver'[v].st = "gone"
      /\ \A w \in Version : w # v => ver'[w] = ver[w]
  BY <1>1 DEF DeleteDraft, HInv, AcceptedContentStands, VerTypeOK
<1>5. \A w \in current : w \in Version /\ ver[w].st = "published"
  BY DEF HInv, AcceptedContentStands
<1>6. draftEdits \in 0 .. MaxDraftEdits
  BY DEF HInv, AcceptedContentStands, VerTypeOK
<1>7. UNCHANGED <<current, live, bound, accepted, edited, rekeyed, draftEdits>>
  BY DEF DeleteDraft
<1>8. /\ \A w \in Version : ver[w].st \in Published <=> ver'[w].st \in Published
      /\ \A w \in Version : ver[w].st \in Published => ver'[w].snap = ver[w].snap
      /\ \A w \in current : ver'[w].st = "published"
  BY <1>4, <1>5 DEF Published
<1> QED BY <1>3, <1>6, <1>7, <1>8, VersionsMove

LEMMA ArchiveStep ==
  ASSUME HInv, NEW v \in Version, Archive(v) \/ Restore(v)
  PROVE  HInv'
<1>1. PICK x \in {"archived", "published"} :
        ver' = [ver EXCEPT ![v].st = x] /\ (x = "archived" => v \notin current)
  BY DEF Archive, Restore
<1>2. ver' \in [Version -> [st : Status, snap : Snapshots]]
  BY <1>1 DEF HInv, AcceptedContentStands, VerTypeOK, Status
<1>3. ver[v].st \in Published /\ ver'[v].st = x /\ ver'[v].snap = ver[v].snap
      /\ \A w \in Version : w # v => ver'[w] = ver[w]
  BY <1>1 DEF Archive, Restore, HInv, AcceptedContentStands, VerTypeOK, Published
<1>4. \A w \in current : w \in Version /\ ver[w].st = "published"
  BY DEF HInv, AcceptedContentStands
<1>5. draftEdits \in 0 .. MaxDraftEdits
  BY DEF HInv, AcceptedContentStands, VerTypeOK
<1>6. UNCHANGED <<current, live, bound, accepted, edited, rekeyed, draftEdits>>
  BY DEF Archive, Restore
<1>7. /\ \A w \in Version : ver[w].st \in Published <=> ver'[w].st \in Published
      /\ \A w \in Version : ver[w].st \in Published => ver'[w].snap = ver[w].snap
      /\ \A w \in current : ver'[w].st = "published"
  BY <1>1, <1>3, <1>4 DEF Published
<1> QED BY <1>2, <1>5, <1>6, <1>7, VersionsMove

----------------------------------------------------------------------------
(* Steps that project a version on the live table. *)

LEMMA ProjectStep ==
  ASSUME HInv, NEW v \in Version, Project(Snap(v)), current' = {v},
         ver' \in [Version -> [st : Status, snap : Snapshots]],
         UNCHANGED <<bound, accepted, rekeyed, draftEdits>>,
         ver'[v].st = "published",
         \A w \in Version : ver'[w].snap = ver[w].snap,
         \A w \in Version : w # v => ver'[w].st = ver[w].st,
         ~rekeyed => \A f \in DOMAIN Snap(v) : live[f] # NoRow => live[f].key = Snap(v)[f].key
  PROVE  HInv'
<1>1. Snap(v) \in Snapshots /\ \A w \in Version : Snap(w) \in Snapshots
  BY DEF HInv, AcceptedContentStands, VerTypeOK, Snap
<1>2. VerTypeOK
  BY DEF HInv, AcceptedContentStands
<1>3. live' \in [Field -> FieldRow \cup {NoRow}]
      /\ live' = Projected(Snap(v)) /\ FitsTable(live') /\ edited' = FALSE
  BY <1>1, <1>2, ProjectedIs DEF Project
<1>4. VerTypeOK'
  BY <1>2, <1>3 DEF VerTypeOK
<1>5. \A w \in Version : Snap(w)' = Snap(w)
  BY DEF Snap
<1>6. AcceptedContentStands'
  BY <1>4, <1>5 DEF HInv, AcceptedContentStands, AcceptedIsPublished
<1>7. AcceptedIsPublished'
  BY DEF HInv, AcceptedIsPublished, Published
<1>8. \A w \in Version : ver'[w].st \in Published => w = v \/ ver[w].st \in Published
  OBVIOUS
<1>9. ASSUME ~rekeyed', NEW w \in Version, ver'[w].st \in Published,
             NEW f \in DOMAIN Snap(w)'
      PROVE  live'[f] # NoRow /\ live'[f].key = Snap(w)'[f].key
  <2>1. f \in Field /\ f \in DOMAIN Snap(w)
    BY <1>1, <1>5, <1>9, SnapshotIs
  <2>2. CASE w = v
    <3>1. live'[f] = Snap(v)[f] /\ Snap(v)[f] \in FieldRow
      BY <1>1, <1>2, <1>3, <2>1, <2>2, ProjectedIs, SnapshotIs
    <3> QED BY <3>1, <2>2, <1>5, RowIsRow
  <2>3. CASE w # v
    <3>1. live[f] # NoRow /\ live[f].key = Snap(w)[f].key
      BY <1>8, <1>9, <2>1, <2>3 DEF HInv, KeysAreKept
    <3>2. CASE f \in DOMAIN Snap(v)
      <4>1. live'[f] = Snap(v)[f] /\ Snap(v)[f] \in FieldRow
        BY <1>1, <1>2, <1>3, <3>2, ProjectedIs, SnapshotIs
      <4>2. live[f].key = Snap(v)[f].key
        BY <1>9, <3>1, <3>2
      <4> QED BY <4>1, <4>2, <3>1, <1>5, RowIsRow
    <3>3. CASE f \notin DOMAIN Snap(v)
      BY <1>1, <1>2, <1>3, <1>5, <2>1, <3>1, <3>3, ProjectedIs
    <3> QED BY <3>2, <3>3
  <2> QED BY <2>2, <2>3
<1>10. KeysAreKept'
  BY <1>9 DEF KeysAreKept
<1>11. ASSUME NEW f \in Field
       PROVE  IF f \in DOMAIN Snap(v) THEN live'[f] = Snap(v)[f]
                                      ELSE live'[f] = NoRow \/ ~live'[f].on
  BY <1>1, <1>2, <1>3, ProjectedIs
<1>12. LiveRowsAreCurrent'
  BY <1>5, <1>11 DEF LiveRowsAreCurrent
<1> QED BY <1>3, <1>6, <1>7, <1>10, <1>12 DEF HInv, FitsTable

LEMMA PublishStep ==
  ASSUME HInv, NEW v \in Version, Publish(v)
  PROVE  HInv'
<1>1. ver' = [ver EXCEPT ![v].st = "published"]
      /\ ver \in [Version -> [st : Status, snap : Snapshots]]
  BY DEF Publish, HInv, AcceptedContentStands, VerTypeOK
<1>2. ver' \in [Version -> [st : Status, snap : Snapshots]]
  BY <1>1 DEF Status
<1>3. ver'[v].st = "published" /\ \A w \in Version : ver'[w].snap = ver[w].snap
      /\ \A u \in Version : u # v => ver'[u].st = ver[u].st
  BY <1>1
<1>4. Snap(v) \in Snapshots
  BY <1>1 DEF Snap
<1>5. \A f \in DOMAIN Snap(v) : live[f] # NoRow => live[f].key = Snap(v)[f].key
  BY <1>4, SnapshotIs DEF Publish, ValidSnapshot, KeepsIdentity, Rows
<1>6. /\ Project(Snap(v)) /\ current' = {v}
      /\ UNCHANGED <<bound, accepted, rekeyed, draftEdits>>
  BY DEF Publish
<1> QED BY <1>2, <1>3, <1>5, <1>6, ProjectStep

LEMMA ActivateStep ==
  ASSUME HInv, NEW v \in Version, Activate(v)
  PROVE  HInv'
<1>1. ver' = ver /\ ver[v].st = "published"
      /\ ver \in [Version -> [st : Status, snap : Snapshots]]
  BY DEF Activate, HInv, AcceptedContentStands, VerTypeOK
<1>2. ~rekeyed => \A f \in DOMAIN Snap(v) : live[f] # NoRow => live[f].key = Snap(v)[f].key
  BY <1>1 DEF HInv, KeysAreKept, Published
<1>3. /\ Project(Snap(v)) /\ current' = {v}
      /\ UNCHANGED <<bound, accepted, rekeyed, draftEdits>>
  BY DEF Activate
<1> QED BY <1>1, <1>2, <1>3, ProjectStep

----------------------------------------------------------------------------
(* Steps of the older routes. *)

LEMMA UpsertStep ==
  ASSUME HInv, NEW f \in Field, NEW e \in FieldRow, UpsertField(f, e)
  PROVE  HInv'
<1>1. VerTypeOK /\ e # NoRow
  BY RowIsRow DEF HInv, AcceptedContentStands
<1>2. \A g \in Field : live'[g] = IF g = f THEN e ELSE live[g]
  BY <1>1 DEF UpsertField, VerTypeOK
<1>3. VerTypeOK'
  BY <1>1, VersionAssumption DEF UpsertField, VerTypeOK
<1>4. AcceptedContentStands' /\ AcceptedIsPublished'
  BY <1>3 DEF UpsertField, HInv, AcceptedContentStands, AcceptedIsPublished, Snap
<1>5. FitsTable(live)'
  <2>1. DEFINE t == Over(LiveSnap, [g \in {f} |-> e])
  <2>2. \A g \in Field : live'[g] # NoRow => g \in DOMAIN t /\ t[g] = live'[g]
    BY <1>1, <1>2, LiveSnapIs DEF Over, Rows
  <2>3. UniqueKeys(t)
    BY DEF UpsertField
  <2> HIDE DEF t
  <2> QED BY <2>2, <2>3 DEF FitsTable, UniqueKeys
<1>6. KeysAreKept'
  <2>1. rekeyed' = (rekeyed \/ (live[f] # NoRow /\ live[f].key # e.key)) /\ ver' = ver
    BY DEF UpsertField
  <2>2. \A v \in Version : DOMAIN Snap(v) \subseteq Field
    BY <1>1, SnapshotIs DEF VerTypeOK, Snap
  <2>3. ASSUME ~rekeyed', NEW v \in Version, ver[v].st \in Published, NEW g \in DOMAIN Snap(v)
        PROVE  live'[g] # NoRow /\ live'[g].key = Snap(v)[g].key
    <3>1. live[g] # NoRow /\ live[g].key = Snap(v)[g].key /\ g \in Field
      BY <2>1, <2>2, <2>3 DEF HInv, KeysAreKept
    <3> QED BY <1>1, <1>2, <2>1, <2>3, <3>1
  <2> QED BY <2>1, <2>3 DEF KeysAreKept, Snap
<1>7. LiveRowsAreCurrent'
  BY DEF UpsertField, LiveRowsAreCurrent
<1> QED BY <1>4, <1>5, <1>6, <1>7 DEF HInv

LEMMA DeleteFieldStep ==
  ASSUME HInv, NEW f \in Field, DeleteField(f)
  PROVE  HInv'
<1>1. VerTypeOK
  BY DEF HInv, AcceptedContentStands
<1>2. \A g \in Field : live'[g] = IF g = f THEN NoRow ELSE live[g]
  BY <1>1 DEF DeleteField, VerTypeOK
<1>3. VerTypeOK'
  BY <1>1, VersionAssumption DEF DeleteField, VerTypeOK
<1>4. AcceptedContentStands' /\ AcceptedIsPublished'
  BY <1>3 DEF DeleteField, HInv, AcceptedContentStands, AcceptedIsPublished, Snap
<1>5. FitsTable(live)'
  BY <1>2 DEF HInv, FitsTable
<1>6. KeysAreKept' /\ LiveRowsAreCurrent'
  BY DEF DeleteField, KeysAreKept, LiveRowsAreCurrent
<1> QED BY <1>4, <1>5, <1>6 DEF HInv

----------------------------------------------------------------------------
(* Steps of imports and jobs. *)

LEMMA BindStep ==
  ASSUME HInv, NEW i \in Import, NEW v \in Version, ver[v].st \in Published,
         NEW x \in {"queued", "job"},
         bound' = [bound EXCEPT ![i] = [st |-> x, ver |-> v]],
         accepted' = [accepted EXCEPT ![i] = [ver |-> v, snap |-> Snap(v)]],
         UNCHANGED <<ver, current, live, edited, rekeyed, draftEdits>>
  PROVE  HInv'
<1>1. VerTypeOK /\ Snap(v) \in Snapshots
  BY DEF HInv, AcceptedContentStands, VerTypeOK, Snap
<1>2. VerTypeOK'
  BY <1>1 DEF VerTypeOK
<1>3. /\ bound'[i].ver = v /\ accepted'[i].ver = v /\ accepted'[i].snap = Snap(v)
      /\ \A j \in Import : j # i => bound'[j] = bound[j] /\ accepted'[j] = accepted[j]
  BY <1>1 DEF VerTypeOK
<1>4. \A w : Snap(w)' = Snap(w)
  BY DEF Snap
<1>5. AcceptedContentStands'
  BY <1>2, <1>3, <1>4 DEF HInv, AcceptedContentStands
<1>6. AcceptedIsPublished'
  BY <1>3 DEF HInv, AcceptedIsPublished
<1>7. FitsTable(live)' /\ KeysAreKept' /\ LiveRowsAreCurrent'
  BY DEF HInv, FitsTable, KeysAreKept, LiveRowsAreCurrent, Snap
<1> QED BY <1>5, <1>6, <1>7 DEF HInv

LEMMA ImportMoves ==
  ASSUME HInv, NEW i \in Import, BeginImport(i) \/ CreateJob(i)
  PROVE  HInv'
<1>1. PICK x \in {"read", "job", "failed"} : bound' = [bound EXCEPT ![i].st = x]
  BY DEF BeginImport, CreateJob, FailImport
<1>2. UNCHANGED <<ver, current, live, accepted, edited, rekeyed, draftEdits>>
  BY DEF BeginImport, CreateJob
<1>3. VerTypeOK'
  BY <1>1, <1>2 DEF HInv, AcceptedContentStands, VerTypeOK
<1>4. \A j \in Import : bound'[j].ver = bound[j].ver
  BY <1>1 DEF HInv, AcceptedContentStands, VerTypeOK
<1>5. AcceptedContentStands' /\ AcceptedIsPublished'
  BY <1>2, <1>3, <1>4 DEF HInv, AcceptedContentStands, AcceptedIsPublished, Snap
<1>6. FitsTable(live)' /\ KeysAreKept' /\ LiveRowsAreCurrent'
  BY <1>2 DEF HInv, FitsTable, KeysAreKept, LiveRowsAreCurrent, Snap
<1> QED BY <1>5, <1>6 DEF HInv

LEMMA AcceptStep ==
  ASSUME HInv, NEW i \in Import, AcceptImport(i)
  PROVE  HInv'
<1>1. PICK v \in Version :
        /\ Bindable(v)
        /\ bound' = [bound EXCEPT ![i] = [st |-> "queued", ver |-> v]]
        /\ accepted' = [accepted EXCEPT ![i] = [ver |-> v, snap |-> Snap(v)]]
  BY DEF AcceptImport
<1>2. UNCHANGED <<ver, current, live, edited, rekeyed, draftEdits>>
  BY DEF AcceptImport
<1>3. ver[v].st \in Published
  BY <1>1 DEF Bindable, IsPublished, Published
<1> QED BY <1>1, <1>2, <1>3, BindStep

LEMMA BindLegacyStep ==
  ASSUME HInv, NEW i \in Import, BindLegacy(i)
  PROVE  HInv'
<1>1. CurrentVersion \in Version /\ ver[CurrentVersion].st \in Published
  BY CurrentIs DEF Published
<1> QED BY <1>1, BindStep DEF BindLegacy

----------------------------------------------------------------------------
LEMMA StepKeeps ==
  ASSUME HInv, [VerNext]_verVars
  PROVE  HInv'
<1>1. ASSUME NEW v \in Version,
             \/ CreateDraft(v) \/ UpdateDraft(v) \/ DeleteDraft(v)
             \/ Publish(v) \/ Activate(v) \/ Archive(v) \/ Restore(v)
      PROVE  HInv'
  BY <1>1, CreateDraftStep, UpdateDraftStep, DeleteDraftStep, PublishStep, ActivateStep,
     ArchiveStep
<1>2. ASSUME NEW f \in Field, DeleteField(f) \/ \E e \in FieldRow : UpsertField(f, e)
      PROVE  HInv'
  BY <1>2, DeleteFieldStep, UpsertStep
<1>3. ASSUME NEW i \in Import,
             AcceptImport(i) \/ BeginImport(i) \/ CreateJob(i) \/ BindLegacy(i)
      PROVE  HInv'
  BY <1>3, AcceptStep, ImportMoves, BindLegacyStep
<1>4. CASE UNCHANGED verVars
  <2>1. UNCHANGED <<ver, current, live, bound, accepted, edited, rekeyed, draftEdits>>
    BY <1>4 DEF verVars
  <2> QED BY <2>1 DEF HInv, AcceptedContentStands, VerTypeOK, AcceptedIsPublished, FitsTable,
                      KeysAreKept, LiveRowsAreCurrent, Snap
<1> QED BY <1>1, <1>2, <1>3, <1>4 DEF VerNext

\* The inductive invariant of the versions: what imports were accepted under
\* stands, the live table has one row for each key, and it keeps the keys of
\* every version that was published.
THEOREM HistoryInvariant == VerSpec => []HInv
<1>1. VerInit => HInv
  BY InitHolds
<1>2. HInv /\ [VerNext]_verVars => HInv'
  BY StepKeeps
<1> QED BY <1>1, <1>2, PTL DEF VerSpec

LEMMA CanBeActivated ==
  ASSUME HInv
  PROVE  HistoryCanBeActivated
<1>1. SUFFICES ASSUME ~rekeyed, NEW v \in Version, IsPublished(v),
                      NEW f \in Field, NEW g \in Field, f # g,
                      Projected(Snap(v))[f] # NoRow, Projected(Snap(v))[g] # NoRow
               PROVE  Projected(Snap(v))[f].key # Projected(Snap(v))[g].key
  BY DEF HistoryCanBeActivated, FitsTable
<1>2. Snap(v) \in Snapshots /\ VerTypeOK
  BY DEF HInv, AcceptedContentStands, VerTypeOK, Snap
<1>3. ASSUME NEW x \in Field, Projected(Snap(v))[x] # NoRow
      PROVE  live[x] # NoRow /\ Projected(Snap(v))[x].key = live[x].key
  <2>1. CASE x \in DOMAIN Snap(v)
    BY <1>1, <1>2, <2>1, ProjectedIs DEF HInv, KeysAreKept, IsPublished, Published
  <2>2. CASE x \notin DOMAIN Snap(v)
    BY <1>2, <1>3, <2>2, ProjectedIs
  <2> QED BY <2>1, <2>2
<1> QED BY <1>1, <1>3 DEF HInv, FitsTable

\* What was published stays what it was and can be gone back to, whatever is
\* drafted, published, activated, archived, edited and imported side by side.
THEOREM HistoryKept == VerSpec => []HistoryStands
<1>1. HInv => HistoryStands
  BY CanBeActivated DEF HInv, HistoryStands
<1> QED BY <1>1, HistoryInvariant, PTL

----------------------------------------------------------------------------
(* Drafts. *)

LEMMA LiveOn ==
  ASSUME HInv, ~edited
  PROVE  \A f \in Rows : live[f].on =>
           f \in DOMAIN Snap(CurrentVersion) /\ live[f] = Snap(CurrentVersion)[f]
BY CurrentIs DEF HInv, LiveRowsAreCurrent, Rows

LEMMA DraftSays ==
  ASSUME HInv, ~edited
  PROVE  /\ Switched(DraftContent) = Switched(Snap(CurrentVersion))
         /\ current # {1} => DraftContent = Snap(CurrentVersion)
<1> DEFINE s == Snap(CurrentVersion)
<1>1. s \in Snapshots /\ current = {CurrentVersion}
  BY CurrentIs
<1>2. CASE CurrentVersion = 1
  <2>1. DraftContent = LiveSnap
    BY <1>2 DEF DraftContent
  <2>2. DOMAIN LiveSnap = Rows /\ \A f \in Rows : LiveSnap[f] = live[f]
    BY LiveSnapIs DEF HInv, AcceptedContentStands
  <2>3. \A f \in DOMAIN s : f \in Rows /\ live[f] = s[f]
    <3>1. \A f \in DOMAIN s : f \in Field /\ s[f] \in FieldRow
      BY <1>1, SnapshotIs
    <3> QED BY <1>1, <3>1, RowIsRow DEF HInv, LiveRowsAreCurrent, Rows
  <2>4. Switched(LiveSnap) = Switched(s)
    BY <2>2, <2>3, LiveOn DEF Switched
  <2> QED BY <1>1, <1>2, <2>1, <2>4
<1>3. CASE CurrentVersion # 1
  <2>1. {g \in Rows : live[g].on} \ DOMAIN s = {}
    BY LiveOn
  <2>2. DraftContent = Over(s, [f \in {} |-> live[f]])
    BY <1>3, <2>1 DEF DraftContent
  <2>3. Over(s, [f \in {} |-> live[f]]) = [f \in DOMAIN s |-> s[f]]
    BY DEF Over
  <2>4. DraftContent = s
    BY <1>1, <2>2, <2>3, SnapshotIs
  <2> QED BY <2>4
<1> QED BY <1>2, <1>3

LEMMA DraftsStepHolds ==
  ASSUME HInv, [VerNext]_verVars
  PROVE  DraftsStep
<1>1. SUFFICES ASSUME NEW v \in Version, ver[v].st = "none", ver'[v].st = "draft", ~edited
               PROVE  ver'[v].snap = DraftContent
  BY DraftSays DEF DraftsStep
<1>2. ver \in [Version -> [st : Status, snap : Snapshots]]
  BY DEF HInv, AcceptedContentStands, VerTypeOK
<1>3. ver' # ver
  BY <1>1
<1>4. PICK w \in Version : \/ CreateDraft(w) \/ UpdateDraft(w) \/ DeleteDraft(w)
                           \/ Publish(w) \/ Archive(w) \/ Restore(w)
  BY <1>3 DEF VerNext, verVars, Activate, DeleteField, UpsertField, AcceptImport, BeginImport,
              CreateJob, BindLegacy
<1>5. CASE CreateDraft(w)
  BY <1>1, <1>2, <1>5 DEF CreateDraft
<1>6. CASE UpdateDraft(w)
  BY <1>1, <1>2, <1>6 DEF UpdateDraft
<1>7. CASE DeleteDraft(w)
  BY <1>1, <1>2, <1>7 DEF DeleteDraft, Unused
<1>8. CASE Publish(w) \/ Archive(w) \/ Restore(w)
  BY <1>1, <1>2, <1>8 DEF Publish, Archive, Restore
<1> QED BY <1>4, <1>5, <1>6, <1>7, <1>8

\* A new draft goes on from the current version, as long as nobody edits the
\* live table behind it.
THEOREM DraftsGoOn == VerSpec => DraftsContinue
<1>1. HInv /\ [VerNext]_verVars => [DraftsStep]_verVars
  BY DraftsStepHolds
<1>2. VerSpec => [][DraftsStep]_verVars
  BY <1>1, HistoryInvariant, PTL DEF VerSpec
<1> QED BY <1>2 DEF DraftsContinue, DraftsStep

----------------------------------------------------------------------------
(* The catalogue of a provider. *)

\* The check under way for a removed row does not enable it.
RemovalUnchecked == \A n \in kept : n \in DOMAIN checks => ~checks[n].enable

CatInv == CatalogStands /\ RemovalUnchecked

\* The rows a plan is made of: those of the fingerprint it was stored with.
PlannedFrom(p, rows) ==
  LET managed == {n \in DOMAIN rows : rows[n].managed}
  IN /\ p.models \subseteq Model
     /\ p.update = {n \in managed : \E model \in p.models : /\ rows[n].model = model
                                                           /\ rows[n].purpose = CatalogKind[model]}
     /\ p.disable = managed \ p.update
     /\ p.create = {model \in p.models : \A n \in p.update : rows[n].model # model}
     /\ \A n \in managed, model \in p.models :
          rows[n].model = model => rows[n].purpose = CatalogKind[model]

PreviewsArePlans == \A p \in preview : PlannedFrom(p, p.print[2])
----------------------------------------------------------------------------
(* Rows. *)

\* A new row is a row that nothing was measured for.
LEMMA NewRowType ==
  ASSUME NEW model \in Model, NEW purpose \in Purpose, NEW managed \in BOOLEAN
  PROVE  /\ NewRow(model, purpose, managed) \in Conf
         /\ NewRow(model, purpose, managed).cap = NotChecked
         /\ NewRow(model, purpose, managed).model = model
         /\ NewRow(model, purpose, managed).managed = managed
BY DEF NewRow, Conf

\* Numbers above those of the rows can be given to the models to create.
LEMMA PlacesExist ==
  ASSUME NEW S \in SUBSET Model, NEW k \in Nat
  PROVE  /\ Cardinality(S) \in Nat
         /\ \E f \in [S -> (k + 1) .. (k + Cardinality(S))] :
              \A a, b \in S : (f[a] = f[b]) => (a = b)
<1> DEFINE c == Cardinality(S)
<1>1. IsFiniteSet(S)
  BY FS_Subset, CatalogAssumption
<1>2. c \in Nat
  BY <1>1, FS_CardinalityType
<1>3. k + 1 \in Int /\ k + c \in Int
  BY <1>2
<1> DEFINE places == (k + 1) .. (k + c)
<1>4. IsFiniteSet(places) /\ Cardinality(places) = IF k + 1 > k + c THEN 0 ELSE (k + c) - (k + 1) + 1
  BY <1>3, FS_Interval
<1>5. Cardinality(places) = c
  <2> HIDE DEF places
  <2> QED BY <1>2, <1>4
<1>6. ExistsBijection(S, places)
  BY <1>1, <1>4, <1>5, FS_SameCardinalityBij
<1> QED BY <1>2, <1>6 DEF ExistsBijection, Bijection, Injection, IsInjective

\* Everything the invariant says, named apart.
CatParts == /\ CatTypeOK
            /\ CapabilityIsMeasured
            /\ RemovalStands
            /\ RemovalUnchecked

LEMMA InvParts == CatInv <=> CatParts
BY DEF CatInv, CatParts, CatalogStands, CapabilityIsMeasured

\* Rows whose pool decision and capability an action leaves alone keep the invariant.
LEMMA RowsKeepInv ==
  ASSUME CatParts, UNCHANGED <<prov, checks, kept>>,
         created' \in created .. MaxRows,
         DOMAIN conf' \subseteq 1 .. created', kept \subseteq DOMAIN conf',
         \A n \in DOMAIN conf' : /\ conf'[n] \in Conf
                                 /\ (conf'[n].cap = NotChecked \/ (/\ n \in Existing
                                                                    /\ conf'[n].cap = conf[n].cap
                                                                    /\ conf'[n].model = conf[n].model
                                                                    /\ conf'[n].purpose = conf[n].purpose)),
         \A n \in kept : conf'[n].pool => conf[n].pool
  PROVE  CatParts'
<1> USE CatalogAssumption
<1>1. CatTypeOK /\ CapabilityIsMeasured /\ RemovalStands /\ RemovalUnchecked
  BY DEF CatParts
<1>2. CatTypeOK'
  BY <1>1 DEF CatTypeOK, Existing
<1>3. CapabilityIsMeasured'
  BY <1>1, <1>2 DEF CapabilityIsMeasured, Existing
<1>4. RemovalStands' /\ RemovalUnchecked'
  BY <1>1 DEF RemovalStands, RemovalUnchecked
<1> QED BY <1>2, <1>3, <1>4 DEF CatParts

LEMMA CreateKeepsInv ==
  ASSUME CatParts, NEW model \in Model, NEW purpose \in Purpose, CreateModelConfig(model, purpose)
  PROVE  CatParts'
<1> USE CatalogAssumption
<1>1. created \in Nat /\ created' = created + 1 /\ created' \in created .. MaxRows
      /\ Existing \subseteq 1 .. created /\ kept \subseteq Existing
      /\ \A n \in Existing : conf[n] \in Conf
  BY DEF CatParts, CatTypeOK, CreateModelConfig
<1>2. /\ DOMAIN conf' = Existing \cup {created'}
      /\ \A n \in Existing : conf'[n] = conf[n]
      /\ conf'[created'] = NewRow(model, purpose, FALSE)
  <2>1. created' \notin Existing
    BY <1>1
  <2>2. conf' = [k \in Existing \cup {created'} |->
                   IF k = created' THEN NewRow(model, purpose, FALSE) ELSE conf[k]]
    BY DEF CreateModelConfig, With, Existing
  <2> QED BY <2>1, <2>2
<1>3. UNCHANGED <<prov, checks, kept>>
  BY DEF CreateModelConfig
<1>4. \A n \in DOMAIN conf' : conf'[n] \in Conf /\ (n \in Existing \/ conf'[n].cap = NotChecked)
  <2>1. NewRow(model, purpose, FALSE) \in Conf /\ NewRow(model, purpose, FALSE).cap = NotChecked
    BY NewRowType
  <2> QED BY <1>1, <1>2, <2>1
<1>5. \A n \in kept : conf'[n].pool => conf[n].pool
  BY <1>1, <1>2
<1>6. DOMAIN conf' \subseteq 1 .. created' /\ kept \subseteq DOMAIN conf'
  BY <1>1, <1>2
<1> QED BY <1>1, <1>2, <1>3, <1>4, <1>5, <1>6, RowsKeepInv

\* A row keeps its capability only where it keeps its model and its purpose.
LEMMA UpdateKeepsInv ==
  ASSUME CatParts, NEW n \in Existing,
         NEW model \in Model, NEW purpose \in Purpose, NEW on \in BOOLEAN,
         UpdateModelConfig(n, model, purpose, on)
  PROVE  CatParts'
<1> USE CatalogAssumption
<1>1. CatTypeOK
  BY DEF CatParts
<1>2. conf' = [conf EXCEPT ![n] = Reconfigured(conf[n], model, purpose, on)]
      /\ UNCHANGED <<created, prov, checks, kept>>
  BY DEF UpdateModelConfig
<1>3. /\ Reconfigured(conf[n], model, purpose, on) \in Conf
      /\ Reconfigured(conf[n], model, purpose, on).pool = conf[n].pool
      /\ \/ Reconfigured(conf[n], model, purpose, on).cap = NotChecked
         \/ /\ Reconfigured(conf[n], model, purpose, on).cap = conf[n].cap
            /\ Reconfigured(conf[n], model, purpose, on).model = conf[n].model
            /\ Reconfigured(conf[n], model, purpose, on).purpose = conf[n].purpose
  BY <1>1 DEF Reconfigured, Conf, CatTypeOK
<1>4. DOMAIN conf' = Existing
      /\ \A k \in Existing : conf'[k] = IF k = n THEN Reconfigured(conf[n], model, purpose, on)
                                        ELSE conf[k]
  BY <1>2 DEF Existing
<1>5. /\ created' \in created .. MaxRows
      /\ Existing \subseteq 1 .. created' /\ kept \subseteq Existing
      /\ \A k \in Existing : conf[k] \in Conf
  BY <1>1, <1>2 DEF CatTypeOK
<1> QED BY <1>2, <1>3, <1>4, <1>5, RowsKeepInv

\* A new address clears every capability.
LEMMA ProviderKeepsInv ==
  ASSUME CatParts, NEW url \in Url, NEW on \in BOOLEAN, UpdateModelProvider(url, on)
  PROVE  CatParts'
<1>1. CatTypeOK /\ CapabilityIsMeasured /\ RemovalStands /\ RemovalUnchecked
  BY DEF CatParts
<1>2. prov' = [url |-> url, on |-> on] /\ UNCHANGED <<created, checks, kept>>
  BY DEF UpdateModelProvider
<1>3. /\ DOMAIN conf' = Existing
      /\ \A n \in Existing : /\ conf'[n] \in Conf
                             /\ conf'[n].pool = conf[n].pool
                             /\ \/ conf'[n].cap = NotChecked
                                \/ conf'[n] = conf[n] /\ url = prov.url
  <2>1. CASE url = prov.url
    BY <1>1, <2>1 DEF UpdateModelProvider, CatTypeOK, Existing
  <2>2. CASE url # prov.url
    <3>1. conf' = [n \in Existing |-> [conf[n] EXCEPT !.cap = NotChecked]]
      BY <2>2 DEF UpdateModelProvider
    <3>2. \A n \in Existing : conf[n] \in Conf
      BY <1>1 DEF CatTypeOK
    <3> QED BY <3>1, <3>2 DEF Conf
  <2> QED BY <2>1, <2>2
<1>4. CatTypeOK'
  BY <1>1, <1>2, <1>3 DEF CatTypeOK, Existing
<1>5. CapabilityIsMeasured'
  BY <1>1, <1>2, <1>3, <1>4 DEF CapabilityIsMeasured, Existing
<1>6. RemovalStands' /\ RemovalUnchecked'
  BY <1>1, <1>2, <1>3 DEF RemovalStands, RemovalUnchecked, CatTypeOK
<1> QED BY <1>4, <1>5, <1>6 DEF CatParts

\* Setting and clearing defaults and deleting a row leave the others' capabilities.
LEMMA DefaultsKeepInv ==
  ASSUME CatParts,
         \/ \E n \in Existing : SetDefaultModel(n) \/ DeleteModelConfig(n)
         \/ \E purpose \in Purpose : ClearDefaultModel(purpose)
  PROVE  CatParts'
<1> DEFINE Kept(r, s) == /\ s \in Conf /\ s.cap = r.cap /\ s.model = r.model
                         /\ s.purpose = r.purpose /\ s.pool = r.pool
<1>1. CatTypeOK /\ CapabilityIsMeasured /\ RemovalStands /\ RemovalUnchecked
  BY DEF CatParts
<1>2. \A r \in Conf, d \in BOOLEAN : Kept(r, [r EXCEPT !.default = d]) /\ Kept(r, r)
  BY DEF Conf
<1>3. \A n \in Existing : conf[n] \in Conf /\ conf[n].default \in BOOLEAN
  BY <1>1 DEF CatTypeOK, Conf
<1>4. DOMAIN conf' \subseteq Existing /\ \A n \in DOMAIN conf' : Kept(conf[n], conf'[n])
  <2>1. ASSUME NEW c, NEW n, NEW purpose, DOMAIN c \subseteq Existing,
               \A k \in DOMAIN c : c[k] = conf[k]
        PROVE  /\ DOMAIN WithDefault(c, n, purpose) \subseteq Existing
               /\ \A k \in DOMAIN WithDefault(c, n, purpose) :
                     Kept(conf[k], WithDefault(c, n, purpose)[k])
    <3>1. WithDefault(c, n, purpose) = [k \in DOMAIN c |->
             [conf[k] EXCEPT !.default = IF k = n THEN TRUE
                                         ELSE conf[k].default /\ conf[k].purpose # purpose]]
      BY <2>1 DEF WithDefault
    <3>2. \A k \in DOMAIN c : (IF k = n THEN TRUE ELSE conf[k].default /\ conf[k].purpose # purpose)
                                 \in BOOLEAN
      BY <2>1, <1>3
    <3> HIDE DEF Kept
    <3> QED BY <1>2, <1>3, <2>1, <3>1, <3>2
  <2> HIDE DEF Kept
  <2>2. ASSUME NEW n \in Existing, SetDefaultModel(n)
        PROVE  <1>4!1 /\ <1>4!2
    BY <2>1, <2>2 DEF SetDefaultModel, Existing
  <2>3. ASSUME NEW n \in Existing, DeleteModelConfig(n)
        PROVE  <1>4!1 /\ <1>4!2
    <3> DEFINE rest == Without(conf, n)
    <3>1. DOMAIN rest \subseteq Existing /\ \A k \in DOMAIN rest : rest[k] = conf[k]
      BY DEF Without, Existing
    <3>2. conf' = rest \/ \E h : conf' = WithDefault(rest, h, conf[n].purpose)
      BY <2>3 DEF DeleteModelConfig
    <3> HIDE DEF rest
    <3> QED BY <3>1, <3>2, <2>1, <1>2, <1>3
  <2>4. ASSUME NEW purpose \in Purpose, ClearDefaultModel(purpose)
        PROVE  <1>4!1 /\ <1>4!2
    <3>1. conf' = [k \in Existing |->
                     [conf[k] EXCEPT !.default = conf[k].default /\ conf[k].purpose # purpose]]
      BY <2>4 DEF ClearDefaultModel
    <3> QED BY <3>1, <1>2, <1>3
  <2> QED BY <2>2, <2>3, <2>4
<1>5. /\ UNCHANGED <<created, prov, checks>>
      /\ kept' \subseteq kept /\ kept' \subseteq DOMAIN conf'
  <2>1. kept \subseteq Existing
    BY <1>1 DEF CatTypeOK
  <2>2. ASSUME NEW n \in Existing, SetDefaultModel(n)
        PROVE  UNCHANGED <<created, prov, checks, kept>> /\ DOMAIN conf' = Existing
    BY <2>2 DEF SetDefaultModel, WithDefault, Existing
  <2>3. ASSUME NEW n \in Existing, DeleteModelConfig(n)
        PROVE  UNCHANGED <<created, prov, checks>> /\ kept' = kept \ {n} /\ DOMAIN conf' = Existing \ {n}
    BY <2>3 DEF DeleteModelConfig, WithDefault, Without, Existing
  <2>4. ASSUME NEW purpose \in Purpose, ClearDefaultModel(purpose)
        PROVE  UNCHANGED <<created, prov, checks, kept>> /\ DOMAIN conf' = Existing
    BY <2>4 DEF ClearDefaultModel
  <2> QED BY <2>1, <2>2, <2>3, <2>4
<1>6. CatTypeOK'
  BY <1>1, <1>4, <1>5 DEF CatTypeOK, Existing
<1>7. CapabilityIsMeasured'
  BY <1>1, <1>4, <1>5, <1>6 DEF CapabilityIsMeasured, Existing
<1>8. RemovalStands' /\ RemovalUnchecked'
  BY <1>1, <1>4, <1>5 DEF RemovalStands, RemovalUnchecked
<1> QED BY <1>6, <1>7, <1>8 DEF CatParts

\* Operators put a row in the pool only by taking it off the removed rows.
LEMMA PoolKeepsInv ==
  ASSUME CatParts, NEW n \in Existing,
         \/ \E on, pool \in BOOLEAN : UpdatePoolMember(n, on, pool)
         \/ RemovePoolMember(n)
         \/ RestorePoolMember(n)
  PROVE  CatParts'
<1>1. CatTypeOK /\ CapabilityIsMeasured /\ RemovalStands /\ RemovalUnchecked
  BY DEF CatParts
<1>2. conf[n] \in Conf /\ n \in DOMAIN conf
  BY <1>1 DEF CatTypeOK, Existing
<1> DEFINE SameButPool(r) == /\ conf' = [conf EXCEPT ![n] = r]
                             /\ r \in Conf /\ r.cap = conf[n].cap
                             /\ r.model = conf[n].model /\ r.purpose = conf[n].purpose
           KeptOut(r) == /\ kept' \subseteq kept \cup {n}
                         /\ n \in kept' => ~r.pool /\ (n \in kept \/ ~Enabling(n))
<1>3. UNCHANGED <<created, prov, checks>> /\ \E r : SameButPool(r) /\ KeptOut(r)
  <2>1. ASSUME NEW on \in BOOLEAN, NEW pool \in BOOLEAN, UpdatePoolMember(n, on, pool)
        PROVE  <1>3
    <3> DEFINE r == [conf[n] EXCEPT !.on = on, !.pool = pool]
    <3>1. SameButPool(r) /\ r.pool = pool
      BY <2>1, <1>2 DEF UpdatePoolMember, Conf
    <3>2. KeptOut(r)
      <4> HIDE DEF r
      <4> QED BY <2>1, <3>1 DEF UpdatePoolMember
    <3>3. UNCHANGED <<created, prov, checks>>
      BY <2>1 DEF UpdatePoolMember
    <3> HIDE DEF r, SameButPool, KeptOut
    <3> QED BY <3>1, <3>2, <3>3
  <2>2. CASE RemovePoolMember(n)
    <3> DEFINE r == [conf[n] EXCEPT !.pool = FALSE, !.removed = "operator"]
    <3>1. SameButPool(r) /\ ~r.pool
      BY <2>2, <1>2 DEF RemovePoolMember, Conf
    <3>2. KeptOut(r)
      <4> HIDE DEF r
      <4> QED BY <2>2, <3>1 DEF RemovePoolMember
    <3>3. UNCHANGED <<created, prov, checks>>
      BY <2>2 DEF RemovePoolMember
    <3> HIDE DEF r, SameButPool, KeptOut
    <3> QED BY <3>1, <3>2, <3>3
  <2>3. CASE RestorePoolMember(n)
    <3> DEFINE r == [conf[n] EXCEPT !.pool = TRUE, !.removed = "no"]
    <3>1. SameButPool(r)
      BY <2>3, <1>2 DEF RestorePoolMember, Conf
    <3>2. KeptOut(r)
      <4> HIDE DEF r
      <4> QED BY <2>3 DEF RestorePoolMember
    <3>3. UNCHANGED <<created, prov, checks>>
      BY <2>3 DEF RestorePoolMember
    <3> HIDE DEF r, SameButPool, KeptOut
    <3> QED BY <3>1, <3>2, <3>3
  <2> QED BY <2>1, <2>2, <2>3
<1>4. CatTypeOK'
  BY <1>1, <1>3 DEF CatTypeOK, Existing
<1>5. CapabilityIsMeasured'
  BY <1>1, <1>3, <1>4 DEF CapabilityIsMeasured, Existing
<1>6. RemovalStands' /\ RemovalUnchecked'
  <2>1. PICK r : SameButPool(r) /\ KeptOut(r)
    BY <1>3
  <2>2. conf'[n] = r /\ \A k \in Existing \ {n} : conf'[k] = conf[k]
    BY <1>2, <2>1 DEF Existing
  <2>3. kept \subseteq Existing
    BY <1>1 DEF CatTypeOK
  <2>4. RemovalStands'
    BY <1>1, <2>1, <2>2, <2>3 DEF RemovalStands
  <2>5. RemovalUnchecked'
    BY <1>1, <1>3, <2>1 DEF RemovalUnchecked, Enabling
  <2> QED BY <2>4, <2>5
<1> QED BY <1>4, <1>5, <1>6 DEF CatParts

LEMMA VerifyKeepsInv ==
  ASSUME CatParts, NEW n \in Existing, NEW enable \in BOOLEAN, Verify(n, enable)
  PROVE  CatParts'
<1>1. CatTypeOK /\ CapabilityIsMeasured /\ RemovalStands /\ RemovalUnchecked
  BY DEF CatParts
<1>2. UNCHANGED <<conf, created, prov>> /\ kept' = IF enable THEN kept \ {n} ELSE kept
  BY DEF Verify
<1> DEFINE Check == [of : [url : Url, model : Model, purpose : Purpose], enable : BOOLEAN]
<1>3. /\ DOMAIN checks' = (DOMAIN checks) \cup {n}
      /\ \A k \in (DOMAIN checks) \ {n} : checks'[k] = checks[k]
      /\ checks'[n] \in Check
      /\ checks'[n].enable = IF n \in DOMAIN checks THEN checks[n].enable \/ enable ELSE enable
  <2>1. CASE n \in DOMAIN checks
    <3>1. checks' = [checks EXCEPT ![n] = [checks[n] EXCEPT !.enable = checks[n].enable \/ enable]]
      BY <2>1 DEF Verify
    <3>2. checks[n] \in Check
      BY <1>1, <2>1 DEF CatTypeOK
    <3> QED BY <2>1, <3>1, <3>2
  <2>2. CASE n \notin DOMAIN checks
    BY <1>1, <2>2 DEF Verify, With, Config, CatTypeOK, Conf
  <2> QED BY <2>1, <2>2
<1>4. CatTypeOK' /\ CapabilityIsMeasured' /\ RemovalStands'
  BY <1>1, <1>2, <1>3 DEF CatTypeOK, CapabilityIsMeasured, RemovalStands, Existing
<1>5. RemovalUnchecked'
  BY <1>1, <1>2, <1>3 DEF RemovalUnchecked
<1> QED BY <1>4, <1>5 DEF CatParts

\* What a check stores is what the row is configured for when it ends.
LEMMA CheckEndsKeepsInv ==
  ASSUME CatParts, NEW n \in DOMAIN checks, NEW passed \in BOOLEAN, CheckEnds(n, passed)
  PROVE  CatParts'
<1>1. CatTypeOK /\ CapabilityIsMeasured /\ RemovalStands /\ RemovalUnchecked
  BY DEF CatParts
<1>2. /\ UNCHANGED <<created, prov, kept>>
      /\ DOMAIN checks' = (DOMAIN checks) \ {n}
      /\ \A k \in DOMAIN checks' : checks'[k] = checks[k]
  BY DEF CheckEnds, Without
<1>3. CASE ~StillSame(n)
  <2>1. conf' = conf
    BY <1>3 DEF CheckEnds
  <2>2. CatTypeOK'
    BY <1>1, <1>2, <2>1 DEF CatTypeOK, Existing
  <2> QED BY <1>1, <1>2, <2>1, <2>2
          DEF CatParts, CapabilityIsMeasured, RemovalStands, RemovalUnchecked, Existing
<1>4. CASE StillSame(n)
  <2> DEFINE of == checks[n].of
             cap == [url |-> of.url, model |-> of.model, purpose |-> of.purpose, passed |-> passed]
             in == passed /\ checks[n].enable
  <2>1. /\ n \in Existing /\ conf[n] \in Conf
        /\ of = [url |-> prov.url, model |-> conf[n].model, purpose |-> conf[n].purpose]
    BY <1>1, <1>4 DEF StillSame, Config, CatTypeOK
  <2>2. /\ cap \in Measured
        /\ cap.url = prov.url /\ cap.model = conf[n].model /\ cap.purpose = conf[n].purpose
    BY <1>1, <2>1 DEF Measured, Conf, CatTypeOK
  <2>3. \E r \in Conf : /\ conf' = [conf EXCEPT ![n] = r]
                        /\ r.cap = cap /\ r.model = conf[n].model /\ r.purpose = conf[n].purpose
                        /\ r.pool => conf[n].pool \/ checks[n].enable
    <3> HIDE DEF cap
    <3>1. CASE in
      <4> DEFINE r == [conf[n] EXCEPT !.cap = cap, !.pool = TRUE, !.removed = "no"]
      <4>1. conf' = [conf EXCEPT ![n] = r]
        BY <1>4, <3>1 DEF CheckEnds, cap
      <4>2. r \in Conf /\ r.cap = cap /\ r.model = conf[n].model /\ r.purpose = conf[n].purpose
        BY <2>1, <2>2 DEF Conf
      <4> HIDE DEF r
      <4> QED BY <3>1, <4>1, <4>2
    <3>2. CASE ~in
      <4> DEFINE r == [conf[n] EXCEPT !.cap = cap]
      <4>1. conf' = [conf EXCEPT ![n] = r]
        BY <1>4, <3>2 DEF CheckEnds, cap
      <4>2. /\ r \in Conf /\ r.cap = cap /\ r.model = conf[n].model /\ r.purpose = conf[n].purpose
            /\ r.pool = conf[n].pool
        BY <2>1, <2>2 DEF Conf
      <4> HIDE DEF r
      <4> QED BY <4>1, <4>2
    <3> QED BY <3>1, <3>2
  <2>4. PICK r \in Conf : /\ conf' = [conf EXCEPT ![n] = r]
                          /\ r.cap = cap /\ r.model = conf[n].model /\ r.purpose = conf[n].purpose
                          /\ r.pool => conf[n].pool \/ checks[n].enable
    BY <2>3
  <2>5. /\ DOMAIN conf' = Existing /\ conf'[n] = r
        /\ \A k \in Existing \ {n} : conf'[k] = conf[k]
    BY <2>1, <2>4 DEF Existing
  <2> HIDE DEF cap
  <2>6. CatTypeOK'
    BY <1>1, <1>2, <2>5 DEF CatTypeOK, Existing
  <2>7. CapabilityIsMeasured'
    BY <1>1, <1>2, <2>2, <2>4, <2>5, <2>6 DEF CapabilityIsMeasured, Existing
  <2>8. RemovalStands'
    <3>1. n \in kept => ~r.pool
      BY <1>1, <2>4 DEF RemovalStands, RemovalUnchecked
    <3>2. kept \subseteq Existing
      BY <1>1 DEF CatTypeOK
    <3> QED BY <1>1, <1>2, <2>5, <3>1, <3>2 DEF RemovalStands
  <2>9. RemovalUnchecked'
    BY <1>1, <1>2 DEF RemovalUnchecked
  <2> QED BY <2>6, <2>7, <2>8, <2>9 DEF CatParts
<1> QED BY <1>3, <1>4

\* c is what applying the plan p makes of the rows: new ones for the models to
\* create, each its own, and the others where they were.
FollowsPlan(c, p) ==
  /\ Cardinality(p.create) \in Nat
  /\ Existing \subseteq DOMAIN c
  /\ \A n \in Existing : c[n] = IF n \in p.update THEN Updated(conf[n])
                                ELSE IF n \in p.disable THEN DisabledBySync(conf[n])
                                ELSE conf[n]
  /\ \A n \in (DOMAIN c) \ Existing :
       /\ n \in (created + 1) .. (created + Cardinality(p.create))
       /\ \E model \in p.create : c[n] = NewRow(model, CatalogKind[model], TRUE)
  /\ \A model \in p.create : \E n \in (DOMAIN c) \ Existing :
       c[n] = NewRow(model, CatalogKind[model], TRUE)
  /\ \A n, k \in (DOMAIN c) \ Existing : c[n].model = c[k].model => n = k

LEMMA AppliedRows ==
  ASSUME CatTypeOK, NEW p, p.create \in SUBSET Model
  PROVE  FollowsPlan(Applied(p), p)
<1> USE CatalogAssumption
<1>1. created \in Nat /\ Existing \subseteq 1 .. created
  BY DEF CatTypeOK
<1> DEFINE places == (created + 1) .. (created + Cardinality(p.create))
           Places(f) == f \in [p.create -> places]
                        /\ \A a, b \in p.create : (f[a] = f[b]) => (a = b)
           place == CHOOSE f \in [p.create -> places] : \A a, b \in p.create : (f[a] = f[b]) => (a = b)
           added == {place[model] : model \in p.create}
           At(n) == CHOOSE a \in p.create : place[a] = n
           Here(n) == IF n \in added THEN NewRow(At(n), CatalogKind[At(n)], TRUE)
                     ELSE IF n \in p.update THEN Updated(conf[n])
                     ELSE IF n \in p.disable THEN DisabledBySync(conf[n])
                     ELSE conf[n]
<1>2. Cardinality(p.create) \in Nat /\ Places(place)
  BY <1>1, PlacesExist
<1>3. Applied(p) = [n \in Existing \cup added |-> Here(n)]
  BY DEF Applied
<1> HIDE DEF place
<1>4. \A n \in added : n \in places /\ n \notin Existing
  BY <1>1, <1>2
<1>5. \A model \in p.create : place[model] \in added /\ At(place[model]) = model
  BY <1>2
<1>6. \A n \in added : At(n) \in p.create
  BY <1>5
<1>10. \A n, k \in added : At(n) = At(k) => n = k
  BY <1>5
<1> HIDE DEF At, added
<1>7. \A n \in added : Here(n) = NewRow(At(n), CatalogKind[At(n)], TRUE)
  OBVIOUS
<1>8. \A n \in Existing : Here(n) = IF n \in p.update THEN Updated(conf[n])
                                   ELSE IF n \in p.disable THEN DisabledBySync(conf[n])
                                   ELSE conf[n]
  BY <1>4
<1> HIDE DEF Here
<1>9. DOMAIN Applied(p) = Existing \cup added /\ \A n \in Existing \cup added : Applied(p)[n] = Here(n)
  BY <1>3
<1> QED
  <2>1. Existing \subseteq DOMAIN Applied(p)
    BY <1>9
  <2>2. \A n \in (DOMAIN Applied(p)) \ Existing :
           n \in places /\ \E model \in p.create : Applied(p)[n] = NewRow(model, CatalogKind[model], TRUE)
    BY <1>4, <1>6, <1>7, <1>9
  <2>3. \A model \in p.create : \E n \in (DOMAIN Applied(p)) \ Existing :
           Applied(p)[n] = NewRow(model, CatalogKind[model], TRUE)
    <3> SUFFICES ASSUME NEW model \in p.create
                 PROVE  \E n \in (DOMAIN Applied(p)) \ Existing :
                          Applied(p)[n] = NewRow(model, CatalogKind[model], TRUE)
      OBVIOUS
    <3>1. place[model] \in (DOMAIN Applied(p)) \ Existing
      BY <1>4, <1>5, <1>9
    <3>2. Applied(p)[place[model]] = NewRow(model, CatalogKind[model], TRUE)
      BY <1>5, <1>7, <1>9
    <3> QED BY <3>1, <3>2
  <2>4. \A n \in Existing : Applied(p)[n] = IF n \in p.update THEN Updated(conf[n])
                                            ELSE IF n \in p.disable THEN DisabledBySync(conf[n])
                                            ELSE conf[n]
    BY <1>8, <1>9
  <2>5. \A n, k \in (DOMAIN Applied(p)) \ Existing :
          Applied(p)[n].model = Applied(p)[k].model => n = k
    <3>1. \A model \in Model : NewRow(model, CatalogKind[model], TRUE).model = model
      BY DEF NewRow
    <3>2. \A n \in added : Here(n).model = At(n)
      BY <1>6, <1>7, <3>1
    <3> QED BY <1>9, <1>10, <3>2
  <2> QED BY <1>2, <2>1, <2>2, <2>3, <2>4, <2>5 DEF FollowsPlan

\* The synchronisation keeps what is measured and puts no removed row back.
LEMMA ApplyKeepsInv ==
  ASSUME CatParts, NEW p \in preview, p.create \in SUBSET Model, ApplyPool(p)
  PROVE  CatParts'
<1> USE CatalogAssumption
<1>1. CatTypeOK
  BY DEF CatParts
<1>2. /\ created \in Nat /\ Existing \subseteq 1 .. created /\ kept \subseteq Existing
      /\ \A n \in Existing : conf[n] \in Conf
  <2>1. created \in Nat
    BY <1>1 DEF CatTypeOK
  <2>2. Existing \subseteq 1 .. created /\ kept \subseteq Existing
    BY <1>1 DEF CatTypeOK
  <2>3. \A n \in Existing : conf[n] \in Conf
    BY <1>1 DEF CatTypeOK
  <2> QED BY <2>1, <2>2, <2>3
<1>3. /\ UNCHANGED <<prov, checks, kept>>
      /\ created' = created + Cardinality(p.create) /\ created' <= MaxRows
      /\ conf' = Applied(p)
  BY DEF ApplyPool
<1>4. \A r \in Conf : /\ Updated(r) \in Conf /\ DisabledBySync(r) \in Conf
                      /\ Updated(r).cap = r.cap /\ DisabledBySync(r).cap = r.cap
                      /\ Updated(r).model = r.model /\ DisabledBySync(r).model = r.model
                      /\ Updated(r).purpose = r.purpose /\ DisabledBySync(r).purpose = r.purpose
                      /\ Updated(r).pool = r.pool /\ ~DisabledBySync(r).pool
  BY DEF Updated, DisabledBySync, Conf
<1>5. \A model \in Model : /\ NewRow(model, CatalogKind[model], TRUE) \in Conf
                           /\ NewRow(model, CatalogKind[model], TRUE).cap = NotChecked
  BY NewRowType
<1>6. FollowsPlan(conf', p)
  BY <1>1, <1>3, AppliedRows
<1>7. Cardinality(p.create) \in Nat /\ created' \in created .. MaxRows
  BY <1>2, <1>3, <1>6 DEF FollowsPlan
<1>8. \A n \in Existing : /\ conf'[n] \in Conf /\ conf'[n].cap = conf[n].cap
                          /\ conf'[n].model = conf[n].model /\ conf'[n].purpose = conf[n].purpose
                          /\ conf'[n].pool => conf[n].pool
  <2> SUFFICES ASSUME NEW n \in Existing
               PROVE  /\ conf'[n] \in Conf /\ conf'[n].cap = conf[n].cap
                      /\ conf'[n].model = conf[n].model /\ conf'[n].purpose = conf[n].purpose
                      /\ conf'[n].pool => conf[n].pool
    OBVIOUS
  <2>1. conf'[n] \in {Updated(conf[n]), DisabledBySync(conf[n]), conf[n]}
    BY <1>6 DEF FollowsPlan
  <2> QED BY <1>2, <1>4, <2>1
<1>9. \A n \in (DOMAIN conf') \ Existing : /\ n \in 1 .. created'
                                           /\ conf'[n] \in Conf /\ conf'[n].cap = NotChecked
  <2>1. \A n \in (DOMAIN conf') \ Existing :
          /\ n \in (created + 1) .. created'
          /\ \E model \in p.create : conf'[n] = NewRow(model, CatalogKind[model], TRUE)
    BY <1>3, <1>6 DEF FollowsPlan
  <2>2. \A n \in (created + 1) .. created' : n \in 1 .. created'
    BY <1>2, <1>7
  <2> QED BY <1>5, <2>1, <2>2
<1>10. Existing \subseteq DOMAIN conf'
  BY <1>6 DEF FollowsPlan
<1>11. DOMAIN conf' \subseteq 1 .. created' /\ kept \subseteq DOMAIN conf'
  <2>1. \A n \in 1 .. created : n \in 1 .. created'
    BY <1>2, <1>7
  <2>2. \A n \in DOMAIN conf' : n \in 1 .. created'
    BY <1>2, <1>9, <2>1
  <2> QED BY <1>2, <1>10, <2>2
<1>12. \A n \in kept : conf'[n].pool => conf[n].pool
  BY <1>2, <1>8
<1>13. \A n \in DOMAIN conf' : /\ conf'[n] \in Conf
                               /\ conf'[n].cap = NotChecked \/ (/\ n \in Existing
                                                                /\ conf'[n].cap = conf[n].cap
                                                                /\ conf'[n].model = conf[n].model
                                                                /\ conf'[n].purpose = conf[n].purpose)
  BY <1>8, <1>9
<1> QED BY <1>3, <1>7, <1>11, <1>12, <1>13, RowsKeepInv
----------------------------------------------------------------------------
(* Previews. *)

\* A preview is stored with the plan of the rows in its fingerprint.
LEMMA PreviewIsPlan ==
  ASSUME PreviewsArePlans, NEW models \in SUBSET Model, PreviewPool(models)
  PROVE  PreviewsArePlans'
<1> DEFINE rows == [n \in {k \in Existing : ~conf[k].default} |-> conf[n]]
           update == Matches(models)
           p == [models |-> models, print |-> Fingerprint, update |-> update,
                 disable |-> ManagedRows \ update,
                 create |-> {model \in models : \A n \in update : conf[n].model # model}]
<1>1. preview' = preview \cup {p}
  BY DEF PreviewPool
<1>2. p.print[2] = rows
  BY DEF Fingerprint
<1>3. /\ ManagedRows = {n \in DOMAIN rows : rows[n].managed}
      /\ \A n \in ManagedRows : rows[n] = conf[n]
  BY DEF ManagedRows
<1> HIDE DEF rows
<1>4. /\ update \subseteq ManagedRows
      /\ update = {n \in ManagedRows : \E model \in models : /\ rows[n].model = model
                                                             /\ rows[n].purpose = CatalogKind[model]}
  BY <1>3 DEF Matches, Is
<1> HIDE DEF update
<1>5. {model \in models : \A n \in update : conf[n].model # model}
        = {model \in models : \A n \in update : rows[n].model # model}
  BY <1>3, <1>4
<1>6. \A n \in ManagedRows, model \in models :
        rows[n].model = model => rows[n].purpose = CatalogKind[model]
  BY <1>3 DEF PreviewPool, NoOtherPurpose, ManagedRows
<1>7. PlannedFrom(p, rows)
  BY <1>3, <1>4, <1>5, <1>6 DEF PlannedFrom
<1> HIDE DEF p
<1> QED BY <1>1, <1>2, <1>7 DEF PreviewsArePlans

LEMMA PreviewsStep ==
  ASSUME PreviewsArePlans, [CatNext]_catVars
  PROVE  PreviewsArePlans'
<1>1. preview' \subseteq preview \/ \E models \in SUBSET Model : PreviewPool(models)
  BY DEF CatNext, catVars, CreateModelConfig, UpdateModelProvider, ClearDefaultModel,
         UpdateModelConfig, SetDefaultModel, DeleteModelConfig, UpdatePoolMember, RemovePoolMember,
         RestorePoolMember, Verify, CheckEnds, ApplyPool, DropPreview
<1>2. CASE preview' \subseteq preview
  BY <1>2 DEF PreviewsArePlans
<1> QED BY <1>1, <1>2, PreviewIsPlan

\* A preview that still describes the rows leads to what it was drawn up for.
LEMMA ApplyDoesThePlan ==
  ASSUME CatTypeOK, PreviewsArePlans, NEW p \in preview, ApplyPool(p)
  PROVE  /\ \A model \in p.models : OneMaintained(conf', model)
         /\ \A n \in DOMAIN conf' :
              (conf'[n].managed /\ ~conf'[n].default /\ conf'[n].pool) => conf'[n].model \in p.models
         /\ \A n \in Existing : conf[n].default => n \in DOMAIN conf' /\ conf'[n] = conf[n]
<1> DEFINE rows == [n \in {k \in Existing : ~conf[k].default} |-> conf[n]]
<1>1. p.print[2] = rows /\ conf' = Applied(p) /\ NoDuplicates
  BY DEF ApplyPool, Fresh, Fingerprint
<1>2. PlannedFrom(p, rows)
  BY <1>1 DEF PreviewsArePlans
<1>3. /\ ManagedRows = {n \in DOMAIN rows : rows[n].managed}
      /\ ManagedRows \subseteq Existing
      /\ \A n \in ManagedRows : rows[n] = conf[n]
  BY DEF ManagedRows
<1> HIDE DEF rows
<1>4. /\ p.models \subseteq Model /\ p.create \in SUBSET Model
      /\ p.update \subseteq ManagedRows /\ p.disable = ManagedRows \ p.update
      /\ \A n \in p.update : conf[n].model \in p.models
      /\ p.create = {model \in p.models : \A n \in p.update : conf[n].model # model}
      /\ \A n \in ManagedRows, model \in p.models :
           conf[n].model = model => n \in p.update /\ conf[n].purpose = CatalogKind[model]
  BY <1>2, <1>3 DEF PlannedFrom
<1>5. \A n \in Existing : conf[n] \in Conf
  BY DEF CatTypeOK
<1>6. /\ Existing \subseteq DOMAIN conf'
      /\ \A n \in Existing : conf'[n] = IF n \in p.update THEN Updated(conf[n])
                                        ELSE IF n \in p.disable THEN DisabledBySync(conf[n])
                                        ELSE conf[n]
      /\ \A n \in (DOMAIN conf') \ Existing :
           \E model \in p.create : conf'[n] = NewRow(model, CatalogKind[model], TRUE)
      /\ \A model \in p.create : \E n \in (DOMAIN conf') \ Existing :
           conf'[n] = NewRow(model, CatalogKind[model], TRUE)
      /\ \A n, k \in (DOMAIN conf') \ Existing : conf'[n].model = conf'[k].model => n = k
  <2>1. FollowsPlan(conf', p)
    BY <1>1, <1>4, AppliedRows
  <2> QED BY <2>1 DEF FollowsPlan
<1>7. \A model \in Model : /\ NewRow(model, CatalogKind[model], TRUE).model = model
                           /\ NewRow(model, CatalogKind[model], TRUE).purpose = CatalogKind[model]
                           /\ NewRow(model, CatalogKind[model], TRUE).managed
                           /\ ~NewRow(model, CatalogKind[model], TRUE).default
  BY DEF NewRow
<1>8. \A r \in Conf : /\ Updated(r).managed /\ Updated(r).model = r.model
                      /\ Updated(r).purpose = r.purpose /\ Updated(r).default = r.default
                      /\ ~DisabledBySync(r).pool /\ DisabledBySync(r).model = r.model
                      /\ DisabledBySync(r).managed = r.managed
                      /\ DisabledBySync(r).default = r.default
  BY DEF Updated, DisabledBySync, Conf
<1>9. \A n \in Existing : /\ conf'[n].model = conf[n].model
                          /\ conf'[n].default = conf[n].default
                          /\ n \notin p.update => conf'[n].managed = conf[n].managed
  BY <1>5, <1>6, <1>8
\* A managed row of the old ones is a default, or it is one the plan was made of.
<1>10. \A n \in Existing : conf'[n].managed => conf[n].default \/ n \in ManagedRows
  BY <1>4, <1>9 DEF ManagedRows
<1>11. ASSUME NEW model \in p.models
       PROVE  OneMaintained(conf', model)
  <2> DEFINE of == {n \in DOMAIN conf' : conf'[n].managed /\ conf'[n].model = model}
  <2>1. CASE model \in p.create
    <3>1. PICK n \in (DOMAIN conf') \ Existing : conf'[n] = NewRow(model, CatalogKind[model], TRUE)
      BY <1>6, <2>1
    <3> DEFINE added == NewRow(model, CatalogKind[model], TRUE)
    <3>2. /\ added.model = model /\ added.purpose = CatalogKind[model]
          /\ added.managed /\ ~added.default
      BY <1>4, <1>7
    <3>3. conf'[n] = added
      BY <3>1
    <3> HIDE DEF added
    <3>4. /\ conf'[n].model = model /\ conf'[n].purpose = CatalogKind[model]
          /\ conf'[n].managed /\ ~conf'[n].default
      BY <3>2, <3>3
    <3>5. ASSUME NEW k \in of \ {n}
          PROVE  k \in Existing /\ conf[k].default
      <4>1. k \in Existing
        BY <1>6, <3>1, <3>4, <3>5
      <4>2. k \notin ManagedRows
        BY <1>4, <1>9, <2>1, <3>5, <4>1
      <4> QED BY <1>10, <3>5, <4>1, <4>2
    <3> QED BY <3>1, <3>4, <3>5 DEF OneMaintained
  <2>2. CASE model \notin p.create
    <3>1. PICK n \in p.update : conf[n].model = model
      BY <1>4, <1>11, <2>2
    <3>2. n \in Existing /\ n \in ManagedRows /\ conf'[n] = Updated(conf[n])
      BY <1>3, <1>4, <1>6
    <3>3. /\ n \in DOMAIN conf' /\ conf'[n].managed /\ conf'[n].model = model
          /\ ~conf'[n].default /\ conf'[n].purpose = CatalogKind[model]
      BY <1>4, <1>5, <1>6, <1>8, <3>1, <3>2 DEF ManagedRows
    <3>4. ASSUME NEW k \in of \ {n}
          PROVE  k \in Existing /\ conf[k].default
      <4>1. k \in Existing
        <5> SUFFICES ASSUME k \notin Existing PROVE FALSE
          OBVIOUS
        <5>1. PICK other \in p.create : conf'[k] = NewRow(other, CatalogKind[other], TRUE)
          BY <1>6, <3>4
        <5>2. other = model
          BY <1>4, <1>7, <3>4, <5>1
        <5> QED BY <2>2, <5>2
      <4>2. k \in ManagedRows => k = n
        BY <1>1, <1>9, <3>1, <3>2, <3>4, <4>1 DEF NoDuplicates
      <4> QED BY <1>10, <3>4, <4>1, <4>2
    <3> QED BY <3>3, <3>4 DEF OneMaintained
  <2> QED BY <2>1, <2>2
<1>12. ASSUME NEW n \in DOMAIN conf', conf'[n].managed, ~conf'[n].default, conf'[n].pool
       PROVE  conf'[n].model \in p.models
  <2>1. CASE n \notin Existing
    <3>1. PICK model \in p.create : conf'[n] = NewRow(model, CatalogKind[model], TRUE)
      BY <1>6, <2>1
    <3>2. conf'[n].model = model /\ model \in p.models
      BY <1>4, <1>7, <3>1
    <3> QED BY <3>2
  <2>2. CASE n \in Existing
    <3>1. n \in ManagedRows
      BY <1>9, <1>10, <1>12, <2>2
    <3>2. n \notin p.disable \/ n \in p.update
      BY <1>5, <1>6, <1>8, <1>12, <2>2
    <3> QED BY <1>4, <1>9, <2>2, <3>1, <3>2
  <2> QED BY <2>1, <2>2
<1>13. ASSUME NEW n \in Existing, conf[n].default
       PROVE  n \in DOMAIN conf' /\ conf'[n] = conf[n]
  BY <1>4, <1>6, <1>13 DEF ManagedRows
<1> QED BY <1>11, <1>12, <1>13
----------------------------------------------------------------------------
(* The theorems. *)

LEMMA CatInitially == CatInit => CatParts /\ PreviewsArePlans
BY CatalogAssumption
   DEF CatInit, CatParts, CatTypeOK, CapabilityIsMeasured, RemovalStands, RemovalUnchecked,
       PreviewsArePlans, Existing

LEMMA CatStep ==
  ASSUME CatParts, PreviewsArePlans, [CatNext]_catVars
  PROVE  CatParts'
<1>1. CASE CatNext
  <2>1. ASSUME NEW model \in Model, NEW purpose \in Purpose, CreateModelConfig(model, purpose)
        PROVE  CatParts'
    BY <2>1, CreateKeepsInv
  <2>2. ASSUME NEW url \in Url, NEW on \in BOOLEAN, UpdateModelProvider(url, on)
        PROVE  CatParts'
    BY <2>2, ProviderKeepsInv
  <2>3. ASSUME NEW purpose \in Purpose, ClearDefaultModel(purpose)
        PROVE  CatParts'
    BY <2>3, DefaultsKeepInv
  <2>4. ASSUME NEW n \in Existing, NEW model \in Model, NEW purpose \in Purpose, NEW on \in BOOLEAN,
               UpdateModelConfig(n, model, purpose, on)
        PROVE  CatParts'
    BY <2>4, UpdateKeepsInv
  <2>5. ASSUME NEW n \in Existing, SetDefaultModel(n) \/ DeleteModelConfig(n)
        PROVE  CatParts'
    BY <2>5, DefaultsKeepInv
  <2>6. ASSUME NEW n \in Existing,
               \/ \E on, pool \in BOOLEAN : UpdatePoolMember(n, on, pool)
               \/ RemovePoolMember(n)
               \/ RestorePoolMember(n)
        PROVE  CatParts'
    BY <2>6, PoolKeepsInv
  <2>7. ASSUME NEW n \in Existing, NEW enable \in BOOLEAN, Verify(n, enable)
        PROVE  CatParts'
    BY <2>7, VerifyKeepsInv
  <2>8. ASSUME NEW n \in DOMAIN checks, NEW passed \in BOOLEAN, CheckEnds(n, passed)
        PROVE  CatParts'
    BY <2>8, CheckEndsKeepsInv
  <2>9. ASSUME UNCHANGED <<conf, created, prov, checks, kept>>
        PROVE  CatParts'
    BY <2>9 DEF CatParts, CatTypeOK, CapabilityIsMeasured, RemovalStands, RemovalUnchecked, Existing
  <2>10. ASSUME NEW models \in SUBSET Model, PreviewPool(models)
         PROVE  CatParts'
    BY <2>9, <2>10 DEF PreviewPool
  <2>11. ASSUME NEW p \in preview, ApplyPool(p)
         PROVE  CatParts'
    <3>1. p.create \in SUBSET Model
      BY DEF PreviewsArePlans, PlannedFrom
    <3> QED BY <2>11, <3>1, ApplyKeepsInv
  <2>12. ASSUME NEW p \in preview, DropPreview(p)
         PROVE  CatParts'
    BY <2>9, <2>12 DEF DropPreview
  <2> QED BY <1>1, <2>1, <2>2, <2>3, <2>4, <2>5, <2>6, <2>7, <2>8, <2>10, <2>11, <2>12 DEF CatNext
<1>2. CASE UNCHANGED catVars
  BY <1>2 DEF catVars, CatParts, CatTypeOK, CapabilityIsMeasured, RemovalStands, RemovalUnchecked,
              Existing
<1> QED BY <1>1, <1>2

\* The inductive invariant of the catalogue of models holds in every state.
THEOREM CatalogInvariant == CatSpec => [](CatInv /\ PreviewsArePlans)
<1>1. CatInit => CatParts /\ PreviewsArePlans
  BY CatInitially
<1>2. CatParts /\ PreviewsArePlans /\ [CatNext]_catVars => (CatParts /\ PreviewsArePlans)'
  BY CatStep, PreviewsStep
<1>3. CatParts /\ PreviewsArePlans => CatInv /\ PreviewsArePlans
  BY InvParts
<1> QED BY <1>1, <1>2, <1>3, PTL DEF CatSpec

\* Whatever overlaps in the administration of models, a stored capability is the
\* one of what the row is configured for, and a row an operator has removed
\* stays out of the pool (runCapabilityCheck, removePoolMembers, applyBailianFreePool).
THEOREM RowsKeepWhatWasDecided == CatSpec => []CatalogStands
<1>1. CatInv => CatalogStands
  BY DEF CatInv
<1> QED BY <1>1, CatalogInvariant, PTL

\* A preview that is applied leaves exactly one managed row beside the defaults
\* for each model of the snapshot, no other managed row in the pool, and every
\* default untouched, after whatever was edited in between; only a managed
\* default can be a second managed row of its model (assertPreview,
\* applyBailianFreePool, managedRows).
THEOREM PreviewIsCarriedOut == CatSpec => AppliedIsPlanned
<1> DEFINE Done(p) ==
      /\ \A model \in p.models : OneMaintained(conf', model)
      /\ \A n \in DOMAIN conf' :
           (conf'[n].managed /\ ~conf'[n].default /\ conf'[n].pool) => conf'[n].model \in p.models
      /\ \A n \in Existing : conf[n].default => n \in DOMAIN conf' /\ conf'[n] = conf[n]
    A == \A p \in preview : (p \notin preview' /\ conf' # conf) => Done(p)
<1>1. CatInv /\ PreviewsArePlans /\ [CatNext]_catVars => [A]_catVars
  <2> SUFFICES ASSUME CatInv, PreviewsArePlans, CatNext,
                      NEW p \in preview, p \notin preview', conf' # conf
               PROVE  Done(p)
    OBVIOUS
  <2>1. ApplyPool(p)
    <3>1. preview \subseteq preview' \/ \E q \in preview : ApplyPool(q) \/ DropPreview(q)
      BY DEF CatNext, CreateModelConfig, UpdateModelProvider, ClearDefaultModel,
             UpdateModelConfig, SetDefaultModel, DeleteModelConfig, UpdatePoolMember, RemovePoolMember,
             RestorePoolMember, Verify, CheckEnds, PreviewPool
    <3>2. PICK q \in preview : ApplyPool(q) \/ DropPreview(q)
      BY <3>1
    <3>3. ApplyPool(q) /\ preview' = preview \ {q}
      BY <3>2 DEF ApplyPool, DropPreview
    <3> QED BY <3>3
  <2>2. CatTypeOK
    BY InvParts DEF CatParts
  <2> QED BY <2>1, <2>2, ApplyDoesThePlan
<1>2. [][A]_catVars => AppliedIsPlanned
  BY DEF AppliedIsPlanned
<1> HIDE DEF A
<1> QED BY <1>1, <1>2, CatalogInvariant, PTL DEF CatSpec

----------------------------------------------------------------------------
(* The routing of calls over the pool. *)

\* A member is asked twice at most, and then one time after the other.
InTurn(sent) == \A a, b \in DOMAIN sent : (sent[a] = sent[b] /\ a < b) => b = a + 1

\* What a call holds while it is under way: rows as it has read them, and of the
\* members it has given up, that it asked them or that their provider refused.
Held(k) ==
  /\ DOMAIN k.row \subseteq Member /\ \A m \in DOMAIN k.row : k.row[m] \in Row
  /\ k.failed \subseteq DOMAIN k.row /\ k.refused \subseteq Provider
  /\ k.sent \in Seq(Member) /\ Len(k.sent) <= MaxRequests /\ InTurn(k.sent)
  /\ k.retried \in BOOLEAN /\ k.at \in 0 .. MaxTime
  /\ \A m \in k.failed : (\E i \in DOMAIN k.sent : k.sent[i] = m) \/ ProviderOf[m] \in k.refused
  /\ \A m \in DOMAIN k.row : ProviderOf[m] \in k.refused => m \in k.failed

Shaped(k) == DOMAIN k = {"st", "row", "default", "failed", "retried", "sent", "refused", "at"}

\* A call that looks for a candidate has given up whoever it asked.
Looking(k) == Held(k) /\ \A i \in DOMAIN k.sent : k.sent[i] \in k.failed

\* One that waits has given up whoever it asked before the one it asks now,
\* which it may be asking for the second time.
Awaits(k) ==
  /\ Held(k) /\ k.sent # <<>> /\ Asked(k) \in (DOMAIN k.row) \ k.failed
  /\ \A i \in DOMAIN k.sent : \/ i = Len(k.sent)
                              \/ k.sent[i] \in k.failed
                              \/ i = Len(k.sent) - 1 /\ k.retried /\ k.sent[i] = Asked(k)

\* One that ended for want of a candidate has asked whom it could.
Tried(k) ==
  /\ DOMAIN k.row \subseteq Member /\ k.failed = {} /\ k.refused \subseteq Provider
  /\ k.sent \in Seq(Member) /\ Len(k.sent) <= MaxRequests /\ InTurn(k.sent)
  /\ k.retried = FALSE /\ k.at \in 0 .. MaxTime
  /\ \A m \in DOMAIN k.row : \/ \E i \in DOMAIN k.sent : k.sent[i] = m
                             \/ ProviderOf[m] \in k.refused
                             \/ k.row[m].until > k.at

CallInv(k) ==
  \/ k.st = "asking" /\ Awaits(k)
  \/ k.st = "exhausted" /\ Tried(k)
  \/ k = Idle
  \/ \E st \in {"answered", "budget", "error", "stopped"} : k = [Idle EXCEPT !.st = st]

\* The calls that may still find a member to have failed: each may do so once,
\* and there are no more failures than calls.
MayFail(m) == {c \in Call : call[c].st = "idle" \/ (call[c].st = "asking" /\ m \notin call[c].failed)}

RowOf == [on : BOOLEAN, fails : Nat, until : 0 .. (MaxTime + MaxCooldown)]

RowsInv ==
  /\ row \in [Member -> RowOf]
  /\ \A m \in Member : row[m].fails + Cardinality(MayFail(m)) <= Cardinality(Call)

RouteInv ==
  /\ RowsInv
  /\ provOn \subseteq Provider
  /\ default \in Member \cup {None} /\ last \in Member \cup {None}
  /\ now \in 0 .. MaxTime /\ edits \in 0 .. MaxEdits
  /\ DOMAIN call = Call /\ \A c \in Call : Shaped(call[c]) /\ CallInv(call[c])

LEMMA CountsOfCalls ==
  ASSUME NEW S \in SUBSET Call
  PROVE  /\ IsFiniteSet(S) /\ Cardinality(S) \in Nat /\ Cardinality(S) <= Cardinality(Call)
         /\ Cardinality(Call) \in Nat
<1>1. IsFiniteSet(Call)
  BY RoutingAssumption
<1>2. Cardinality(Call) \in Nat
  BY <1>1, FS_CardinalityType
<1>3. IsFiniteSet(S) /\ Cardinality(S) <= Cardinality(Call)
  BY <1>1, FS_Subset
<1> QED BY <1>2, <1>3, FS_CardinalityType

\* There are never more failures of a member than there are calls.
LEMMA RowsAreRows == RowsInv => row \in [Member -> Row]
<1> SUFFICES ASSUME RowsInv PROVE row \in [Member -> Row]
  OBVIOUS
<1>1. ASSUME NEW m \in Member PROVE row[m].fails \in 0 .. Cardinality(Call)
  <2>1. MayFail(m) \in SUBSET Call
    BY DEF MayFail
  <2>2. Cardinality(MayFail(m)) \in Nat /\ Cardinality(Call) \in Nat
    BY <2>1, CountsOfCalls
  <2> QED BY <2>2 DEF RowsInv, RowOf
<1>2. ASSUME NEW m \in Member PROVE row[m] \in Row
  <2>1. row[m] \in RowOf
    BY DEF RowsInv, RowOf
  <2> QED BY <1>1, <2>1 DEF Row, RowOf
<1> QED BY <1>2 DEF RowsInv

\* No call has more uses of a member's failures left than before.
LEMMA FewerMayFail ==
  ASSUME RowsInv,
         row' \in [Member -> RowOf],
         \A m \in Member : MayFail(m)' \subseteq MayFail(m) /\ row'[m].fails <= row[m].fails
  PROVE  RowsInv'
<1>1. ASSUME NEW m \in Member PROVE row'[m].fails + Cardinality(MayFail(m)') <= Cardinality(Call)
  <2>1. MayFail(m) \in SUBSET Call
    BY DEF MayFail
  <2>2. IsFiniteSet(MayFail(m)) /\ Cardinality(MayFail(m)) \in Nat /\ Cardinality(Call) \in Nat
    BY <2>1, CountsOfCalls
  <2>3. Cardinality(MayFail(m)') <= Cardinality(MayFail(m)) /\ Cardinality(MayFail(m)') \in Nat
    BY <2>2, FS_Subset, FS_CardinalityType
  <2>4. /\ row[m].fails \in Nat /\ row[m].fails + Cardinality(MayFail(m)) <= Cardinality(Call)
        /\ row'[m].fails \in Nat /\ row'[m].fails <= row[m].fails
    BY DEF RowsInv, RowOf
  <2> QED BY <2>2, <2>3, <2>4
<1> QED BY <1>1 DEF RowsInv

\* One call finds one member to have failed, and may not do so again.
LEMMA OneMoreFailure ==
  ASSUME RowsInv, NEW c \in Call, NEW m0 \in Member,
         row' \in [Member -> RowOf],
         \A m \in Member : MayFail(m)' \subseteq MayFail(m),
         \A m \in Member \ {m0} : row'[m].fails = row[m].fails,
         row'[m0].fails = row[m0].fails + 1, c \in MayFail(m0), c \notin MayFail(m0)'
  PROVE  RowsInv'
<1>1. ASSUME NEW m \in Member PROVE row'[m].fails + Cardinality(MayFail(m)') <= Cardinality(Call)
  <2>1. MayFail(m) \in SUBSET Call
    BY DEF MayFail
  <2>2. IsFiniteSet(MayFail(m)) /\ Cardinality(MayFail(m)) \in Nat /\ Cardinality(Call) \in Nat
    BY <2>1, CountsOfCalls
  <2>3. Cardinality(MayFail(m)') <= Cardinality(MayFail(m)) /\ Cardinality(MayFail(m)') \in Nat
    BY <2>2, FS_Subset, FS_CardinalityType
  <2>4. /\ row[m].fails \in Nat /\ row[m].fails + Cardinality(MayFail(m)) <= Cardinality(Call)
    BY DEF RowsInv, RowOf
  <2>5. CASE m # m0
    BY <2>2, <2>3, <2>4, <2>5
  <2>6. CASE m = m0
    <3>1. MayFail(m)' \subseteq MayFail(m) \ {c}
      BY <2>6
    <3>2. IsFiniteSet(MayFail(m) \ {c}) /\ Cardinality(MayFail(m) \ {c}) = Cardinality(MayFail(m)) - 1
      BY <2>2, <2>6, FS_RemoveElement
    <3>3. Cardinality(MayFail(m)') <= Cardinality(MayFail(m)) - 1
      BY <3>1, <3>2, FS_Subset
    <3> QED BY <2>2, <2>3, <2>4, <2>6, <3>3
  <2> QED BY <2>5, <2>6
<1> QED BY <1>1 DEF RowsInv

LEMMA MayFailShrinks ==
  ASSUME NEW c \in Call, \A d \in Call \ {c} : call'[d] = call[d],
         call[c].st \in {"idle", "asking"}, call'[c].st # "idle",
         (call[c].st = "asking" /\ call'[c].st = "asking") => call[c].failed \subseteq call'[c].failed
  PROVE  \A m \in Member : MayFail(m)' \subseteq MayFail(m)
BY DEF MayFail

LEMMA PowersAreNat == ASSUME NEW n \in Nat PROVE 2 ^ n \in Nat
<1>1. IsFiniteSet(1 .. n) /\ Cardinality(1 .. n) = n
  BY FS_Interval
<1>2. IsFiniteSet(SUBSET (1 .. n)) /\ Cardinality(SUBSET (1 .. n)) = 2 ^ n
  BY <1>1, FS_SUBSET
<1> QED BY <1>2, FS_CardinalityType

(* One call. *)

\* A call that is over holds nothing.
LEMMA EndedCall ==
  ASSUME NEW st \in {"answered", "budget", "error", "stopped"}
  PROVE  CallInv([Idle EXCEPT !.st = st])
BY DEF CallInv

LEMMA SentOne ==
  ASSUME NEW s \in Seq(Member), NEW m \in Member
  PROVE  /\ Append(s, m) \in Seq(Member) /\ Len(Append(s, m)) = Len(s) + 1 /\ Len(s) \in Nat
         /\ DOMAIN s = 1 .. Len(s) /\ DOMAIN Append(s, m) = 1 .. (Len(s) + 1)
         /\ Append(s, m)[Len(s) + 1] = m /\ \A i \in 1 .. Len(s) : Append(s, m)[i] = s[i]
OBVIOUS

LEMMA NextIsEligible ==
  ASSUME NEW k, NEW m \in NextCandidates(k) PROVE m \in Eligible(k)
BY DEF NextCandidates, FirstOf

\* A candidate that was not given up is asked the first time.
LEMMA AskedFirst ==
  ASSUME NEW k, Looking(k), ~Spent(k), NEW m \in Eligible(k),
         NEW new, new = [k EXCEPT !.st = "asking", !.retried = FALSE, !.sent = Append(@, m)],
         DOMAIN k = {"st", "row", "default", "failed", "retried", "sent", "refused", "at"}
  PROVE  new.st = "asking" /\ new.failed = k.failed /\ Awaits(new)
<1>1. /\ m \in (DOMAIN k.row) \ k.failed /\ m \in Member /\ k.sent \in Seq(Member)
  BY DEF Looking, Held, Eligible
<1>2. /\ new.st = "asking" /\ new.retried = FALSE /\ new.sent = Append(k.sent, m)
      /\ new.row = k.row /\ new.failed = k.failed /\ new.refused = k.refused /\ new.at = k.at
  OBVIOUS
<1> DEFINE n == Len(k.sent) + 1
<1>3. /\ new.sent \in Seq(Member) /\ Len(new.sent) = n /\ n \in Nat \ {0}
      /\ DOMAIN k.sent = 1 .. (n - 1) /\ DOMAIN new.sent = 1 .. n
      /\ new.sent[n] = m /\ \A i \in 1 .. (n - 1) : new.sent[i] = k.sent[i]
  BY <1>1, <1>2, SentOne
<1>4. n <= MaxRequests
  BY RoutingAssumption DEF Spent
<1> HIDE DEF n
<1>5. \A i \in 1 .. (n - 1) : new.sent[i] \in k.failed /\ new.sent[i] # m
  BY <1>1, <1>3 DEF Looking
<1>6. InTurn(new.sent)
  BY <1>3, <1>5 DEF InTurn, Looking, Held
<1>7. Asked(new) = m /\ new.sent # <<>>
  BY <1>3 DEF Asked
<1>8. Held(new)
  BY <1>2, <1>3, <1>4, <1>6 DEF Held, Looking
<1> QED BY <1>1, <1>2, <1>3, <1>5, <1>7, <1>8 DEF Awaits

\* The same member is asked once more.
LEMMA AskedAgain ==
  ASSUME NEW k, Awaits(k), ~k.retried, ~Spent(k),
         NEW new, new = [k EXCEPT !.st = "asking", !.retried = TRUE, !.sent = Append(@, Asked(k))],
         DOMAIN k = {"st", "row", "default", "failed", "retried", "sent", "refused", "at"}
  PROVE  new.st = "asking" /\ new.failed = k.failed /\ Awaits(new)
<1> DEFINE m == Asked(k)
           n == Len(k.sent) + 1
<1>1. m \in (DOMAIN k.row) \ k.failed /\ m \in Member /\ k.sent \in Seq(Member)
  BY DEF Awaits, Held
<1>2. /\ new.st = "asking" /\ new.retried = TRUE /\ new.sent = Append(k.sent, m)
      /\ new.row = k.row /\ new.failed = k.failed /\ new.refused = k.refused /\ new.at = k.at
  OBVIOUS
<1>3. /\ new.sent \in Seq(Member) /\ Len(new.sent) = n /\ n \in Nat \ {0}
      /\ DOMAIN k.sent = 1 .. (n - 1) /\ DOMAIN new.sent = 1 .. n
      /\ new.sent[n] = m /\ \A i \in 1 .. (n - 1) : new.sent[i] = k.sent[i]
  BY <1>1, <1>2, SentOne
<1>4. n <= MaxRequests /\ n > 1 /\ k.sent[n - 1] = m
  BY <1>1, RoutingAssumption DEF Spent, Awaits, Asked
<1>5. \A i \in 1 .. (n - 1) : i = n - 1 \/ k.sent[i] \in k.failed
  BY <1>3 DEF Awaits
<1> HIDE DEF m, n
<1>6. \A i \in 1 .. (n - 1) : i = n - 1 \/ new.sent[i] # m
  BY <1>1, <1>3, <1>5
<1>7. InTurn(new.sent)
  <2> SUFFICES ASSUME NEW a \in 1 .. n, NEW b \in 1 .. n, new.sent[a] = new.sent[b], a < b PROVE b = a + 1
    BY <1>3 DEF InTurn
  <2>1. CASE b = n
    BY <2>1, <1>3, <1>6
  <2>2. CASE b # n
    BY <2>2, <1>3 DEF Awaits, Held, InTurn
  <2> QED BY <2>1, <2>2
<1>8. Asked(new) = m /\ new.sent # <<>>
  BY <1>3 DEF Asked
<1>9. \A i \in DOMAIN new.sent : \/ i = n \/ new.sent[i] \in k.failed
                                 \/ i = n - 1 /\ new.sent[i] = m
  BY <1>3, <1>4, <1>5
<1>10. Held(new)
  BY <1>2, <1>3, <1>4, <1>7 DEF Held, Awaits
<1> QED BY <1>1, <1>2, <1>3, <1>8, <1>9, <1>10 DEF Awaits

\* No candidate is left.
LEMMA ExhaustedCall ==
  ASSUME NEW k, Looking(k), Eligible(k) = {}, now \in 0 .. MaxTime,
         NEW new, new = [k EXCEPT !.st = "exhausted", !.failed = {}, !.retried = FALSE, !.at = now],
         DOMAIN k = {"st", "row", "default", "failed", "retried", "sent", "refused", "at"}
  PROVE  new.st = "exhausted" /\ Tried(new)
<1>1. /\ new.st = "exhausted" /\ new.retried = FALSE /\ new.sent = k.sent /\ new.at = now
      /\ new.row = k.row /\ new.failed = {} /\ new.refused = k.refused
  OBVIOUS
<1>2. ASSUME NEW m \in DOMAIN k.row, m \notin k.failed PROVE k.row[m].until > now
  <2>1. ~(k.row[m].until <= now)
    BY <1>2 DEF Eligible
  <2>2. k.row[m].until \in Int /\ now \in Int
    BY DEF Looking, Held, Row
  <2> QED BY <2>1, <2>2
<1> QED BY <1>1, <1>2 DEF Looking, Held, Tried

\* What a call does next, and that it gives up nobody it gets back.
LEMMA ProceedCall ==
  ASSUME NEW c \in Call, DOMAIN call = Call, NEW k, Looking(k), Shaped(k), Proceed(c, k),
         now \in 0 .. MaxTime, last \in Member \cup {None}
  PROVE  /\ DOMAIN call' = Call /\ last' \in Member \cup {None}
         /\ \A d \in Call \ {c} : call'[d] = call[d]
         /\ CallInv(call'[c]) /\ Shaped(call'[c]) /\ call'[c].st # "idle"
         /\ call'[c].st = "asking" => call'[c].failed = k.failed
<1>1. ASSUME NEW st \in {"budget", "answered", "error", "stopped"}, Finish(c, st)
      PROVE  /\ DOMAIN call' = Call /\ \A d \in Call \ {c} : call'[d] = call[d]
             /\ CallInv(call'[c]) /\ Shaped(call'[c]) /\ call'[c].st = st
  <2>1. call'[c] = [Idle EXCEPT !.st = st] /\ DOMAIN call' = Call /\ \A d \in Call \ {c} : call'[d] = call[d]
    BY <1>1 DEF Finish
  <2> QED BY <2>1, EndedCall DEF Idle, Shaped
<1>2. CASE Spent(k)
  <2>1. Finish(c, "budget") /\ UNCHANGED last
    BY <1>2 DEF Proceed
  <2> QED BY <1>1, <2>1
<1>3. CASE ~Spent(k) /\ Eligible(k) = {}
  <2> DEFINE new == [k EXCEPT !.st = "exhausted", !.failed = {}, !.retried = FALSE, !.at = now]
  <2>1. call' = [call EXCEPT ![c] = new] /\ UNCHANGED last
    BY <1>3 DEF Proceed, Exhausted
  <2>2. Shaped(new) /\ DOMAIN k = {"st", "row", "default", "failed", "retried", "sent", "refused", "at"}
    BY DEF Shaped
  <2> HIDE DEF new
  <2>3. new.st = "exhausted" /\ Tried(new)
    BY <1>3, <2>2, ExhaustedCall DEF new
  <2> QED BY <2>1, <2>2, <2>3 DEF CallInv
<1>4. CASE ~Spent(k) /\ Eligible(k) # {}
  <2>1. PICK m \in NextCandidates(k) : \/ Send(c, k, m, FALSE) /\ last' = m
                                       \/ Finish(c, "budget") /\ last' \in {m, last}
    BY <1>4 DEF Proceed
  <2>2. m \in Eligible(k) /\ m \in Member
    BY NextIsEligible DEF Eligible, Looking, Held
  <2>3. CASE Finish(c, "budget") /\ last' \in {m, last}
    BY <1>1, <2>2, <2>3
  <2>4. CASE Send(c, k, m, FALSE) /\ last' = m
    <3> DEFINE new == [k EXCEPT !.st = "asking", !.retried = FALSE, !.sent = Append(@, m)]
    <3>1. call' = [call EXCEPT ![c] = new] /\ last' = m
      BY <2>4 DEF Send
    <3>2. Shaped(new) /\ DOMAIN k = {"st", "row", "default", "failed", "retried", "sent", "refused", "at"}
      BY DEF Shaped
    <3> HIDE DEF new
    <3>3. new.st = "asking" /\ new.failed = k.failed /\ Awaits(new)
      BY <1>4, <2>2, <3>2, AskedFirst DEF new
    <3> QED BY <2>2, <3>1, <3>2, <3>3 DEF CallInv
  <2> QED BY <2>1, <2>3, <2>4
<1> QED BY <1>2, <1>3, <1>4

(* The actions. *)

LEMMA GivenUpLooks ==
  ASSUME NEW k, Awaits(k), Shaped(k)
  PROVE  /\ Looking(GivenUp(k)) /\ Shaped(GivenUp(k))
         /\ GivenUp(k).failed = k.failed \cup {Asked(k)} /\ Asked(k) \in DOMAIN k.row
<1> DEFINE new == GivenUp(k)
<1>1. /\ new.failed = k.failed \cup {Asked(k)} /\ new.row = k.row /\ new.refused = k.refused
      /\ new.sent = k.sent /\ new.retried = k.retried /\ new.at = k.at /\ Shaped(new)
  BY DEF GivenUp, Shaped
<1> HIDE DEF new
<1>2. /\ Len(k.sent) \in DOMAIN k.sent /\ k.sent[Len(k.sent)] = Asked(k) /\ Asked(k) \in DOMAIN k.row
  BY DEF Awaits, Held, Asked
<1>3. Held(new)
  BY <1>1, <1>2 DEF Awaits, Held
<1>4. \A i \in DOMAIN k.sent : k.sent[i] \in new.failed
  BY <1>1, <1>2 DEF Awaits
<1> QED BY <1>1, <1>2, <1>3, <1>4 DEF Looking, new

LEMMA WithoutProviderLooks ==
  ASSUME NEW k, Awaits(k), Shaped(k), NEW p \in Provider, p = ProviderOf[Asked(k)]
  PROVE  /\ Looking(WithoutProvider(k, p)) /\ Shaped(WithoutProvider(k, p))
         /\ k.failed \subseteq WithoutProvider(k, p).failed
<1> DEFINE new == WithoutProvider(k, p)
           gone == {m \in DOMAIN k.row : ProviderOf[m] = p}
<1>1. /\ new.failed = k.failed \cup {Asked(k)} \cup gone /\ new.row = k.row
      /\ new.refused = k.refused \cup {p}
      /\ new.sent = k.sent /\ new.retried = k.retried /\ new.at = k.at /\ Shaped(new)
  BY DEF WithoutProvider, Shaped
<1> HIDE DEF new
<1>2. /\ Len(k.sent) \in DOMAIN k.sent /\ k.sent[Len(k.sent)] = Asked(k) /\ Asked(k) \in DOMAIN k.row
  BY DEF Awaits, Held, Asked
<1>3. Held(new)
  BY <1>1, <1>2 DEF Awaits, Held
<1>4. \A i \in DOMAIN k.sent : k.sent[i] \in new.failed
  BY <1>1, <1>2 DEF Awaits
<1> QED BY <1>1, <1>3, <1>4 DEF Looking, new

\* A call goes on, or ends; what it has learnt of the rows stands to it.
LEMMA CallMoved ==
  ASSUME RouteInv, NEW c \in Call, call[c].st \in {"idle", "asking"},
         DOMAIN call' = Call, \A d \in Call \ {c} : call'[d] = call[d],
         CallInv(call'[c]), Shaped(call'[c]), call'[c].st # "idle",
         (call[c].st = "asking" /\ call'[c].st = "asking") => call[c].failed \subseteq call'[c].failed,
         RowsInv', provOn' \subseteq Provider, last' \in Member \cup {None}, UNCHANGED <<default, now, edits>>
  PROVE  RouteInv'
<1>1. ASSUME NEW d \in Call PROVE Shaped(call'[d]) /\ CallInv(call'[d])
  <2>1. CASE d = c
    BY <2>1
  <2>2. CASE d # c
    BY <2>2 DEF RouteInv
  <2> QED BY <2>1, <2>2
<1>2. ASSUME NEW d \in Call PROVE CallInv(call[d])'
  BY <1>1 DEF CallInv, Awaits, Tried, Held, Row, Asked
<1>3. /\ default' \in Member \cup {None} /\ now' \in 0 .. MaxTime /\ edits' \in 0 .. MaxEdits
  BY DEF RouteInv
<1> QED BY <1>1, <1>2, <1>3 DEF RouteInv

\* A call that waits, that is, has asked a member it has not given up.
LEMMA WaitingCall ==
  ASSUME RouteInv, NEW c \in Call, Waiting(c)
  PROVE  /\ Awaits(call[c]) /\ Shaped(call[c]) /\ Asked(call[c]) \in Member
         /\ Asked(call[c]) \notin call[c].failed
         /\ call[c].row[Asked(call[c])] \in Row
<1>1. CallInv(call[c]) /\ Shaped(call[c]) /\ call[c].st = "asking"
  BY DEF RouteInv, Waiting
<1>2. Awaits(call[c])
  BY <1>1 DEF CallInv, Idle
<1> QED BY <1>1, <1>2 DEF Awaits, Held

LEMMA FinishedCall ==
  ASSUME RouteInv, NEW c \in Call, NEW st \in {"answered", "budget", "error", "stopped"}, Finish(c, st)
  PROVE  /\ DOMAIN call' = Call /\ \A d \in Call \ {c} : call'[d] = call[d]
         /\ CallInv(call'[c]) /\ Shaped(call'[c]) /\ call'[c].st = st
<1>1. call'[c] = [Idle EXCEPT !.st = st] /\ DOMAIN call' = Call /\ \A d \in Call \ {c} : call'[d] = call[d]
  BY DEF Finish, RouteInv
<1> QED BY <1>1, EndedCall DEF Idle, Shaped

\* Rows that are changed in what is not counted, or forgotten.
LEMMA EndStep ==
  ASSUME RouteInv, NEW c \in Call, Answered(c) \/ Rejected(c) \/ Abort(c)
  PROVE  RouteInv'
<1>0. Waiting(c) /\ UNCHANGED <<provOn, default, last, now, edits>>
  BY DEF Answered, Rejected, Abort
<1>1. PICK st \in {"answered", "budget", "error", "stopped"} : Finish(c, st)
  BY DEF Answered, Rejected, Abort
<1>2. /\ DOMAIN call' = Call /\ \A d \in Call \ {c} : call'[d] = call[d]
      /\ CallInv(call'[c]) /\ Shaped(call'[c]) /\ call'[c].st = st
  BY <1>1, FinishedCall
<1>3. \A m \in Member : MayFail(m)' \subseteq MayFail(m)
  BY <1>0, <1>2, MayFailShrinks DEF Waiting
<1>4. /\ row' \in [Member -> RowOf]
      /\ \A m \in Member : row'[m].fails <= row[m].fails
  <2>1. row \in [Member -> RowOf]
    BY DEF RouteInv, RowsInv, RowOf
  <2>2. CASE UNCHANGED row
    BY <2>1, <2>2 DEF RowOf
  <2>3. CASE Answered(c)
    <3> DEFINE m0 == Asked(call[c])
    <3>1. row' = [row EXCEPT ![m0].fails = 0, ![m0].until = 0] /\ m0 \in Member
      BY <1>0, <2>3, WaitingCall DEF Answered
    <3>2. 0 \in 0 .. (MaxTime + MaxCooldown)
      BY RoutingAssumption
    <3> HIDE DEF m0
    <3>3. row'[m0] = [row[m0] EXCEPT !.fails = 0, !.until = 0] /\ \A m \in Member \ {m0} : row'[m] = row[m]
      BY <2>1, <3>1
    <3>4. \A m \in Member : row[m] \in RowOf /\ row[m].fails \in Nat
      BY <2>1 DEF RowOf
    <3>5. row'[m0] \in RowOf /\ row'[m0].fails = 0
      <4>1. PICK old, new : old = row[m0] /\ new = row'[m0]
        OBVIOUS
      <4>2. old \in RowOf /\ 0 \in Nat /\ new = [old EXCEPT !.fails = 0, !.until = 0]
        BY <4>1, <3>1, <3>3, <3>4
      <4>3. new \in RowOf /\ new.fails = 0
        BY <4>2, <3>2 DEF RowOf
      <4> QED BY <4>1, <4>3
    <3>6. \A m \in Member : row[m].fails \in Nat /\ row'[m].fails <= row[m].fails
      <4>1. \A m \in Member : row'[m].fails = 0 \/ row'[m].fails = row[m].fails
        BY <3>3, <3>5
      <4> QED BY <3>4, <4>1
    <3>7. DOMAIN row' = Member /\ row' = [m \in Member |-> row'[m]]
      BY <2>1, <3>1
    <3>8. \A m \in Member : row'[m] \in RowOf
      BY <2>1, <3>3, <3>5
    <3> QED BY <3>6, <3>7, <3>8
  <2> QED BY <2>2, <2>3 DEF Rejected, Abort
<1>5. RowsInv'
  BY <1>3, <1>4, FewerMayFail DEF RouteInv
<1> QED BY <1>0, <1>2, <1>5, CallMoved DEF RouteInv, Waiting

\* A call that goes on with others, where the failures counted stay as they are.
LEMMA GoOnStep ==
  ASSUME RouteInv, NEW c \in Call, call[c].st \in {"idle", "asking"}, NEW k, Looking(k), Shaped(k),
         Proceed(c, k), call[c].st = "asking" => call[c].failed \subseteq k.failed,
         row' \in [Member -> RowOf],
         \A m \in Member : row'[m].fails = row[m].fails,
         provOn' \subseteq Provider, UNCHANGED <<default, now, edits>>
  PROVE  RouteInv'
<1>0. /\ DOMAIN call = Call /\ now \in 0 .. MaxTime /\ last \in Member \cup {None} /\ RowsInv
      /\ \A m \in Member : row[m].fails \in Nat
  BY DEF RouteInv, RowsInv, RowOf
<1>1. /\ DOMAIN call' = Call /\ last' \in Member \cup {None}
      /\ \A d \in Call \ {c} : call'[d] = call[d]
      /\ CallInv(call'[c]) /\ Shaped(call'[c]) /\ call'[c].st # "idle"
      /\ call'[c].st = "asking" => call'[c].failed = k.failed
  BY <1>0, ProceedCall
<1>2. \A m \in Member : MayFail(m)' \subseteq MayFail(m)
  BY <1>1, MayFailShrinks
<1>3. \A m \in Member : row'[m].fails <= row[m].fails
  BY <1>0
<1>4. RowsInv'
  BY <1>0, <1>2, <1>3, FewerMayFail
<1> QED BY <1>1, <1>4, CallMoved

LEMMA BeginStep == ASSUME RouteInv, NEW c \in Call, Begin(c) PROVE RouteInv'
<1> DEFINE k == [Idle EXCEPT !.row = [m \in Resolved |-> row[m]], !.default = default]
<1>1. call[c].st = "idle" /\ Proceed(c, k) /\ UNCHANGED <<row, provOn, default, now, edits>>
  BY DEF Begin
<1>2. RowsInv /\ row \in [Member -> Row]
  BY RowsAreRows DEF RouteInv
<1>3. /\ k.row = [m \in Resolved |-> row[m]] /\ k.failed = {} /\ k.refused = {} /\ k.sent = <<>>
      /\ k.retried = FALSE /\ k.at = 0 /\ Shaped(k)
  BY DEF Idle, Shaped
<1> HIDE DEF k
<1>4. DOMAIN k.row \subseteq Member /\ \A m \in DOMAIN k.row : k.row[m] \in Row
  BY <1>2, <1>3 DEF Resolved
<1>5. k.sent \in Seq(Member) /\ Len(k.sent) = 0 /\ DOMAIN k.sent = {}
  BY <1>3
<1>6. Looking(k)
  <2>1. 0 <= MaxRequests /\ 0 \in 0 .. MaxTime
    BY RoutingAssumption
  <2>2. InTurn(k.sent)
    BY <1>5 DEF InTurn
  <2>3. Held(k)
    BY <1>3, <1>4, <1>5, <2>1, <2>2 DEF Held
  <2> QED BY <1>5, <2>3 DEF Looking
<1> QED BY <1>1, <1>2, <1>3, <1>6, GoOnStep DEF RouteInv, RowsInv, RowOf

\* Invalid output, or an error, of a member that is asked again.
LEMMA RetryStep == ASSUME RouteInv, NEW c \in Call, Retry(c) PROVE RouteInv'
<1>1. /\ Waiting(c) /\ ~call[c].retried /\ Again(c, call[c]) /\ UNCHANGED <<row, provOn, default, last, now, edits>>
  BY DEF Retry, Again
<1>2. Awaits(call[c]) /\ Shaped(call[c])
  BY <1>1, WaitingCall
<1>3. /\ DOMAIN call' = Call /\ \A d \in Call \ {c} : call'[d] = call[d]
      /\ CallInv(call'[c]) /\ Shaped(call'[c]) /\ call'[c].st # "idle"
      /\ call'[c].st = "asking" => call'[c].failed = call[c].failed
  <2>1. CASE Finish(c, "budget")
    BY <2>1, FinishedCall
  <2>2. CASE ~Spent(call[c]) /\ Send(c, call[c], Asked(call[c]), TRUE)
    <3> DEFINE new == [call[c] EXCEPT !.st = "asking", !.retried = TRUE, !.sent = Append(@, Asked(call[c]))]
    <3>1. call' = [call EXCEPT ![c] = new]
      BY <2>2 DEF Send
    <3>2. Shaped(new) /\ DOMAIN call[c] = {"st", "row", "default", "failed", "retried", "sent", "refused", "at"}
      BY <1>2 DEF Shaped
    <3> HIDE DEF new
    <3>3. new.st = "asking" /\ new.failed = call[c].failed /\ Awaits(new)
      BY <1>1, <1>2, <2>2, <3>2, AskedAgain DEF new
    <3> QED BY <3>1, <3>2, <3>3 DEF CallInv, RouteInv
  <2> QED BY <1>1, <2>1, <2>2 DEF Again
<1>4. \A m \in Member : MayFail(m)' \subseteq MayFail(m)
  BY <1>1, <1>3, MayFailShrinks DEF Waiting
<1>5. /\ row' \in [Member -> RowOf]
      /\ \A m \in Member : row'[m].fails <= row[m].fails
  <2>1. row' = row /\ row \in [Member -> RowOf]
    BY <1>1 DEF RouteInv, RowsInv, RowOf
  <2>2. \A m \in Member : row[m].fails \in Nat
    BY <2>1 DEF RowOf
  <2> QED BY <2>1, <2>2
<1>6. RowsInv'
  BY <1>4, <1>5, FewerMayFail DEF RouteInv
<1> QED BY <1>1, <1>3, <1>6, CallMoved DEF RouteInv, Waiting

\* The member cools down: the call may not find it to have failed again.
LEMMA CoolDownStep == ASSUME RouteInv, NEW c \in Call, CoolDown(c) PROVE RouteInv'
<1>0. PICK k0, m0, k : k0 = call[c] /\ m0 = Asked(k0) /\ k = GivenUp(k0)
  OBVIOUS
<1>1. Waiting(c) /\ row' = Cooled(k0) /\ Proceed(c, k) /\ UNCHANGED <<provOn, default, now, edits>>
  BY <1>0 DEF CoolDown
<1>2. Awaits(k0) /\ Shaped(k0) /\ m0 \in Member /\ m0 \notin k0.failed /\ k0.row[m0] \in Row
  BY <1>0, <1>1, WaitingCall
<1>3. Looking(k) /\ Shaped(k) /\ k.failed = k0.failed \cup {m0}
  BY <1>0, <1>2, GivenUpLooks
<1>4. /\ DOMAIN call = Call /\ now \in 0 .. MaxTime /\ last \in Member \cup {None} /\ RowsInv
      /\ row \in [Member -> RowOf]
  BY DEF RouteInv, RowsInv, RowOf
<1>5. PICK until \in 0 .. (MaxTime + MaxCooldown) :
        row' = [row EXCEPT ![m0].fails = @ + 1, ![m0].until = until]
  <2> DEFINE power == 2 ^ k0.row[m0].fails
             length == IF power < MaxCooldown THEN power ELSE MaxCooldown
  <2>1. power \in Nat
    BY <1>2, PowersAreNat, CountsOfCalls DEF Row
  <2>2. row' = [row EXCEPT ![m0].fails = @ + 1, ![m0].until = now + length]
    BY <1>0, <1>1 DEF Cooled
  <2> HIDE DEF power
  <2>3. length \in Nat /\ length <= MaxCooldown /\ now + length \in 0 .. (MaxTime + MaxCooldown)
    BY <2>1, <1>4, RoutingAssumption
  <2> QED BY <2>2, <2>3
<1>6. /\ row' \in [Member -> RowOf]
      /\ \A m \in Member \ {m0} : row'[m].fails = row[m].fails
      /\ row'[m0].fails = row[m0].fails + 1
  <2>1. /\ row'[m0] = [row[m0] EXCEPT !.fails = @ + 1, !.until = until]
        /\ \A m \in Member \ {m0} : row'[m] = row[m]
        /\ DOMAIN row' = Member /\ row' = [m \in Member |-> row'[m]]
    BY <1>2, <1>4, <1>5
  <2>2. row[m0] \in RowOf
    BY <1>2, <1>4
  <2>3. /\ row'[m0] \in RowOf
        /\ row'[m0].fails = row[m0].fails + 1
    <3> DEFINE f == row[m0].fails + 1
    <3>1. PICK old, new : old = row[m0] /\ new = row'[m0]
      OBVIOUS
    <3>2. f \in Nat /\ old \in RowOf /\ new = [old EXCEPT !.fails = f, !.until = until]
      BY <2>1, <2>2, <3>1 DEF RowOf
    <3> HIDE DEF f
    <3>3. new \in RowOf /\ new.fails = f
      BY <3>2, <1>5 DEF RowOf
    <3> QED BY <3>1, <3>3 DEF f
  <2>4. \A m \in Member : row'[m] \in RowOf
    BY <1>4, <2>1, <2>3
  <2> QED BY <2>1, <2>3, <2>4
<1>7. /\ DOMAIN call' = Call /\ last' \in Member \cup {None}
      /\ \A d \in Call \ {c} : call'[d] = call[d]
      /\ CallInv(call'[c]) /\ Shaped(call'[c]) /\ call'[c].st # "idle"
      /\ call'[c].st = "asking" => call'[c].failed = k.failed
  BY <1>1, <1>3, <1>4, ProceedCall
<1>8. call[c].st = "asking" /\ (call'[c].st = "asking" => call[c].failed \subseteq call'[c].failed)
  BY <1>0, <1>1, <1>3, <1>7 DEF Waiting
<1>9. \A m \in Member : MayFail(m)' \subseteq MayFail(m)
  BY <1>7, <1>8, MayFailShrinks
<1>10. c \in MayFail(m0) /\ c \notin MayFail(m0)'
  BY <1>0, <1>2, <1>3, <1>7, <1>8 DEF MayFail
<1>11. RowsInv'
  BY <1>2, <1>4, <1>6, <1>9, <1>10, OneMoreFailure
<1> QED BY <1>1, <1>7, <1>8, <1>11, CallMoved DEF RouteInv

\* The quota of the member is exhausted, or its row or its provider disabled.
LEMMA GiveUpStep ==
  ASSUME RouteInv, NEW c \in Call, OutOfQuota(c) \/ DisableMember(c) \/ DisableProvider(c)
  PROVE  RouteInv'
<1> DEFINE k0 == call[c]
           m0 == Asked(k0)
<1>1. Waiting(c) /\ UNCHANGED <<default, now, edits>>
  BY DEF OutOfQuota, DisableMember, DisableProvider
<1>2. Awaits(k0) /\ Shaped(k0) /\ m0 \in Member /\ k0.st = "asking"
  BY <1>1, WaitingCall DEF Waiting
<1>3. row \in [Member -> RowOf] /\ provOn \subseteq Provider
  BY DEF RouteInv, RowsInv, RowOf
<1>4. PICK k : Looking(k) /\ Shaped(k) /\ Proceed(c, k) /\ k0.failed \subseteq k.failed
  <2>1. Looking(GivenUp(k0)) /\ Shaped(GivenUp(k0)) /\ k0.failed \subseteq GivenUp(k0).failed
    BY <1>2, GivenUpLooks
  <2>2. CASE OutOfQuota(c) \/ DisableMember(c)
    BY <2>1, <2>2 DEF OutOfQuota, DisableMember
  <2>3. CASE DisableProvider(c)
    <3> DEFINE p == ProviderOf[m0]
    <3>1. p \in Provider /\ Proceed(c, WithoutProvider(k0, p))
      BY <1>2, <2>3, RoutingAssumption DEF DisableProvider
    <3>2. /\ Looking(WithoutProvider(k0, p)) /\ Shaped(WithoutProvider(k0, p))
          /\ k0.failed \subseteq WithoutProvider(k0, p).failed
      BY <1>2, <3>1, WithoutProviderLooks
    <3> QED BY <3>1, <3>2
  <2> QED BY <2>2, <2>3
<1>5. /\ row' \in [Member -> RowOf]
      /\ \A m \in Member : row'[m].fails = row[m].fails
  <2>1. CASE UNCHANGED row
    BY <1>3, <2>1
  <2>2. CASE row' = [row EXCEPT ![m0].on = FALSE]
    BY <1>2, <1>3, <2>2 DEF RowOf
  <2> QED BY <2>1, <2>2 DEF OutOfQuota, DisableMember, DisableProvider
<1>6. provOn' \subseteq Provider
  BY <1>3 DEF OutOfQuota, DisableMember, DisableProvider
<1> QED BY <1>1, <1>2, <1>4, <1>5, <1>6, GoOnStep

\* An operator's edit, or time that goes by, leaves the calls alone.
LEMMA EditStep ==
  ASSUME RouteInv, Edit \/ Tick \/ UNCHANGED routeVars
  PROVE  RouteInv'
<1>1. call' = call /\ last' = last
  BY DEF Edit, Tick, routeVars
<1>2. row \in [Member -> RowOf] /\ RowsInv
  BY DEF RouteInv, RowsInv, RowOf
<1>3. /\ row' \in [Member -> RowOf]
      /\ \A m \in Member : row'[m].fails = row[m].fails /\ row[m].fails \in Nat
  <2>1. CASE UNCHANGED row
    BY <1>2, <2>1 DEF RowOf
  <2>2. ASSUME NEW m \in Member, row' = [row EXCEPT ![m].on = ~@]
        PROVE  /\ row' \in [Member -> RowOf]
               /\ \A n \in Member : row'[n].fails = row[n].fails /\ row[n].fails \in Nat
    BY <1>2, <2>2 DEF RowOf
  <2> QED BY <2>1, <2>2 DEF Edit, Tick, routeVars
<1>4. RowsInv'
  BY <1>1, <1>2, <1>3, FewerMayFail DEF MayFail
<1>5. /\ provOn' \subseteq Provider /\ default' \in Member \cup {None}
      /\ now' \in 0 .. MaxTime /\ edits' \in 0 .. MaxEdits
  BY RoutingAssumption DEF RouteInv, Edit, Tick, routeVars
<1>6. \A c \in Call : Shaped(call'[c]) /\ CallInv(call'[c])
  BY <1>1 DEF RouteInv
<1> QED BY <1>1, <1>4, <1>5, <1>6 DEF RouteInv, CallInv, Awaits, Tried, Held, Row, Asked

LEMMA RouteInitially == RouteInit => RouteInv
<1> SUFFICES ASSUME RouteInit PROVE RouteInv
  OBVIOUS
<1>1. \A c \in Call : call[c] = Idle
  BY DEF RouteInit
<1>2. \A c \in Call : CallInv(call[c]) /\ Shaped(call[c])
  BY <1>1 DEF CallInv, Shaped, Idle
<1>3. row \in [Member -> RowOf]
  BY RoutingAssumption DEF RouteInit, RowOf
<1>4. ASSUME NEW m \in Member PROVE row[m].fails + Cardinality(MayFail(m)) <= Cardinality(Call)
  <2>1. row[m].fails = 0
    BY DEF RouteInit
  <2>2. MayFail(m) \in SUBSET Call
    BY DEF MayFail
  <2> QED BY <2>1, <2>2, CountsOfCalls
<1>5. RowsInv
  BY <1>3, <1>4 DEF RowsInv
<1> QED BY <1>2, <1>5, RoutingAssumption DEF RouteInv, RouteInit

LEMMA RouteSteps == RouteInv /\ [RouteNext]_routeVars => RouteInv'
BY BeginStep, EndStep, RetryStep, CoolDownStep, GiveUpStep, EditStep DEF RouteNext, CallActs

\* What the inductive invariant says of the calls.
LEMMA RouteInvStands == RouteInv => TriedInTurn
<1> SUFFICES ASSUME RouteInv PROVE TriedInTurn
  OBVIOUS
<1>1. ASSUME NEW c \in Call
      PROVE  LET k == call[c]
             IN  /\ k.st \in {"idle", "asking"} \cup Ends
                 /\ k.failed \subseteq DOMAIN k.row /\ DOMAIN k.row \subseteq Member
                 /\ k.sent \in Seq(Member) /\ k.refused \subseteq Provider
                 /\ k.retried \in BOOLEAN /\ k.at \in 0 .. MaxTime
                 /\ Len(k.sent) <= MaxRequests /\ InTurn(k.sent)
                 /\ k.st = "asking" => k.sent # <<>> /\ ProviderOf[Asked(k)] \notin k.refused
                 /\ k.st = "exhausted" => Tried(k)
  <2> DEFINE k == call[c]
  <2>1. CallInv(k)
    BY DEF RouteInv
  <2> HIDE DEF k
  <2>2. CASE k.st = "asking" /\ Awaits(k)
    <3>1. ProviderOf[Asked(k)] \notin k.refused
      BY <2>2 DEF Awaits, Held
    <3> QED BY <2>2, <3>1 DEF Awaits, Held, k
  <2>3. CASE k.st = "exhausted" /\ Tried(k)
    BY <2>3 DEF Tried, Ends, k
  <2>4. ASSUME k = Idle \/ \E st \in {"answered", "budget", "error", "stopped"} : k = [Idle EXCEPT !.st = st]
        PROVE  /\ k.st \in {"idle", "answered", "budget", "error", "stopped"}
               /\ k.failed = {} /\ k.row = <<>> /\ k.sent = <<>> /\ k.refused = {}
               /\ k.retried = FALSE /\ k.at = 0
    BY <2>4 DEF Idle
  <2>5. CASE k = Idle \/ \E st \in {"answered", "budget", "error", "stopped"} : k = [Idle EXCEPT !.st = st]
    <3>1. /\ k.st \in {"idle", "answered", "budget", "error", "stopped"}
          /\ k.failed = {} /\ k.row = <<>> /\ k.sent = <<>> /\ k.refused = {} /\ k.retried = FALSE /\ k.at = 0
      BY <2>4, <2>5
    <3>2. DOMAIN k.row = {} /\ DOMAIN k.sent = {} /\ Len(k.sent) = 0 /\ k.sent \in Seq(Member)
      BY <3>1
    <3>3. 0 <= MaxRequests /\ 0 \in 0 .. MaxTime
      BY RoutingAssumption
    <3> QED BY <3>1, <3>2, <3>3 DEF Ends, InTurn, k
  <2> QED BY <2>1, <2>2, <2>3, <2>5 DEF CallInv
<1>2. row \in [Member -> Row]
  BY RowsAreRows DEF RouteInv
<1>3. RouteTypeOK
  BY <1>1, <1>2 DEF RouteTypeOK, RouteInv
<1>4. AskedInTurn
  BY <1>1, <1>3 DEF AskedInTurn, InTurn
<1>5. ExhaustedMeansTried
  <2> SUFFICES ASSUME NEW c \in Call, call[c].st = "exhausted", NEW m \in DOMAIN call[c].row
               PROVE  \/ m \in Range(call[c].sent) \/ ProviderOf[m] \in call[c].refused
                      \/ call[c].row[m].until > call[c].at
    BY DEF ExhaustedMeansTried
  <2>1. Tried(call[c])
    BY <1>1
  <2> QED BY <2>1 DEF Tried, Range
<1> QED BY <1>4, <1>5 DEF TriedInTurn

\* No member is asked in vain and none who could answer is left out, in any call,
\* whatever other calls, edits and cooldowns happen meanwhile (routeModelPool),
\* for any members, ranks, calls and request limit.
THEOREM CallsTryInTurn == RouteSpec => []TriedInTurn
<1>1. RouteSpec => []RouteInv
  BY RouteInitially, RouteSteps, PTL DEF RouteSpec
<1> QED BY <1>1, RouteInvStands, PTL

----------------------------------------------------------------------------
(* The upgrades of the section. *)

SectionRows == [Group -> StoredField \cup {Absent}]
Origin == {"none", "own", "v9", "excel", "modern"}
Content == [rows : SectionRows, source : Origin, dims : BOOLEAN,
            contract : {"none", "classic", "modern"}, protocol : {"strict", "v2"},
            columns : {"fields", "rows", "modern"}, mode : {"none", "screenshot", "issue"},
            st : {"published", "archived"}]
Database == [schema : Nat, section : BOOLEAN, live : SectionRows, source : Origin,
             versions : Seq(Content), cur : Nat, job : [Task -> Nat \cup {Absent}],
             results : SUBSET Group]

\* The two stages are never switched off.
CoreOn(rows) == \A g \in Core : rows[g] # Absent => rows[g].on

\* A database whose current version is one that was published, if it has any.
Sound(d) ==
  /\ d \in Database
  /\ d.cur \in 0 .. Len(d.versions) /\ (d.cur = 0 => d.versions = <<>>)
  /\ d.cur = 0 => CoreOn(d.live)
  /\ \A i \in DOMAIN d.versions : CoreOn(d.versions[i].rows)
  /\ d.cur # 0 => Current(d).st = "published"

\* From 018 on there is a version and no job is without one.
Bound(n, d) == IF n < 18 THEN d.cur = 0 ELSE d.cur # 0 /\ \A t \in Task : d.job[t] # 0

\* The live fields are those of the current version, and what else is there is
\* switched off.
Agree(d) ==
  /\ d.source = Current(d).source
  /\ \A g \in Group : IF Current(d).rows[g] # Absent THEN d.live[g] = Current(d).rows[g]
                      ELSE d.live[g] # Absent => ~d.live[g].on

\* What schema n adds to the checks a publication has to pass.
PassesAt(n, content) ==
  /\ n >= 19 => content.dims
  /\ n >= 22 => content.contract # "none"
  /\ n >= 23 => IsStrict(content.rows)
  /\ n >= 24 => content.columns # "fields" /\ (n # 28 => content.mode = "screenshot")

\* What schema n says of a section that no operator changed.
GroupsAt(n) == IF n >= 26 THEN Core \cup {"modern"} ELSE IF n = 25 THEN Core
               ELSE Core \cup {"classic"}
ByAt(n) == IF n >= 30 THEN "v2" ELSE IF n >= 25 THEN "v4" ELSE IF n >= 11 THEN "v11" ELSE "v9"
RowsAt(n, rows) ==
  /\ n >= 9 => rows["facts"] # Absent
  /\ n < 25 => rows["modern"] = Absent
  /\ n >= 10 => /\ rows["quality"] # Absent /\ rows["quality"].by = ByAt(n)
                /\ \A g \in Group : g \in GroupsAt(n) <=> rows[g] # Absent /\ rows[g].on
SaysAt(n, d) ==
  IF n < 18 THEN RowsAt(n, d.live)
  ELSE LET said == Current(d) IN
       /\ RowsAt(n, said.rows)
       /\ n >= 19 => said.dims
       /\ IF n >= 25 THEN said.contract = "modern"
          ELSE said.contract # "modern" /\ (n >= 22 => said.contract = "classic")
       /\ said.protocol = IF n >= 30 THEN "v2" ELSE "strict"
       /\ n >= 24 => said.columns # "fields" /\ said.mode = IF n = 28 THEN "issue" ELSE "screenshot"

UpTypeOK ==
  /\ Sound(store) /\ store.schema \in 0 .. Newest
  /\ phase \in {"down", "migrate", "reconcile", "seed", "up"}
  /\ release \in 0 .. Newest /\ {fresh, editing, chosen} \subseteq BOOLEAN
  /\ own \in Nat /\ starts \in Nat

\* Where the program is in its start, and what it starts on.
Started ==
  /\ ~store.section => /\ store.cur = 0 /\ store.schema \in {0, Newest} /\ ~fresh
                       /\ phase # "down" => release = Newest
  /\ phase = "migrate" => store.schema <= release
  /\ phase \in {"reconcile", "seed", "up"} => store.schema = release
  /\ phase = "up" => store.section
  /\ fresh => store.schema = Newest

Standing(n, d, touched, picked, untouched) ==
  /\ Bound(n, d)
  /\ (n >= 18 /\ ~touched) => Agree(d)
  /\ (n >= 18 /\ ~picked) => PassesAt(n, Current(d))
  /\ untouched => SaysAt(n, d)

UpInv ==
  /\ UpTypeOK /\ Started
  /\ store.section => Standing(store.schema, store, editing, chosen, own = 0 /\ ~fresh)
  /\ (fresh /\ own = 0) => Says(Current(store)) = Intended(24)

----------------------------------------------------------------------------

\* What a step makes of a database: other live fields, and a new version.
Set(d, liveRows, source) == [d EXCEPT !.live = liveRows, !.source = source]
Put(d, liveRows, source, content) == WithVersion(Set(d, liveRows, source), content)

\* Nothing that was published, bound or found is lost.
Keeps(d, e) ==
  /\ Len(d.versions) <= Len(e.versions)
  /\ \A i \in DOMAIN d.versions : e.versions[i] = d.versions[i]
  /\ \A t \in Task : d.job[t] \notin {Absent, 0} => e.job[t] = d.job[t]
  /\ d.results \subseteq e.results

Follows(d, e) == Keeps(d, e) /\ e.section = d.section /\ e.schema = d.schema

LEMMA VersionIs ==
  ASSUME NEW d, Sound(d), d.cur # 0
  PROVE  Current(d) \in Content /\ CoreOn(Current(d).rows) /\ Current(d).st = "published"
         /\ Current(d).rows \in SectionRows
<1>1. d.cur \in DOMAIN d.versions /\ d.versions \in Seq(Content)
  BY DEF Sound, Database
<1>2. Current(d) \in Content
  BY <1>1 DEF Current
<1> QED BY <1>1, <1>2 DEF Sound, Current, Content

LEMMA SetIs ==
  ASSUME NEW d, Sound(d), NEW liveRows \in SectionRows, d.cur = 0 => CoreOn(liveRows), NEW source \in Origin
  PROVE  LET e == Set(d, liveRows, source) IN
         /\ Sound(e) /\ Follows(d, e) /\ e.live = liveRows /\ e.source = source
         /\ e.cur = d.cur /\ e.job = d.job /\ Current(e) = Current(d) /\ e.versions = d.versions
<1> DEFINE e == Set(d, liveRows, source)
<1>1. d \in Database
  BY DEF Sound
<1>2. /\ e \in Database /\ e.live = liveRows /\ e.source = source /\ e.versions = d.versions
      /\ e.cur = d.cur /\ e.job = d.job /\ e.results = d.results
      /\ e.section = d.section /\ e.schema = d.schema
  BY <1>1 DEF Set, Database
<1>3. Current(e) = Current(d)
  BY <1>2 DEF Current
<1> HIDE DEF e
<1>4. Sound(e)
  BY <1>2, <1>3 DEF Sound
<1>5. Follows(d, e)
  BY <1>2 DEF Follows, Keeps
<1> QED BY <1>2, <1>3, <1>4, <1>5 DEF e

LEMMA AppendIs ==
  ASSUME NEW d \in Database, \A i \in DOMAIN d.versions : CoreOn(d.versions[i].rows),
         NEW content \in Content, CoreOn(content.rows)
  PROVE  LET e == WithVersion(d, content) IN
         /\ e \in Database /\ Follows(d, e) /\ e.live = d.live /\ e.source = d.source
         /\ e.job = d.job /\ e.cur = Len(d.versions) + 1 /\ e.cur # 0 /\ Current(e) = content
         /\ Len(e.versions) = e.cur /\ e.results = d.results
         /\ \A i \in DOMAIN e.versions : CoreOn(e.versions[i].rows)
<1> DEFINE e == WithVersion(d, content)
<1>1. d \in Database /\ d.versions \in Seq(Content)
  BY DEF Database
<1>2. /\ e.live = d.live /\ e.source = d.source /\ e.versions = Append(d.versions, content)
      /\ e.cur = Len(d.versions) + 1 /\ e.job = d.job /\ e.results = d.results
      /\ e.section = d.section /\ e.schema = d.schema
  BY <1>1 DEF WithVersion, Database
<1>3. Append(d.versions, content) \in Seq(Content) /\ Len(d.versions) \in Nat
  BY <1>1
<1>4. e \in Database
  <2>1. \A vs \in Seq(Content), k \in Nat : [d EXCEPT !.versions = vs, !.cur = k] \in Database
    BY <1>1 DEF Database
  <2>2. e = [d EXCEPT !.versions = Append(d.versions, content), !.cur = Len(d.versions) + 1]
    BY DEF WithVersion
  <2> DEFINE vs == Append(d.versions, content)
             k == Len(d.versions) + 1
  <2>3. vs \in Seq(Content) /\ k \in Nat
    BY <1>3
  <2> HIDE DEF vs, k
  <2>4. [d EXCEPT !.versions = vs, !.cur = k] \in Database
    BY <2>1, <2>3
  <2> QED BY <2>2, <2>4 DEF vs, k
<1>5. /\ Len(e.versions) = Len(d.versions) + 1 /\ e.versions[Len(d.versions) + 1] = content
      /\ \A i \in DOMAIN d.versions : e.versions[i] = d.versions[i]
      /\ \A i \in DOMAIN e.versions : i \in DOMAIN d.versions \/ i = Len(d.versions) + 1
  BY <1>1, <1>2
<1> HIDE DEF e
<1>6. \A i \in DOMAIN e.versions : CoreOn(e.versions[i].rows)
  BY <1>5
<1>7. Follows(d, e)
  BY <1>2, <1>3, <1>5 DEF Follows, Keeps
<1>8. Current(e) = content
  BY <1>2, <1>5 DEF Current
<1>9. e.cur # 0
  BY <1>2, <1>3
<1> QED BY <1>2, <1>4, <1>5, <1>6, <1>7, <1>8, <1>9 DEF e

LEMMA WithVersionIs ==
  ASSUME NEW d, Sound(d), NEW content \in Content, CoreOn(content.rows), content.st = "published"
  PROVE  LET e == WithVersion(d, content) IN
         /\ Sound(e) /\ Follows(d, e) /\ e.live = d.live /\ e.source = d.source
         /\ e.job = d.job /\ e.cur # 0 /\ Current(e) = content
<1> DEFINE e == WithVersion(d, content)
<1>1. /\ e \in Database /\ Follows(d, e) /\ e.live = d.live /\ e.source = d.source
      /\ e.job = d.job /\ e.cur = Len(d.versions) + 1 /\ e.cur # 0 /\ Current(e) = content
      /\ Len(e.versions) = e.cur
      /\ \A i \in DOMAIN e.versions : CoreOn(e.versions[i].rows)
  BY AppendIs DEF Sound
<1> HIDE DEF e
<1>2. Sound(e)
  <2>1. e.cur \in Nat
    BY <1>1 DEF Database
  <2>2. e.cur \in 0 .. Len(e.versions)
    BY <1>1, <2>1
  <2> QED BY <1>1, <2>1, <2>2 DEF Sound
<1> QED BY <1>1, <1>2 DEF e

LEMMA FollowsOn ==
  ASSUME NEW a, NEW b, NEW c, Sound(a), Sound(b), Sound(c), Keeps(a, b), Keeps(b, c)
  PROVE  Keeps(a, c)
<1>1. /\ Len(a.versions) \in Nat /\ Len(b.versions) \in Nat /\ Len(c.versions) \in Nat
      /\ DOMAIN a.versions = 1 .. Len(a.versions) /\ DOMAIN b.versions = 1 .. Len(b.versions)
  BY DEF Sound, Database
<1>2. Len(a.versions) <= Len(c.versions)
  BY <1>1 DEF Keeps
<1>3. \A i \in DOMAIN a.versions : i \in DOMAIN b.versions /\ c.versions[i] = a.versions[i]
  BY <1>1 DEF Keeps
<1>4. a.results \subseteq c.results
  BY DEF Keeps
<1>5. \A t \in Task : a.job[t] \notin {Absent, 0} => c.job[t] = a.job[t]
  BY DEF Keeps
<1> QED BY <1>2, <1>3, <1>4, <1>5 DEF Keeps

LEMMA PutIs ==
  ASSUME NEW d, Sound(d), d.cur # 0, NEW liveRows \in SectionRows, NEW source \in Origin,
         NEW content \in Content, CoreOn(content.rows), content.st = "published"
  PROVE  LET e == Put(d, liveRows, source, content) IN
         /\ Sound(e) /\ Follows(d, e) /\ e.live = liveRows /\ e.source = source
         /\ e.cur # 0 /\ e.job = d.job /\ Current(e) = content
<1> DEFINE s == Set(d, liveRows, source)
           e == Put(d, liveRows, source, content)
<1>1. /\ Sound(s) /\ Follows(d, s) /\ s.live = liveRows /\ s.source = source /\ s.job = d.job
  BY SetIs
<1> HIDE DEF s
<1>2. /\ Sound(WithVersion(s, content)) /\ Follows(s, WithVersion(s, content))
      /\ WithVersion(s, content).live = s.live /\ WithVersion(s, content).source = s.source
      /\ WithVersion(s, content).job = s.job /\ WithVersion(s, content).cur # 0
      /\ Current(WithVersion(s, content)) = content
  BY <1>1, WithVersionIs
<1>3. e = WithVersion(s, content)
  BY DEF Put, s
<1> HIDE DEF e
<1>4. Follows(d, e)
  BY <1>1, <1>2, <1>3, FollowsOn DEF Follows
<1> QED BY <1>1, <1>2, <1>3, <1>4 DEF e
LEMMA FieldMade ==
  ASSUME NEW by \in {"own", "seed", "v9", "v11", "v4", "v2", "local"},
         NEW exec \in {"ai", "analysis", "derive", "facts"}, NEW on \in BOOLEAN
  PROVE  /\ LiveRow(by, exec, on) \in StoredField /\ LiveRow(by, exec, on) # Absent
         /\ LiveRow(by, exec, on).on = on /\ LiveRow(by, exec, on).by = by
         /\ LiveRow(by, exec, on).exec = exec
<1>1. LiveRow(by, exec, on) \in StoredField
  BY DEF LiveRow, StoredField
<1> QED BY <1>1, UpgradeAssumption DEF LiveRow

LEMMA FieldIs ==
  ASSUME NEW rows \in SectionRows, NEW g \in Group, rows[g] # Absent
  PROVE  rows[g] \in StoredField
BY DEF SectionRows

\* Another prompt, execution or switch of a field.
LEMMA FieldKept ==
  ASSUME NEW given \in StoredField
  PROVE  /\ \A on \in BOOLEAN : /\ [given EXCEPT !.on = on] \in StoredField
                                /\ [given EXCEPT !.on = on] # Absent
                                /\ [given EXCEPT !.on = on].on = on
                                /\ [given EXCEPT !.on = on].by = given.by
                                /\ [given EXCEPT !.on = on].exec = given.exec
         /\ \A exec \in {"ai", "analysis", "derive", "facts"} :
              /\ [given EXCEPT !.exec = exec] \in StoredField
              /\ [given EXCEPT !.exec = exec] # Absent
              /\ [given EXCEPT !.exec = exec].on = given.on
              /\ [given EXCEPT !.exec = exec].by = given.by
              /\ [given EXCEPT !.exec = exec].exec = exec
         /\ \A by \in {"own", "v2"} :
              /\ [given EXCEPT !.by = by] \in StoredField
              /\ [given EXCEPT !.by = by] # Absent
              /\ [given EXCEPT !.by = by].on = given.on
              /\ [given EXCEPT !.by = by].by = by
              /\ [given EXCEPT !.by = by].exec = given.exec
<1>1. \A on \in BOOLEAN : /\ [given EXCEPT !.on = on] \in StoredField
                          /\ [given EXCEPT !.on = on].on = on
                          /\ [given EXCEPT !.on = on].by = given.by
                          /\ [given EXCEPT !.on = on].exec = given.exec
  BY DEF StoredField
<1>2. \A exec \in {"ai", "analysis", "derive", "facts"} :
              /\ [given EXCEPT !.exec = exec] \in StoredField
              /\ [given EXCEPT !.exec = exec].on = given.on
              /\ [given EXCEPT !.exec = exec].by = given.by
              /\ [given EXCEPT !.exec = exec].exec = exec
  BY DEF StoredField
<1>3. \A by \in {"own", "v2"} :
              /\ [given EXCEPT !.by = by] \in StoredField
              /\ [given EXCEPT !.by = by].on = given.on
              /\ [given EXCEPT !.by = by].by = by
              /\ [given EXCEPT !.by = by].exec = given.exec
  BY DEF StoredField
<1> QED BY <1>1, <1>2, <1>3, UpgradeAssumption

LEMMA OffIs ==
  ASSUME NEW rows \in SectionRows, NEW G \in SUBSET Group
  PROVE  /\ Off(rows, G) \in SectionRows
         /\ \A g \in Group : /\ Off(rows, G)[g] = Absent <=> rows[g] = Absent
                             /\ g \notin G => Off(rows, G)[g] = rows[g]
                             /\ g \in G /\ rows[g] # Absent => ~Off(rows, G)[g].on
<1>1. \A g \in Group : Off(rows, G)[g] = IF g \in G /\ rows[g] # Absent
                                         THEN [rows[g] EXCEPT !.on = FALSE] ELSE rows[g]
  BY DEF Off, Present
<1>2. \A g \in Group : rows[g] # Absent => /\ [rows[g] EXCEPT !.on = FALSE] \in StoredField
                                           /\ [rows[g] EXCEPT !.on = FALSE] # Absent
                                           /\ ~[rows[g] EXCEPT !.on = FALSE].on
  BY FieldIs, FieldKept
<1>3. \A g \in Group : Off(rows, G)[g] \in StoredField \cup {Absent}
  BY <1>1, <1>2 DEF SectionRows
<1>4. Off(rows, G) \in SectionRows
  BY <1>3 DEF Off, SectionRows
<1> QED BY <1>1, <1>2, <1>4

\* What a step n does to a database at schema n - 1.
Carries(n, d, e) ==
  /\ Sound(e) /\ Follows(d, e) /\ Bound(n, e)
  /\ n > 18 /\ Agree(d) => Agree(e)
  /\ HasCore(d.live) => HasCore(e.live)
  /\ n > 18 /\ PassesAt(n - 1, Current(d)) => PassesAt(n, Current(e))
  /\ SaysAt(n - 1, d) => SaysAt(n, e)

LEMMA BoundIs ==
  ASSUME NEW n \in Nat \ {0, 18}, NEW d, NEW e, Bound(n - 1, d), e.job = d.job,
         e.cur = 0 <=> d.cur = 0
  PROVE  Bound(n, e)
BY DEF Bound

LEMMA NoStep ==
  ASSUME NEW n \in 1 .. Newest, n \notin {9, 10, 11, 12, 13, 18, 19, 22, 23, 24, 25, 26, 27, 28, 29, 30},
         NEW d, NEW r, Sound(d), Bound(n - 1, d)
  PROVE  Carries(n, d, Step(n, d, r))
<1>1. Step(n, d, r) = d
  BY DEF Step
<1>2. n \in Nat \ {0, 18} /\ n \in (1 .. 8) \cup (14 .. 17) \cup {20, 21}
  BY DEF Newest
<1>3. Bound(n, d)
  BY <1>2, BoundIs
<1>4. Follows(d, d)
  BY DEF Follows, Keeps, Sound, Database
<1>5. n > 18 /\ PassesAt(n - 1, Current(d)) => PassesAt(n, Current(d))
  BY <1>2 DEF PassesAt
<1>6. SaysAt(n - 1, d) => SaysAt(n, d)
  BY <1>2 DEF SaysAt, RowsAt, ByAt, GroupsAt
<1> QED BY <1>1, <1>3, <1>4, <1>5, <1>6 DEF Carries
----------------------------------------------------------------------------
(* Before the versions. *)

\* A step that only changes the live fields of a database without a version.
LEMMA EarlyStep ==
  ASSUME NEW n \in 1 .. 17, NEW d, Sound(d), Bound(n - 1, d),
         NEW liveRows \in SectionRows, CoreOn(liveRows), NEW source \in Origin,
         HasCore(d.live) => HasCore(liveRows),
         SaysAt(n - 1, d) => RowsAt(n, liveRows)
  PROVE  Carries(n, d, Set(d, liveRows, source))
<1> DEFINE e == Set(d, liveRows, source)
<1>1. /\ Sound(e) /\ Follows(d, e) /\ e.live = liveRows /\ e.cur = d.cur /\ e.job = d.job
  BY SetIs
<1> HIDE DEF e
<1>2. Bound(n, e)
  BY <1>1, BoundIs
<1>3. SaysAt(n - 1, d) => SaysAt(n, e)
  BY <1>1 DEF SaysAt
<1> QED BY <1>1, <1>2, <1>3 DEF Carries, e

LEMMA Step9 ==
  ASSUME NEW d, Sound(d), Bound(8, d)
  PROVE  Carries(9, d, FactsField(d))
<1> DEFINE field == LiveRow("v9", "ai", TRUE)
           liveRows == [d.live EXCEPT !["facts"] = field]
<1>1. d \in Database /\ d.live \in SectionRows /\ CoreOn(d.live)
  BY DEF Sound, Database, Bound
<1>2. field \in StoredField /\ field # Absent /\ field.on
  BY FieldMade
<1> HIDE DEF field
<1>3. /\ liveRows \in SectionRows /\ liveRows["facts"] = field
      /\ \A g \in Group \ {"facts"} : liveRows[g] = d.live[g]
  BY <1>1, <1>2 DEF SectionRows, Group
<1>4. FactsField(d) = Set(d, liveRows, "v9")
  BY <1>1 DEF FactsField, Set, Database, field
<1> HIDE DEF liveRows
<1>5. CoreOn(liveRows) /\ (HasCore(d.live) => HasCore(liveRows))
  BY <1>1, <1>2, <1>3 DEF CoreOn, HasCore, Core, Present, Group
<1>6. SaysAt(8, d) => RowsAt(9, liveRows)
  BY <1>2, <1>3 DEF SaysAt, RowsAt, Group
<1>7. Carries(9, d, Set(d, liveRows, "v9"))
  BY <1>3, <1>5, <1>6, EarlyStep DEF Origin
<1> QED BY <1>4, <1>7

LEMMA Step10 ==
  ASSUME NEW d, Sound(d), Bound(9, d)
  PROVE  Carries(10, d, UnifiedField(d))
<1> DEFINE whole == LiveRow("v9", "analysis", TRUE)
           derived == LiveRow("local", "derive", TRUE)
           off == Off(d.live, {"old"})
           liveRows == [off EXCEPT !["quality"] = whole, !["classic"] = derived]
<1>1. d \in Database /\ d.live \in SectionRows /\ CoreOn(d.live)
  BY DEF Sound, Database, Bound
<1>2. /\ whole \in StoredField /\ whole # Absent /\ whole.on /\ whole.by = "v9"
      /\ derived \in StoredField /\ derived # Absent /\ derived.on
  BY FieldMade
<1>3. /\ off \in SectionRows
      /\ \A g \in Group : /\ off[g] = Absent <=> d.live[g] = Absent
                          /\ g # "old" => off[g] = d.live[g]
                          /\ g = "old" /\ d.live[g] # Absent => ~off[g].on
  BY <1>1, OffIs DEF Group
<1>4. UnifiedField(d) = Set(d, liveRows, d.source) /\ d.source \in Origin
  BY <1>1 DEF UnifiedField, Set, Database
<1> HIDE DEF whole, derived, off
<1>5. /\ liveRows \in SectionRows /\ liveRows["quality"] = whole /\ liveRows["classic"] = derived
      /\ liveRows["facts"] = off["facts"] /\ liveRows["modern"] = off["modern"]
      /\ liveRows["old"] = off["old"]
  BY <1>2, <1>3 DEF SectionRows, Group
<1> HIDE DEF liveRows
<1>6. CoreOn(liveRows) /\ (HasCore(d.live) => HasCore(liveRows))
  BY <1>1, <1>2, <1>3, <1>5 DEF CoreOn, HasCore, Core, Present, Group
<1>7. SaysAt(9, d) => RowsAt(10, liveRows)
  BY <1>1, <1>2, <1>3, <1>5 DEF SaysAt, RowsAt, CoreOn, Core, Group, GroupsAt, ByAt
<1>8. Carries(10, d, Set(d, liveRows, d.source))
  BY <1>4, <1>5, <1>6, <1>7, EarlyStep
<1> QED BY <1>4, <1>8

LEMMA Step11 ==
  ASSUME NEW n \in {11, 12}, NEW d, Sound(d), Bound(n - 1, d)
  PROVE  Carries(n, d, OptimizedPrompts(d))
<1> DEFINE field(g) == LiveRow("v11", IF g = "facts" THEN "ai" ELSE "analysis", TRUE)
           liveRows == [g \in Group |-> IF g \notin Core \cap Present(d.live) THEN d.live[g] ELSE field(g)]
<1>1. d \in Database /\ d.live \in SectionRows /\ CoreOn(d.live)
  BY DEF Sound, Database, Bound
<1>2. \A g : field(g) \in StoredField /\ field(g) # Absent /\ field(g).on /\ field(g).by = "v11"
  <2> SUFFICES ASSUME NEW g
               PROVE  field(g) \in StoredField /\ field(g) # Absent /\ field(g).on
                      /\ field(g).by = "v11"
    OBVIOUS
  <2>1. CASE g = "facts"
    <3>1. field(g) = LiveRow("v11", "ai", TRUE)
      BY <2>1
    <3>2. /\ LiveRow("v11", "ai", TRUE) \in StoredField /\ LiveRow("v11", "ai", TRUE) # Absent
          /\ LiveRow("v11", "ai", TRUE).on /\ LiveRow("v11", "ai", TRUE).by = "v11"
      BY FieldMade
    <3> HIDE DEF field
    <3> QED BY <3>1, <3>2
  <2>2. CASE g # "facts"
    <3>1. field(g) = LiveRow("v11", "analysis", TRUE)
      BY <2>2
    <3>2. /\ LiveRow("v11", "analysis", TRUE) \in StoredField /\ LiveRow("v11", "analysis", TRUE) # Absent
          /\ LiveRow("v11", "analysis", TRUE).on /\ LiveRow("v11", "analysis", TRUE).by = "v11"
      BY FieldMade
    <3> HIDE DEF field
    <3> QED BY <3>1, <3>2
  <2> QED BY <2>1, <2>2
<1>3. OptimizedPrompts(d) = Set(d, liveRows, d.source) /\ d.source \in Origin
  BY <1>1 DEF OptimizedPrompts, Set, Database
<1> HIDE DEF field
<1>4. \A g \in Group : liveRows[g] \in StoredField \cup {Absent}
  BY <1>1, <1>2 DEF SectionRows
<1>5. liveRows \in SectionRows
  BY <1>4 DEF SectionRows
<1>6. \A g \in Group : liveRows[g] = IF g \in Core /\ d.live[g] # Absent THEN field(g) ELSE d.live[g]
  BY DEF Present
<1> HIDE DEF liveRows
<1>7. CoreOn(liveRows) /\ (HasCore(d.live) => HasCore(liveRows))
  BY <1>2, <1>6 DEF CoreOn, HasCore, Core, Present, Group
<1>8. SaysAt(n - 1, d) => RowsAt(n, liveRows)
  BY <1>1, <1>2, <1>6 DEF SaysAt, RowsAt, CoreOn, Core, Group, GroupsAt, ByAt
<1>9. Carries(n, d, Set(d, liveRows, d.source))
  BY <1>3, <1>5, <1>7, <1>8, EarlyStep
<1> QED BY <1>3, <1>9

LEMMA Step13 ==
  ASSUME NEW d, Sound(d), Bound(12, d)
  PROVE  Carries(13, d, ExcelSchema(d))
<1>1. d \in Database /\ d.live \in SectionRows /\ CoreOn(d.live)
  BY DEF Sound, Database, Bound
<1>2. ExcelSchema(d) = Set(d, d.live, "excel")
  BY <1>1 DEF ExcelSchema, Set, Database
<1>3. SaysAt(12, d) => RowsAt(13, d.live)
  BY DEF SaysAt, RowsAt, GroupsAt, ByAt
<1>4. Carries(13, d, Set(d, d.live, "excel"))
  BY <1>1, <1>3, EarlyStep DEF Origin
<1> QED BY <1>2, <1>4

----------------------------------------------------------------------------
(* The versions. *)

LEMMA Step18 ==
  ASSUME NEW d, Sound(d), Bound(17, d), NEW r \in 18 .. Newest
  PROVE  Carries(18, d, EnsureV1(d, r)) /\ Agree(EnsureV1(d, r))
<1> DEFINE first == FirstVersion(d, r)
           w == WithVersion(d, first)
           e == EnsureV1(d, r)
<1>1. d \in Database /\ d.live \in SectionRows /\ CoreOn(d.live) /\ d.source \in Origin
      /\ d.versions = <<>>
  BY DEF Sound, Database, Bound
<1>2. /\ first \in Content /\ first.rows = d.live /\ first.source = d.source /\ first.st = "published"
      /\ first.protocol = "strict" /\ first.contract # "modern"
  BY <1>1 DEF FirstVersion, Canonical, Content
<1> HIDE DEF first
<1>3. /\ Sound(w) /\ Follows(d, w) /\ w.live = d.live /\ w.source = d.source /\ w.job = d.job
      /\ w.cur # 0 /\ Current(w) = first
  BY <1>1, <1>2, WithVersionIs
<1>4. e = [w EXCEPT !.job = [t \in Task |-> IF w.job[t] = 0 THEN 1 ELSE w.job[t]]]
  BY <1>1 DEF EnsureV1, first
<1> HIDE DEF w, e
<1>5. w \in Database
  BY <1>3 DEF Sound
<1>6. /\ e \in Database /\ e.live = w.live /\ e.source = w.source /\ e.versions = w.versions
      /\ e.cur = w.cur /\ e.results = w.results /\ e.section = w.section /\ e.schema = w.schema
      /\ \A t \in Task : e.job[t] = IF w.job[t] = 0 THEN 1 ELSE w.job[t]
  BY <1>4, <1>5 DEF Database
<1>7. Current(e) = first
  BY <1>3, <1>6 DEF Current
<1>8. Sound(e)
  BY <1>2, <1>3, <1>6, <1>7 DEF Sound
<1>9. Follows(d, e)
  BY <1>3, <1>6 DEF Follows, Keeps
<1>10. Bound(18, e)
  BY <1>3, <1>6 DEF Bound
<1>11. SaysAt(17, d) => SaysAt(18, e)
  BY <1>2, <1>7 DEF SaysAt, RowsAt, GroupsAt, ByAt
<1>12. Agree(e)
  BY <1>1, <1>2, <1>3, <1>6, <1>7 DEF Agree
<1> QED BY <1>3, <1>6, <1>8, <1>9, <1>10, <1>11, <1>12 DEF Carries, e
LEMMA FirstIs ==
  ASSUME NEW d, Sound(d), Bound(17, d), NEW r \in 18 .. Newest
  PROVE  Current(EnsureV1(d, r)) = FirstVersion(d, r)
<1> DEFINE first == FirstVersion(d, r)
           w == WithVersion(d, first)
           e == EnsureV1(d, r)
<1>1. d \in Database /\ d.live \in SectionRows /\ d.source \in Origin /\ d.versions = <<>>
      /\ CoreOn(d.live)
  BY DEF Sound, Database, Bound
<1>2. first \in Content /\ first.rows = d.live /\ first.st = "published"
  BY <1>1 DEF FirstVersion, Canonical, Content
<1> HIDE DEF first
<1>3. w \in Database /\ Current(w) = first
  BY <1>1, <1>2, WithVersionIs DEF Sound
<1>4. e = [w EXCEPT !.job = [t \in Task |-> IF w.job[t] = 0 THEN 1 ELSE w.job[t]]]
  BY <1>1 DEF EnsureV1, first
<1> HIDE DEF w, e
<1>5. e.versions = w.versions /\ e.cur = w.cur
  BY <1>3, <1>4 DEF Database
<1> QED BY <1>3, <1>5 DEF Current, e, first

\* A step that only adds a version.
LEMMA VersionStep ==
  ASSUME NEW n \in 19 .. Newest, NEW d, Sound(d), Bound(n - 1, d),
         NEW content \in Content, content.rows = Current(d).rows,
         content.source = Current(d).source, content.st = "published",
         PassesAt(n - 1, Current(d)) => PassesAt(n, content),
         SaysAt(n - 1, d) => \A e : (Current(e) = content => SaysAt(n, e))
  PROVE  Carries(n, d, WithVersion(d, content))
<1> DEFINE e == WithVersion(d, content)
<1>1. d.cur # 0 /\ CoreOn(content.rows)
  BY VersionIs DEF Bound
<1>2. /\ Sound(e) /\ Follows(d, e) /\ e.live = d.live /\ e.source = d.source /\ e.job = d.job
      /\ e.cur # 0 /\ Current(e) = content
  BY <1>1, WithVersionIs
<1> HIDE DEF e
<1>3. Bound(n, e)
  BY <1>1, <1>2, BoundIs DEF Newest
<1>4. Agree(d) => Agree(e)
  BY <1>2 DEF Agree
<1> QED BY <1>2, <1>3, <1>4 DEF Carries, e

\* A step that finds nothing to change.
LEMMA NothingToDo ==
  ASSUME NEW n \in 19 .. Newest, NEW d, Sound(d), Bound(n - 1, d),
         PassesAt(n - 1, Current(d)) => PassesAt(n, Current(d)),
         SaysAt(n - 1, d) => SaysAt(n, d)
  PROVE  Carries(n, d, d)
<1>1. Bound(n, d)
  BY BoundIs DEF Newest
<1>2. Follows(d, d)
  BY DEF Follows, Keeps, Sound, Database
<1> QED BY <1>1, <1>2 DEF Carries

LEMMA Step19 ==
  ASSUME NEW d, Sound(d), Bound(18, d)
  PROVE  Carries(19, d, Dimensions(d))
<1> DEFINE said == Current(d)
           content == [said EXCEPT !.dims = TRUE]
<1>1. d.cur # 0 /\ said \in Content /\ said.st = "published"
  BY VersionIs DEF Bound
<1>2. CASE said.dims
  <2>1. PassesAt(18, said) => PassesAt(19, said)
    BY <1>2 DEF PassesAt
  <2>2. SaysAt(18, d) => SaysAt(19, d)
    BY <1>2 DEF SaysAt, RowsAt, GroupsAt, ByAt
  <2>3. Carries(19, d, d)
    BY <2>1, <2>2, NothingToDo DEF Newest
  <2> QED BY <1>2, <2>3 DEF Dimensions
<1>3. CASE ~said.dims
  <2>1. /\ content \in Content /\ content.dims /\ content.rows = said.rows /\ content.source = said.source
        /\ content.st = said.st /\ content.contract = said.contract /\ content.protocol = said.protocol
    BY <1>1 DEF Content
  <2>2. Dimensions(d) = WithVersion(d, content)
    BY <1>3 DEF Dimensions
  <2> HIDE DEF content
  <2>3. PassesAt(18, said) => PassesAt(19, content)
    BY <2>1 DEF PassesAt
  <2>4. ASSUME SaysAt(18, d), NEW e, Current(e) = content PROVE SaysAt(19, e)
    BY <2>1, <2>4 DEF SaysAt, RowsAt, GroupsAt, ByAt
  <2>5. Carries(19, d, WithVersion(d, content))
    BY <1>1, <2>1, <2>3, <2>4, VersionStep DEF Newest
  <2> QED BY <2>2, <2>5
<1> QED BY <1>2, <1>3

LEMMA Step22 ==
  ASSUME NEW d, Sound(d), Bound(21, d)
  PROVE  Carries(22, d, ImportContract(d))
<1> DEFINE said == Current(d)
           content == [said EXCEPT !.contract = "classic"]
<1>1. d.cur # 0 /\ said \in Content /\ said.st = "published"
  BY VersionIs DEF Bound
<1>2. CASE said.contract # "none"
  <2>1. PassesAt(21, said) => PassesAt(22, said)
    BY <1>2 DEF PassesAt
  <2>2. SaysAt(21, d) => SaysAt(22, d)
    BY <1>1, <1>2 DEF SaysAt, RowsAt, GroupsAt, ByAt, Content
  <2>3. Carries(22, d, d)
    BY <2>1, <2>2, NothingToDo DEF Newest
  <2> QED BY <1>2, <2>3 DEF ImportContract
<1>3. CASE said.contract = "none"
  <2>1. /\ content \in Content /\ content.contract = "classic" /\ content.rows = said.rows
        /\ content.source = said.source /\ content.dims = said.dims
        /\ content.st = said.st /\ content.protocol = said.protocol
    BY <1>1 DEF Content
  <2>2. ImportContract(d) = WithVersion(d, content)
    BY <1>3 DEF ImportContract
  <2> HIDE DEF content
  <2>3. PassesAt(21, said) => PassesAt(22, content)
    BY <2>1 DEF PassesAt
  <2>4. ASSUME SaysAt(21, d), NEW e, Current(e) = content PROVE SaysAt(22, e)
    BY <2>1, <2>4 DEF SaysAt, RowsAt, GroupsAt, ByAt
  <2>5. Carries(22, d, WithVersion(d, content))
    BY <1>1, <2>1, <2>3, <2>4, VersionStep DEF Newest
  <2> QED BY <2>2, <2>5
<1> QED BY <1>2, <1>3

LEMMA Step24 ==
  ASSUME NEW d, Sound(d), Bound(23, d)
  PROVE  Carries(24, d, ScreenshotRows(d))
<1> DEFINE said == Current(d)
           content == [said EXCEPT !.mode = "screenshot", !.columns = "rows"]
<1>1. d.cur # 0 /\ said \in Content /\ said.st = "published"
  BY VersionIs DEF Bound
<1>2. CASE HasScreenshotRows(said)
  <2>1. PassesAt(23, said) => PassesAt(24, said)
    BY <1>2 DEF PassesAt, HasScreenshotRows
  <2>2. SaysAt(23, d) => SaysAt(24, d)
    BY <1>2 DEF SaysAt, RowsAt, GroupsAt, ByAt, HasScreenshotRows
  <2>3. Carries(24, d, d)
    BY <2>1, <2>2, NothingToDo DEF Newest
  <2> QED BY <1>2, <2>3 DEF ScreenshotRows
<1>3. CASE ~HasScreenshotRows(said)
  <2>1. /\ content \in Content /\ content.mode = "screenshot" /\ content.columns = "rows"
        /\ content.rows = said.rows /\ content.source = said.source /\ content.dims = said.dims
        /\ content.st = said.st /\ content.protocol = said.protocol
        /\ content.contract = said.contract
    BY <1>1 DEF Content
  <2>2. ScreenshotRows(d) = WithVersion(d, content)
    BY <1>3 DEF ScreenshotRows
  <2> HIDE DEF content
  <2>3. PassesAt(23, said) => PassesAt(24, content)
    BY <2>1 DEF PassesAt
  <2>4. ASSUME SaysAt(23, d), NEW e, Current(e) = content PROVE SaysAt(24, e)
    BY <2>1, <2>4 DEF SaysAt, RowsAt, GroupsAt, ByAt
  <2>5. Carries(24, d, WithVersion(d, content))
    BY <1>1, <2>1, <2>3, <2>4, VersionStep DEF Newest
  <2> QED BY <2>2, <2>5
<1> QED BY <1>2, <1>3

\* 028, 029: nothing but the mode.
LEMMA ModeStep ==
  ASSUME NEW n \in {28, 29}, NEW mode, mode = IF n = 28 THEN "issue" ELSE "screenshot",
         NEW d, Sound(d), Bound(n - 1, d)
  PROVE  Carries(n, d, RowsAre(d, mode))
<1> DEFINE said == Current(d)
           content == [said EXCEPT !.mode = mode]
<1>1. d.cur # 0 /\ said \in Content /\ said.st = "published" /\ mode \in {"issue", "screenshot"}
  BY VersionIs DEF Bound
<1>2. CASE said.mode = mode
  <2>1. PassesAt(n - 1, said) => PassesAt(n, said)
    BY <1>2 DEF PassesAt
  <2>2. SaysAt(n - 1, d) => SaysAt(n, d)
    BY <1>2 DEF SaysAt, RowsAt, GroupsAt, ByAt
  <2>3. Carries(n, d, d)
    BY <2>1, <2>2, NothingToDo DEF Newest
  <2> QED BY <1>2, <2>3 DEF RowsAre
<1>3. CASE said.mode # mode
  <2>1. /\ content \in Content /\ content.mode = mode /\ content.columns = said.columns
        /\ content.rows = said.rows /\ content.source = said.source /\ content.dims = said.dims
        /\ content.st = said.st /\ content.protocol = said.protocol
        /\ content.contract = said.contract
    BY <1>1 DEF Content
  <2>2. RowsAre(d, mode) = WithVersion(d, content)
    BY <1>3 DEF RowsAre
  <2> HIDE DEF content
  <2>3. PassesAt(n - 1, said) => PassesAt(n, content)
    BY <2>1 DEF PassesAt
  <2>4. ASSUME SaysAt(n - 1, d), NEW e, Current(e) = content PROVE SaysAt(n, e)
    BY <2>1, <2>4 DEF SaysAt, RowsAt, GroupsAt, ByAt
  <2>5. Carries(n, d, WithVersion(d, content))
    BY <1>1, <2>1, <2>3, <2>4, VersionStep DEF Newest
  <2> QED BY <2>2, <2>5
<1> QED BY <1>2, <1>3
\* The executions of the two stages, and nothing else of the fields.
LEMMA ExecutionsAre ==
  ASSUME NEW rows \in SectionRows
  PROVE  /\ Executions(rows) \in SectionRows
         /\ \A g \in Group : Executions(rows)[g] =
              IF g \in Core /\ rows[g] # Absent
              THEN [rows[g] EXCEPT !.exec = IF g = "facts" THEN "facts" ELSE "analysis"]
              ELSE rows[g]
         /\ \A g \in Group : rows[g] # Absent =>
              /\ Executions(rows)[g] # Absent /\ Executions(rows)[g].on = rows[g].on
              /\ Executions(rows)[g].by = rows[g].by
              /\ g \in Core => Executions(rows)[g].exec = IF g = "facts" THEN "facts" ELSE "analysis"
         /\ \A g \in Group : rows[g] = Absent => Executions(rows)[g] = Absent
<1> DEFINE how(g) == IF g = "facts" THEN "facts" ELSE "analysis"
<1>1. \A g \in Group : Executions(rows)[g] =
        IF g \in Core /\ rows[g] # Absent THEN [rows[g] EXCEPT !.exec = how(g)] ELSE rows[g]
  BY DEF Executions, Present
<1>2. \A g : how(g) \in {"ai", "analysis", "derive", "facts"}
  OBVIOUS
<1> HIDE DEF how
<1>3. ASSUME NEW g \in Group, rows[g] # Absent
      PROVE  /\ [rows[g] EXCEPT !.exec = how(g)] \in StoredField
             /\ [rows[g] EXCEPT !.exec = how(g)] # Absent
             /\ [rows[g] EXCEPT !.exec = how(g)].on = rows[g].on
             /\ [rows[g] EXCEPT !.exec = how(g)].by = rows[g].by
             /\ [rows[g] EXCEPT !.exec = how(g)].exec = how(g)
  <2>1. rows[g] \in StoredField
    BY <1>3, FieldIs
  <2>2. \A exec \in {"ai", "analysis", "derive", "facts"} :
          /\ [rows[g] EXCEPT !.exec = exec] \in StoredField
          /\ [rows[g] EXCEPT !.exec = exec] # Absent
          /\ [rows[g] EXCEPT !.exec = exec].on = rows[g].on
          /\ [rows[g] EXCEPT !.exec = exec].by = rows[g].by
          /\ [rows[g] EXCEPT !.exec = exec].exec = exec
    BY <2>1, FieldKept
  <2> QED BY <1>2, <2>2
<1>4. \A g \in Group : Executions(rows)[g] \in StoredField \cup {Absent}
  BY <1>1, <1>3 DEF SectionRows
<1>5. Executions(rows) \in SectionRows
  BY <1>4 DEF Executions, SectionRows
<1>6. \A g \in Group : rows[g] # Absent =>
              /\ Executions(rows)[g] # Absent /\ Executions(rows)[g].on = rows[g].on
              /\ Executions(rows)[g].by = rows[g].by
              /\ g \in Core => Executions(rows)[g].exec = how(g)
  BY <1>1, <1>3
<1> QED BY <1>1, <1>5, <1>6 DEF how

LEMMA Step23 ==
  ASSUME NEW d, Sound(d), Bound(22, d), ~Throws(23, d)
  PROVE  Carries(23, d, TwoStages(d))
<1> DEFINE said == Current(d)
           liveRows == Executions(d.live)
           rows == Executions(said.rows)
           e == TwoStages(d)
           content == [said EXCEPT !.rows = rows]
<1>1. /\ d.cur # 0 /\ said \in Content /\ said.st = "published" /\ said.rows \in SectionRows
      /\ CoreOn(said.rows) /\ d \in Database /\ d.live \in SectionRows
      /\ d.source \in Origin
  BY VersionIs DEF Bound, Sound, Database
<1>2. HasCore(said.rows)
  BY <1>1 DEF Throws
<1>3. /\ liveRows \in SectionRows /\ rows \in SectionRows /\ CoreOn(rows)
      /\ HasCore(d.live) => HasCore(liveRows)
  <2>1. /\ liveRows \in SectionRows /\ rows \in SectionRows
        /\ \A g \in Group : d.live[g] # Absent => liveRows[g] # Absent /\ liveRows[g].on = d.live[g].on
        /\ \A g \in Group : d.live[g] = Absent => liveRows[g] = Absent
        /\ \A g \in Group : said.rows[g] # Absent => rows[g] # Absent /\ rows[g].on = said.rows[g].on
        /\ \A g \in Group : said.rows[g] = Absent => rows[g] = Absent
    BY <1>1, ExecutionsAre
  <2> HIDE DEF liveRows, rows, said
  <2>3. CoreOn(rows)
    BY <1>1, <2>1 DEF CoreOn, Core, Group
  <2>4. HasCore(d.live) => HasCore(liveRows)
    BY <2>1 DEF HasCore, Core, Present, Group
  <2> QED BY <2>1, <2>3, <2>4
<1>4. IsStrict(rows)
  BY <1>1, <1>2, ExecutionsAre DEF IsStrict, HasCore, Core, Present, Group
<1>5. IsStrict(said.rows) => rows = said.rows
  <2> SUFFICES ASSUME IsStrict(said.rows) PROVE rows = said.rows
    OBVIOUS
  <2>1. ASSUME NEW g \in Group PROVE rows[g] = said.rows[g]
    <3>1. CASE g \in Core /\ said.rows[g] # Absent
      <4>1. said.rows[g] \in StoredField
        BY <1>1, <3>1, FieldIs
      <4>2. said.rows[g].exec = IF g = "facts" THEN "facts" ELSE "analysis"
        BY <3>1 DEF IsStrict, Core
      <4>3. rows[g] = [said.rows[g] EXCEPT !.exec = said.rows[g].exec]
        BY <1>1, <3>1, <4>2, ExecutionsAre
      <4> QED BY <4>1, <4>3 DEF StoredField
    <3>2. CASE ~(g \in Core /\ said.rows[g] # Absent)
      BY <1>1, <3>2, ExecutionsAre
    <3> QED BY <3>1, <3>2
  <2> HIDE DEF rows
  <2> QED BY <1>1, <1>3, <2>1 DEF SectionRows
<1>6. /\ content \in Content /\ content.rows = rows /\ content.st = said.st
      /\ content.source = said.source /\ content.contract = said.contract
      /\ content.dims = said.dims /\ content.protocol = said.protocol
  <2> HIDE DEF rows
  <2> QED BY <1>1, <1>3 DEF Content
<1>7. /\ Sound(e) /\ Follows(d, e) /\ e.live = liveRows /\ e.source = d.source /\ e.cur # 0
      /\ e.job = d.job /\ Current(e).rows = rows /\ Current(e).source = said.source
      /\ Current(e).dims = said.dims /\ Current(e).contract = said.contract
      /\ Current(e).protocol = said.protocol
  <2>1. [d EXCEPT !.live = liveRows] = Set(d, liveRows, d.source)
    BY <1>1 DEF Set, Database
  <2>2. CASE IsStrict(said.rows)
    <3>1. e = Set(d, liveRows, d.source)
      BY <2>1, <2>2 DEF TwoStages
    <3> HIDE DEF e, liveRows, rows, said
    <3> QED BY <1>1, <1>3, <1>5, <2>2, <3>1, SetIs DEF said
  <2>3. CASE ~IsStrict(said.rows)
    <3>1. e = Put(d, liveRows, d.source, content)
      BY <2>1, <2>3 DEF TwoStages, Put
    <3> HIDE DEF e, liveRows, rows, content
    <3> QED BY <1>1, <1>3, <1>6, <3>1, PutIs
  <2> QED BY <2>2, <2>3
<1> HIDE DEF e, content
<1>8. Bound(23, e)
  BY <1>1, <1>7, BoundIs
<1>9. Agree(d) => Agree(e)
  <2> SUFFICES ASSUME Agree(d) PROVE Agree(e)
    OBVIOUS
  <2>1. /\ d.source = said.source
        /\ \A g \in Group : IF said.rows[g] # Absent THEN d.live[g] = said.rows[g]
                            ELSE d.live[g] # Absent => ~d.live[g].on
    BY DEF Agree
  <2>2. ASSUME NEW g \in Group
        PROVE  IF rows[g] # Absent THEN liveRows[g] = rows[g] ELSE liveRows[g] # Absent => ~liveRows[g].on
    <3>1. CASE said.rows[g] # Absent
      <4>1. d.live[g] = said.rows[g]
        BY <2>1, <3>1
      <4>2. /\ liveRows[g] = IF g \in Core /\ d.live[g] # Absent
                         THEN [d.live[g] EXCEPT !.exec = IF g = "facts" THEN "facts" ELSE "analysis"]
                         ELSE d.live[g]
            /\ rows[g] = IF g \in Core /\ said.rows[g] # Absent
                         THEN [said.rows[g] EXCEPT !.exec = IF g = "facts" THEN "facts" ELSE "analysis"]
                         ELSE said.rows[g]
            /\ rows[g] # Absent
        BY <1>1, <3>1, ExecutionsAre
      <4> HIDE DEF liveRows, rows, said
      <4> QED BY <4>1, <4>2, Zenon
    <3>2. CASE said.rows[g] = Absent
      <4>1. rows[g] = Absent
        BY <1>1, <3>2, ExecutionsAre
      <4>2. d.live[g] # Absent => liveRows[g].on = d.live[g].on
        BY <1>1, ExecutionsAre
      <4>3. d.live[g] = Absent => liveRows[g] = Absent
        BY <1>1, ExecutionsAre
      <4> HIDE DEF liveRows, rows, said
      <4> QED BY <2>1, <3>2, <4>1, <4>2, <4>3
    <3> QED BY <3>1, <3>2
  <2> HIDE DEF liveRows, rows, said
  <2> QED BY <1>7, <2>1, <2>2 DEF Agree
<1>10. PassesAt(22, said) => PassesAt(23, Current(e))
  BY <1>4, <1>7 DEF PassesAt
<1>11. RowsAt(22, said.rows) => RowsAt(23, rows)
  <2>1. /\ \A g \in Group : said.rows[g] # Absent => /\ rows[g] # Absent /\ rows[g].on = said.rows[g].on
                                                     /\ rows[g].by = said.rows[g].by
        /\ \A g \in Group : said.rows[g] = Absent => rows[g] = Absent
    BY <1>1, ExecutionsAre
  <2> HIDE DEF liveRows, rows, said
  <2> QED BY <2>1 DEF RowsAt, GroupsAt, ByAt, Group
<1>12. SaysAt(22, d) => SaysAt(23, e)
  BY <1>7, <1>11 DEF SaysAt
<1> QED BY <1>3, <1>7, <1>8, <1>9, <1>10, <1>12 DEF Carries, e
\* The template of the fourth release brings the live fields back, if they
\* still have the two stages.
LEMMA Step25 ==
  ASSUME NEW d, Sound(d), Bound(24, d), ~Throws(25, d)
  PROVE  /\ Carries(25, d, ModernTemplate(d))
         /\ HasCore(d.live) => Agree(ModernTemplate(d))
<1> DEFINE said == Current(d)
           facts == LiveRow("v4", "facts", TRUE)
           whole == LiveRow("v4", "analysis", TRUE)
           core == [Bare EXCEPT !["facts"] = facts, !["quality"] = whole]
           off == Off(d.live, Group)
           liveRows == [g \in Group |-> IF g \in Core \cap Present(d.live) THEN core[g] ELSE off[g]]
           content == [said EXCEPT !.rows = core, !.source = "modern", !.contract = "modern",
                                  !.mode = "screenshot", !.columns = "modern"]
           e == ModernTemplate(d)
<1>1. /\ d.cur # 0 /\ said \in Content /\ said.st = "published" /\ d \in Database
      /\ d.live \in SectionRows
  BY VersionIs DEF Bound, Sound, Database
<1>2. /\ facts \in StoredField /\ facts # Absent /\ facts.on /\ facts.exec = "facts"
      /\ whole \in StoredField /\ whole # Absent /\ whole.on /\ whole.exec = "analysis"
      /\ whole.by = "v4"
  BY FieldMade
<1>3. e = Put(d, liveRows, "modern", content)
  <2>1. [d EXCEPT !.source = "modern", !.live = liveRows] = Set(d, liveRows, "modern")
    BY <1>1 DEF Set, Database
  <2> QED BY <2>1 DEF ModernTemplate, Put
<1> HIDE DEF facts, whole, e
<1>4. /\ core \in SectionRows /\ core["facts"] = facts /\ core["quality"] = whole
      /\ \A g \in Group \ Core : core[g] = Absent
  BY <1>2 DEF SectionRows, Bare, Core, Group
<1>5. /\ off \in SectionRows
      /\ \A g \in Group : /\ off[g] = Absent <=> d.live[g] = Absent
                          /\ d.live[g] # Absent => ~off[g].on
  BY <1>1, OffIs
<1> HIDE DEF core, off
<1>6. \A g \in Group : liveRows[g] = IF g \in Core /\ d.live[g] # Absent THEN core[g] ELSE off[g]
  BY DEF Present
<1>7. liveRows \in SectionRows
  BY <1>4, <1>5 DEF SectionRows
<1>8. /\ content \in Content /\ content.rows = core /\ content.source = "modern"
      /\ content.contract = "modern" /\ content.mode = "screenshot" /\ content.columns = "modern"
      /\ content.st = "published" /\ content.dims = said.dims /\ content.protocol = said.protocol
  <2>1. said \in Content /\ said.st = "published"
    BY <1>1
  <2> HIDE DEF said
  <2>2. [said EXCEPT !.rows = core, !.source = "modern"] \in Content
    BY <1>4, <2>1 DEF Content, Origin
  <2> QED BY <1>4, <2>1, <2>2 DEF Content, Origin
<1> HIDE DEF liveRows, content
<1>9. CoreOn(core) /\ (HasCore(d.live) => HasCore(liveRows))
  BY <1>2, <1>4, <1>5, <1>6 DEF CoreOn, HasCore, Present, Core, Group
<1>10. /\ Sound(e) /\ Follows(d, e) /\ e.live = liveRows /\ e.source = "modern"
       /\ e.cur # 0 /\ e.job = d.job /\ Current(e) = content
  <2>1. "modern" \in Origin
    BY DEF Origin
  <2> QED BY <1>1, <1>3, <1>7, <1>8, <1>9, <2>1, PutIs
<1>11. Bound(25, e)
  BY <1>1, <1>10, BoundIs
<1>12. (\A g \in Core : d.live[g] # Absent) => Agree(e)
  BY <1>2, <1>4, <1>5, <1>6, <1>8, <1>10 DEF Agree, Core, Group
<1>13. HasCore(d.live) => Agree(e)
  BY <1>12 DEF HasCore, Present
<1>14. Agree(d) => Agree(e)
  <2> SUFFICES ASSUME Agree(d) PROVE Agree(e)
    OBVIOUS
  <2>1. HasCore(said.rows)
    BY <1>1 DEF Throws
  <2>2. \A g \in Core : d.live[g] # Absent
    BY <2>1 DEF Agree, HasCore, Present, Core, Group
  <2> QED BY <1>12, <2>2
<1>15. PassesAt(24, said) => PassesAt(25, content)
  BY <1>2, <1>4, <1>8 DEF PassesAt, IsStrict, HasCore, Present, Core, Group
<1>16. SaysAt(24, d) => SaysAt(25, e)
  BY <1>2, <1>4, <1>8, <1>10 DEF SaysAt, RowsAt, GroupsAt, ByAt, Core, Group
<1> QED BY <1>9, <1>10, <1>11, <1>13, <1>14, <1>15, <1>16 DEF Carries, e
LEMMA Step26 ==
  ASSUME NEW d, Sound(d), Bound(25, d), ~Throws(26, d)
  PROVE  Carries(26, d, DerivedResults(d))
<1> DEFINE said == Current(d)
           facts == [said.rows["facts"] EXCEPT !.on = TRUE]
           whole == [said.rows["quality"] EXCEPT !.on = TRUE]
           rows == [Bare EXCEPT !["modern"] = DerivedRow, !["facts"] = facts, !["quality"] = whole]
           off == Off(d.live, Group \ Core)
           liveRows == [off EXCEPT !["modern"] = DerivedRow]
           content == [said EXCEPT !.rows = rows]
           e == DerivedResults(d)
<1>1. /\ d.cur # 0 /\ said \in Content /\ said.st = "published" /\ d \in Database
      /\ d.live \in SectionRows /\ d.source \in Origin
      /\ said.rows \in SectionRows /\ CoreOn(said.rows)
  BY VersionIs DEF Bound, Sound, Database
<1>2. said.rows["facts"] # Absent /\ said.rows["quality"] # Absent
  BY <1>1 DEF Throws, HasCore, Core, Present, Group
<1>3. /\ said.rows["facts"] \in StoredField /\ said.rows["quality"] \in StoredField
      /\ said.rows["facts"].on = TRUE /\ said.rows["quality"].on = TRUE
  <2>1. said.rows["facts"] \in StoredField /\ said.rows["quality"] \in StoredField
    BY <1>1, <1>2, FieldIs DEF Group
  <2>2. said.rows["facts"].on /\ said.rows["quality"].on
    BY <1>1, <1>2 DEF CoreOn, Core
  <2> QED BY <2>1, <2>2 DEF StoredField
<1>4. facts = said.rows["facts"] /\ whole = said.rows["quality"]
  BY <1>3 DEF StoredField
<1>5. DerivedRow \in StoredField /\ DerivedRow # Absent /\ DerivedRow.on
  BY FieldMade DEF DerivedRow
<1>6. e = Put(d, liveRows, d.source, content)
  <2>1. [d EXCEPT !.live = liveRows] = Set(d, liveRows, d.source)
    BY <1>1 DEF Set, Database
  <2> QED BY <2>1 DEF DerivedResults, Put
<1> HIDE DEF facts, whole, e
<1>7. /\ rows \in SectionRows /\ rows["facts"] = said.rows["facts"]
      /\ rows["quality"] = said.rows["quality"] /\ rows["modern"] = DerivedRow
      /\ \A g \in Group \ {"facts", "quality", "modern"} : rows[g] = Absent
  BY <1>3, <1>4, <1>5 DEF SectionRows, Bare, Group
<1>8. /\ off \in SectionRows
      /\ \A g \in Core : off[g] = d.live[g]
      /\ \A g \in Group \ Core : d.live[g] # Absent => ~off[g].on
      /\ \A g \in Group : off[g] = Absent <=> d.live[g] = Absent
  BY <1>1, OffIs DEF Group, Core
<1> HIDE DEF rows, off
<1>9. /\ liveRows \in SectionRows /\ liveRows["modern"] = DerivedRow
      /\ \A g \in Group \ {"modern"} : liveRows[g] = off[g]
  BY <1>5, <1>8 DEF SectionRows, Group
<1>10. /\ content \in Content /\ content.rows = rows /\ content.source = said.source
       /\ content.contract = said.contract /\ content.mode = said.mode /\ content.columns = said.columns
       /\ content.st = "published" /\ content.dims = said.dims /\ content.protocol = said.protocol
  BY <1>1, <1>7 DEF Content
<1> HIDE DEF liveRows, content, said
<1>11. CoreOn(rows)
  BY <1>3, <1>7 DEF CoreOn, Core
<1>12. HasCore(d.live) => HasCore(liveRows)
  BY <1>1, <1>8, <1>9 DEF CoreOn, HasCore, Present, Core, Group
<1>13. /\ Sound(e) /\ Follows(d, e) /\ e.live = liveRows /\ e.source = d.source
       /\ e.cur # 0 /\ e.job = d.job /\ Current(e) = content
  BY <1>1, <1>6, <1>9, <1>10, <1>11, <1>12, PutIs
<1>14. Bound(26, e)
  BY <1>1, <1>13 DEF Bound
<1>15. Agree(d) => Agree(e)
  <2> SUFFICES ASSUME Agree(d) PROVE Agree(e)
    OBVIOUS
  <2>1. /\ d.source = said.source
        /\ \A g \in Core : d.live[g] = said.rows[g]
    BY <1>2 DEF Agree, said, Core, Group
  <2>2. ASSUME NEW g \in Group
        PROVE  IF rows[g] # Absent THEN liveRows[g] = rows[g] ELSE liveRows[g] # Absent => ~liveRows[g].on
    BY <1>2, <1>5, <1>7, <1>8, <1>9, <2>1 DEF Core, Group
  <2> QED BY <1>10, <1>13, <2>1, <2>2 DEF Agree
<1>16. PassesAt(25, said) => PassesAt(26, content)
  BY <1>2, <1>7, <1>10 DEF PassesAt, IsStrict, HasCore, Present, Core, Group
<1>17. SaysAt(25, d) => SaysAt(26, e)
  BY <1>2, <1>3, <1>5, <1>7, <1>10, <1>13 DEF SaysAt, RowsAt, GroupsAt, ByAt, Core, Group, said
<1> QED BY <1>12, <1>13, <1>14, <1>15, <1>16, <1>17 DEF Carries, e, said

LEMMA CoreFromIs ==
  ASSUME NEW liveRows \in SectionRows, NEW rows \in SectionRows
  PROVE  /\ CoreFrom(liveRows, rows) \in SectionRows
         /\ HasCore(liveRows) => HasCore(CoreFrom(liveRows, rows))
         /\ \A g \in Group : CoreFrom(liveRows, rows)[g] =
              IF g \in Core /\ liveRows[g] # Absent /\ rows[g] # Absent THEN rows[g] ELSE liveRows[g]
<1> DEFINE made == CoreFrom(liveRows, rows)
<1>1. \A g \in Group : made[g] =
              IF g \in Core /\ liveRows[g] # Absent /\ rows[g] # Absent THEN rows[g] ELSE liveRows[g]
  BY DEF CoreFrom, Present
<1>2. made \in SectionRows
  BY DEF CoreFrom, SectionRows
<1> HIDE DEF made
<1>3. HasCore(liveRows) => HasCore(made)
  BY <1>1 DEF CoreOn, HasCore, Core, Group, Present
<1> QED BY <1>1, <1>2, <1>3 DEF made

LEMMA Step27 ==
  ASSUME NEW d, Sound(d), Bound(26, d)
  PROVE  Carries(27, d, LiveCoreSync(d))
<1> DEFINE said == Current(d)
           liveRows == CoreFrom(d.live, said.rows)
           e == LiveCoreSync(d)
<1>1. /\ d.cur # 0 /\ d \in Database /\ d.live \in SectionRows
      /\ d.source \in Origin /\ said.rows \in SectionRows
  BY VersionIs DEF Bound, Sound, Database
<1>2. /\ liveRows \in SectionRows /\ (HasCore(d.live) => HasCore(liveRows))
      /\ \A g \in Group : liveRows[g] =
           IF g \in Core /\ d.live[g] # Absent /\ said.rows[g] # Absent THEN said.rows[g] ELSE d.live[g]
  BY <1>1, CoreFromIs
<1>3. e = Set(d, liveRows, d.source)
  BY <1>1 DEF LiveCoreSync, Set, Database
<1> HIDE DEF e, liveRows
<1>4. /\ Sound(e) /\ Follows(d, e) /\ e.live = liveRows /\ e.source = d.source
      /\ e.cur = d.cur /\ e.job = d.job /\ Current(e) = said
  BY <1>1, <1>2, <1>3, SetIs
<1>5. Bound(27, e)
  BY <1>1, <1>4 DEF Bound
<1>6. Agree(d) => Agree(e)
  BY <1>2, <1>4 DEF Agree
<1>7. PassesAt(26, said) => PassesAt(27, said)
  BY DEF PassesAt
<1>8. SaysAt(26, d) => SaysAt(27, e)
  BY <1>4 DEF SaysAt, RowsAt, GroupsAt, ByAt
<1> QED BY <1>2, <1>4, <1>5, <1>6, <1>7, <1>8 DEF Carries, e

LEMMA Step30 ==
  ASSUME NEW d, Sound(d), Bound(29, d), ~Throws(30, d)
  PROVE  Carries(30, d, ProtocolV2(d))
<1> DEFINE said == Current(d)
           facts == [said.rows["facts"] EXCEPT !.by = "v2"]
           whole == [said.rows["quality"] EXCEPT !.by = "v2"]
           rows == [said.rows EXCEPT !["facts"] = facts, !["quality"] = whole]
           liveRows == CoreFrom(d.live, rows)
           content == [said EXCEPT !.rows = rows, !.protocol = "v2"]
           e == ProtocolV2(d)
<1>1. /\ d.cur # 0 /\ said \in Content /\ said.st = "published" /\ d \in Database
      /\ d.live \in SectionRows /\ d.source \in Origin
      /\ said.rows \in SectionRows /\ CoreOn(said.rows) /\ said.source \in Origin
  <2>1. /\ d.cur # 0 /\ said \in Content /\ said.st = "published" /\ d \in Database
        /\ said.rows \in SectionRows /\ CoreOn(said.rows)
    BY VersionIs DEF Bound, Sound
  <2> HIDE DEF said
  <2> QED BY <2>1 DEF Database, Content
<1>2. CASE said.protocol = "v2"
  <2>1. e = d
    BY <1>2 DEF ProtocolV2
  <2>2. PassesAt(29, said) => PassesAt(30, said)
    BY DEF PassesAt
  <2>3. SaysAt(29, d) => SaysAt(30, d)
    BY <1>2 DEF SaysAt
  <2>4. Carries(30, d, d)
    BY <2>2, <2>3, NothingToDo DEF Newest
  <2> QED BY <2>1, <2>4
<1>3. CASE said.protocol # "v2"
  <2>1. said.rows["facts"] # Absent /\ said.rows["quality"] # Absent
    BY <1>1, <1>3 DEF Throws, HasCore, Core, Present, Group
  <2>2. said.rows["facts"] \in StoredField /\ said.rows["quality"] \in StoredField
    BY <1>1, <2>1, FieldIs DEF Group
  <2>3. /\ facts \in StoredField /\ facts # Absent /\ facts.on = said.rows["facts"].on
        /\ facts.exec = said.rows["facts"].exec
        /\ whole \in StoredField /\ whole # Absent /\ whole.on = said.rows["quality"].on
        /\ whole.exec = said.rows["quality"].exec /\ whole.by = "v2"
    BY <2>2, FieldKept
  <2>4. e = Put(d, liveRows, said.source, content)
    <3>1. [d EXCEPT !.source = said.source, !.live = liveRows] = Set(d, liveRows, said.source)
      BY <1>1 DEF Set, Database
    <3>2. rows = [said.rows EXCEPT !["facts"].by = "v2", !["quality"].by = "v2"]
      BY <1>1 DEF SectionRows, Group
    <3> HIDE DEF rows
    <3> QED BY <1>3, <3>1, <3>2 DEF ProtocolV2, Put
  <2> HIDE DEF facts, whole, e
  <2>5. /\ rows \in SectionRows /\ rows["facts"] = facts /\ rows["quality"] = whole
        /\ \A g \in Group \ Core : rows[g] = said.rows[g]
    BY <1>1, <2>3 DEF SectionRows, Group, Core
  <2> HIDE DEF rows
  <2>6. CoreOn(rows)
    BY <1>1, <2>1, <2>3, <2>5 DEF CoreOn, Core
  <2>7. /\ liveRows \in SectionRows /\ (HasCore(d.live) => HasCore(liveRows))
        /\ \A g \in Group : liveRows[g] =
             IF g \in Core /\ d.live[g] # Absent /\ rows[g] # Absent THEN rows[g] ELSE d.live[g]
    BY <1>1, <2>5, <2>6, CoreFromIs
  <2>8. /\ content \in Content /\ content.rows = rows /\ content.source = said.source
        /\ content.contract = said.contract /\ content.mode = said.mode
        /\ content.columns = said.columns /\ content.st = "published"
        /\ content.dims = said.dims /\ content.protocol = "v2"
    BY <1>1, <2>5 DEF Content
  <2> HIDE DEF liveRows, content, said
  <2>9. /\ Sound(e) /\ Follows(d, e) /\ e.live = liveRows /\ e.source = said.source
        /\ e.cur # 0 /\ e.job = d.job /\ Current(e) = content
    <3>1. d.cur # 0 /\ liveRows \in SectionRows /\ said.source \in Origin
      BY <1>1, <2>7
    <3>2. content \in Content /\ CoreOn(content.rows) /\ content.st = "published"
      BY <2>6, <2>8
    <3> QED BY <2>4, <3>1, <3>2, PutIs
  <2>10. Bound(30, e)
    BY <1>1, <2>9, BoundIs
  <2>11. Agree(d) => Agree(e)
    <3> SUFFICES ASSUME Agree(d) PROVE Agree(e)
      OBVIOUS
    <3>1. \A g \in Group : IF said.rows[g] # Absent THEN d.live[g] = said.rows[g]
                           ELSE d.live[g] # Absent => ~d.live[g].on
      BY DEF Agree, said
    <3>2. ASSUME NEW g \in Group
          PROVE  IF rows[g] # Absent THEN liveRows[g] = rows[g] ELSE liveRows[g] # Absent => ~liveRows[g].on
      BY <2>1, <2>3, <2>5, <2>7, <3>1 DEF Core, Group
    <3> QED BY <2>8, <2>9, <3>2 DEF Agree
  <2>12. PassesAt(29, said) => PassesAt(30, content)
    BY <2>1, <2>3, <2>5, <2>8 DEF PassesAt, IsStrict, HasCore, Present, Core, Group
  <2>13. SaysAt(29, d) => SaysAt(30, e)
    BY <2>1, <2>3, <2>5, <2>8, <2>9 DEF SaysAt, RowsAt, GroupsAt, ByAt, Core, Group, said
  <2> QED BY <2>7, <2>9, <2>10, <2>11, <2>12, <2>13 DEF Carries, e, said
<1> QED BY <1>2, <1>3

\* Each step of the schema, from schema n - 1.
LEMMA StepIs ==
  ASSUME NEW n \in 1 .. Newest, NEW r \in n .. Newest, NEW d, Sound(d), Bound(n - 1, d),
         ~Throws(n, d)
  PROVE  /\ Carries(n, d, Step(n, d, r))
         /\ n = 18 \/ (n = 25 /\ HasCore(d.live)) => Agree(Step(n, d, r))
<1>1. CASE n \in {9, 10, 11, 12, 13, 18, 19, 22}
  <2>1. CASE n = 9
    BY <2>1, Step9 DEF Step
  <2>2. CASE n = 10
    BY <2>2, Step10 DEF Step
  <2>3. CASE n \in {11, 12}
    <3>1. Step(n, d, r) = OptimizedPrompts(d)
      BY <2>3 DEF Step
    <3> QED BY <2>3, <3>1, Step11
  <2>4. CASE n = 13
    BY <2>4, Step13 DEF Step
  <2>5. CASE n = 18
    BY <2>5, Step18 DEF Step
  <2>6. CASE n = 19
    BY <2>6, Step19 DEF Step
  <2>7. CASE n = 22
    BY <2>7, Step22 DEF Step
  <2> QED BY <1>1, <2>1, <2>2, <2>3, <2>4, <2>5, <2>6, <2>7
<1>2. CASE n \in {23, 24, 25, 26, 27, 28, 29, 30}
  <2>1. CASE n = 23
    BY <2>1, Step23 DEF Step
  <2>2. CASE n = 24
    BY <2>2, Step24 DEF Step
  <2>3. CASE n = 25
    BY <2>3, Step25 DEF Step
  <2>4. CASE n = 26
    BY <2>4, Step26 DEF Step
  <2>5. CASE n = 27
    BY <2>5, Step27 DEF Step
  <2>6. CASE n = 28
    <3>1. Step(n, d, r) = RowsAre(d, "issue")
      BY <2>6 DEF Step, IssueRows
    <3> QED BY <2>6, <3>1, ModeStep
  <2>7. CASE n = 29
    <3>1. Step(n, d, r) = RowsAre(d, "screenshot")
      BY <2>7 DEF Step, ScreenshotRowsAgain
    <3> QED BY <2>7, <3>1, ModeStep
  <2>8. CASE n = 30
    BY <2>8, Step30 DEF Step
  <2> QED BY <1>2, <2>1, <2>2, <2>3, <2>4, <2>5, <2>6, <2>7, <2>8
<1>3. CASE n \notin {9, 10, 11, 12, 13, 18, 19, 22, 23, 24, 25, 26, 27, 28, 29, 30}
  BY <1>3, NoStep
<1> QED BY <1>1, <1>2, <1>3
----------------------------------------------------------------------------
(* A start goes through the steps. *)

\* A set of numbers with 0 and each successor of its elements has them all.
LEMMA AllNumbers ==
  ASSUME NEW T \in SUBSET Nat, 0 \in T, \A n \in T : n + 1 \in T
  PROVE  T = Nat
<1> SUFFICES ASSUME Nat \ T # {} PROVE FALSE
  OBVIOUS
<1>1. PICK x \in Nat \ T : \A y \in Nat \ T : ~(<<y, x>> \in OpToRel(<, Nat))
  BY WFMin, NatLessThanWellFounded, Zenon
<1>2. x \in Nat /\ x \notin T /\ \A y \in Nat \ T : ~(y < x)
  BY <1>1 DEF OpToRel
<1>3. x # 0 /\ x - 1 \in Nat
  BY <1>2
<1>4. x - 1 \in T
  BY <1>2, <1>3
<1>5. (x - 1) + 1 \in T
  BY <1>4
<1> QED BY <1>2, <1>5

\* The databases that a start goes through.
Onward(n, e, r) == IF e = Refused \/ Throws(n, e) THEN Refused ELSE Step(n, e, r)
Run(d, r) == CHOOSE f : f = [n \in d.schema .. r |->
                               IF n = d.schema \/ ~d.section THEN d ELSE Onward(n, f[n - 1], r)]

LEMMA MigratedIs ==
  ASSUME NEW d, NEW r
  PROVE  Migrated(d, r) = IF Run(d, r)[r] = Refused THEN Refused
                          ELSE [Run(d, r)[r] EXCEPT !.schema = r]
BY DEF Migrated, Run, Onward

LEMMA RunExists ==
  ASSUME NEW d, NEW r \in Nat, d.schema \in Nat, d.schema <= r
  PROVE  \E f : f = [n \in d.schema .. r |->
                       IF n = d.schema \/ ~d.section THEN d ELSE Onward(n, f[n - 1], r)]
<1> DEFINE lo == d.schema
           Upto(k) == \E f : f = [n \in lo .. lo + k |->
                                    IF n = lo \/ ~d.section THEN d ELSE Onward(n, f[n - 1], r)]
           T == {k \in Nat : Upto(k)}
<1>0. lo \in Nat
  OBVIOUS
<1> HIDE DEF lo
<1>1. 0 \in T
  <2> DEFINE f == [n \in lo .. lo |-> d]
  <2>1. f = [n \in lo .. lo + 0 |-> IF n = lo \/ ~d.section THEN d ELSE Onward(n, f[n - 1], r)]
    BY <1>0
  <2> HIDE DEF f
  <2> QED BY <2>1
<1>2. ASSUME NEW k \in T PROVE k + 1 \in T
  <2>1. PICK f : f = [n \in lo .. lo + k |->
                        IF n = lo \/ ~d.section THEN d ELSE Onward(n, f[n - 1], r)]
    OBVIOUS
  <2> DEFINE g == [n \in lo .. lo + (k + 1) |->
                     IF n = lo \/ ~d.section THEN d ELSE Onward(n, f[n - 1], r)]
  <2>2. \A n \in lo .. lo + k : g[n] = f[n]
    BY <1>0, <2>1
  <2>3. \A n \in lo .. lo + (k + 1) : n # lo => n - 1 \in lo .. lo + k
    BY <1>0
  <2>4. \A n \in lo .. lo + (k + 1) : n # lo => g[n - 1] = f[n - 1]
    BY <2>2, <2>3
  <2>5. \A n \in lo .. lo + (k + 1) :
          g[n] = IF n = lo \/ ~d.section THEN d ELSE Onward(n, g[n - 1], r)
    BY <2>4
  <2>6. g = [n \in lo .. lo + (k + 1) |->
               IF n = lo \/ ~d.section THEN d ELSE Onward(n, g[n - 1], r)]
    BY <2>5
  <2>7. Upto(k + 1)
    <3> HIDE DEF g
    <3> QED BY <2>6
  <2> HIDE DEF Upto
  <2> QED BY <2>7
<1> HIDE DEF Upto
<1>3. T \in SUBSET Nat
  OBVIOUS
<1> HIDE DEF T
<1>4. T = Nat
  BY <1>1, <1>2, <1>3, AllNumbers
<1>5. r - lo \in T /\ lo + (r - lo) = r
  BY <1>0, <1>4 DEF lo
<1>6. Upto(r - lo)
  BY <1>5 DEF T
<1> QED BY <1>5, <1>6 DEF Upto, lo

LEMMA RunIs ==
  ASSUME NEW d, NEW r \in Nat, d.schema \in Nat, d.schema <= r
  PROVE  /\ Run(d, r)[d.schema] = d
         /\ \A n \in d.schema .. r : ~d.section => Run(d, r)[n] = d
         /\ \A n \in d.schema .. r : n # d.schema /\ d.section =>
              Run(d, r)[n] = Onward(n, Run(d, r)[n - 1], r)
<1>1. Run(d, r) = [n \in d.schema .. r |->
                     IF n = d.schema \/ ~d.section THEN d ELSE Onward(n, Run(d, r)[n - 1], r)]
  BY RunExists DEF Run
<1>2. d.schema \in d.schema .. r
  OBVIOUS
<1> QED BY <1>1, <1>2

\* Step 025 brings edited live fields back, if they have the two stages.
StillEdited(touched, d, n) == touched /\ ~(d.schema < 25 /\ n >= 25 /\ HasCore(d.live))

\* How a start that began on d stands after step n.
StandsAfter(n, d, e, touched, picked, untouched) ==
  e # Refused => /\ Sound(e) /\ Follows(d, e)
                 /\ Standing(n, e, StillEdited(touched, d, n), picked, untouched)
                 /\ HasCore(d.live) => HasCore(e.live)

LEMMA GoesOn ==
  ASSUME NEW d, Sound(d), NEW n \in 1 .. Newest, NEW r \in n .. Newest, NEW e, e # Refused,
         NEW touched \in BOOLEAN, NEW picked \in BOOLEAN, NEW untouched \in BOOLEAN,
         d.schema \in Nat, d.schema < n,
         StandsAfter(n - 1, d, e, touched, picked, untouched), ~Throws(n, e)
  PROVE  StandsAfter(n, d, Step(n, e, r), touched, picked, untouched)
<1> DEFINE s == Step(n, e, r)
           E(m) == StillEdited(touched, d, m)
<1>1. /\ Sound(e) /\ Follows(d, e) /\ Standing(n - 1, e, E(n - 1), picked, untouched)
      /\ HasCore(d.live) => HasCore(e.live)
  BY DEF StandsAfter
<1>2. /\ Carries(n, e, s)
      /\ n = 18 \/ (n = 25 /\ HasCore(e.live)) => Agree(s)
  BY <1>1, StepIs DEF Standing
<1> HIDE DEF s
<1>3. Sound(s) /\ Follows(d, s)
  BY <1>1, <1>2, FollowsOn DEF Carries, Follows
<1>4. HasCore(d.live) => HasCore(s.live)
  BY <1>1, <1>2 DEF Carries
<1>5. Bound(n, s)
  BY <1>2 DEF Carries
<1>6. (n >= 18 /\ ~E(n)) => Agree(s)
  <2>1. n > 18 /\ ~E(n - 1) => Agree(s)
    BY <1>1, <1>2 DEF Standing, Carries
  <2>2. E(n - 1) /\ ~E(n) => n = 25 /\ HasCore(d.live)
    BY DEF StillEdited
  <2> HIDE DEF E
  <2> QED BY <1>1, <1>2, <2>1, <2>2
<1>7. (n >= 18 /\ ~picked) => PassesAt(n, Current(s))
  <2>1. CASE n = 18
    BY <2>1 DEF PassesAt
  <2>2. CASE n # 18
    BY <1>1, <1>2, <2>2 DEF Standing, Carries
  <2> QED BY <2>1, <2>2
<1>8. untouched => SaysAt(n, s)
  BY <1>1, <1>2 DEF Standing, Carries
<1>9. Standing(n, s, E(n), picked, untouched)
  BY <1>5, <1>6, <1>7, <1>8 DEF Standing
<1> QED BY <1>3, <1>4, <1>9 DEF StandsAfter, s

LEMMA RunStands ==
  ASSUME NEW d, Sound(d), d.section, NEW r \in 0 .. Newest, d.schema \in Nat, d.schema <= r,
         NEW touched \in BOOLEAN, NEW picked \in BOOLEAN, NEW untouched \in BOOLEAN,
         Standing(d.schema, d, touched, picked, untouched)
  PROVE  StandsAfter(r, d, Run(d, r)[r], touched, picked, untouched)
<1> DEFINE lo == d.schema
           P(n) == StandsAfter(n, d, Run(d, r)[n], touched, picked, untouched)
           T == {k \in Nat : lo + k <= r => P(lo + k)}
<1>0. lo \in Nat /\ lo <= r /\ r \in Nat /\ r <= Newest /\ Newest \in Nat
  BY DEF Newest
<1>1. P(lo)
  <2>1. Run(d, r)[lo] = d
    BY <1>0, RunIs
  <2>2. Follows(d, d)
    BY DEF Follows, Keeps, Sound, Database
  <2>3. Standing(lo, d, StillEdited(touched, d, lo), picked, untouched)
    BY DEF Standing, StillEdited
  <2> QED BY <2>1, <2>2, <2>3 DEF StandsAfter
<1>2. ASSUME NEW n \in Nat, lo <= n, n + 1 <= r, P(n) PROVE P(n + 1)
  <2>1. n + 1 \in 1 .. Newest /\ r \in (n + 1) .. Newest /\ lo < n + 1 /\ n + 1 \in lo .. r
        /\ (n + 1) - 1 = n /\ n + 1 # lo
    BY <1>0, <1>2
  <2>2. Run(d, r)[n + 1] = Onward(n + 1, Run(d, r)[(n + 1) - 1], r)
    BY <1>0, <2>1, RunIs
  <2>3. Run(d, r)[n + 1] = Onward(n + 1, Run(d, r)[n], r)
    BY <2>1, <2>2
  <2> DEFINE e == Run(d, r)[n]
  <2>4. CASE e = Refused \/ Throws(n + 1, e)
    BY <2>3, <2>4 DEF Onward, StandsAfter
  <2>5. CASE ~(e = Refused \/ Throws(n + 1, e))
    <3>1. Run(d, r)[n + 1] = Step(n + 1, e, r)
      BY <2>3, <2>5 DEF Onward
    <3>2. StandsAfter((n + 1) - 1, d, e, touched, picked, untouched)
      BY <1>2, <2>1
    <3>3. StandsAfter(n + 1, d, Step(n + 1, e, r), touched, picked, untouched)
      <4> HIDE DEF e
      <4> QED BY <1>0, <2>1, <2>5, <3>2, GoesOn
    <3> QED BY <3>1, <3>3
  <2> QED BY <2>4, <2>5
<1> HIDE DEF P, lo
<1>3. 0 \in T
  BY <1>0, <1>1
<1>4. ASSUME NEW k \in T PROVE k + 1 \in T
  <2> SUFFICES ASSUME lo + (k + 1) <= r PROVE P(lo + (k + 1))
    OBVIOUS
  <2>1. lo + k \in Nat /\ lo <= lo + k /\ (lo + k) + 1 <= r /\ lo + k <= r
        /\ (lo + k) + 1 = lo + (k + 1)
    BY <1>0
  <2>2. P((lo + k) + 1)
    BY <1>2, <2>1
  <2> QED BY <2>1, <2>2
<1>5. T \in SUBSET Nat
  OBVIOUS
<1> HIDE DEF T
<1>6. r - lo \in T
  BY <1>0, <1>3, <1>4, <1>5, AllNumbers
<1>7. lo + (r - lo) = r
  BY <1>0
<1>8. P(r)
  BY <1>0, <1>6, <1>7 DEF T
<1> QED BY <1>8 DEF P
----------------------------------------------------------------------------
(* The steps of the program. *)

\* The same database but for its schema, its jobs and its results.
Alike(d, e) == /\ e.section = d.section /\ e.live = d.live /\ e.source = d.source
               /\ e.versions = d.versions /\ e.cur = d.cur

LEMMA AlikeStands ==
  ASSUME NEW d, Sound(d), NEW e \in Database, Alike(d, e)
  PROVE  /\ Sound(e) /\ Current(e) = Current(d)
         /\ \A n \in Nat, touched, picked, untouched \in BOOLEAN :
              Standing(n, d, touched, picked, untouched) /\ Bound(n, e)
                => Standing(n, e, touched, picked, untouched)
<1>1. Current(e) = Current(d)
  BY DEF Alike, Current
<1>2. Sound(e)
  BY <1>1 DEF Sound, Alike
<1>3. Agree(d) => Agree(e)
  BY <1>1 DEF Agree, Alike
<1>4. \A n \in Nat : SaysAt(n, d) => SaysAt(n, e)
  BY <1>1 DEF SaysAt, Alike
<1> QED BY <1>1, <1>2, <1>3, <1>4 DEF Standing

\* What no step takes away.
Lasts(d, e) ==
  /\ SubSeq(e.versions, 1, Len(d.versions)) = d.versions
  /\ \A t \in Task : d.job[t] \notin {Absent, 0} => e.job[t] = d.job[t]
  /\ d.schema >= 18 => d.results \subseteq e.results

LEMMA PrefixIs ==
  ASSUME NEW v \in Seq(Content), NEW w \in Seq(Content), Len(v) <= Len(w),
         \A i \in DOMAIN v : w[i] = v[i]
  PROVE  SubSeq(w, 1, Len(v)) = v
<1>1. Len(v) \in Nat /\ DOMAIN v = 1 .. Len(v) /\ DOMAIN w = 1 .. Len(w)
  OBVIOUS
<1>2. SubSeq(w, 1, Len(v)) \in Seq(Content) /\ Len(SubSeq(w, 1, Len(v))) = Len(v)
  BY <1>1
<1>3. \A i \in 1 .. Len(v) : SubSeq(w, 1, Len(v))[i] = w[i]
  BY <1>1
<1> QED BY <1>1, <1>2, <1>3

LEMMA KeepsLasts ==
  ASSUME NEW d, NEW e, Sound(d), Sound(e), Keeps(d, e)
  PROVE  Lasts(d, e)
<1>1. d.versions \in Seq(Content) /\ e.versions \in Seq(Content)
  BY DEF Sound, Database
<1>2. SubSeq(e.versions, 1, Len(d.versions)) = d.versions
  BY <1>1, PrefixIs DEF Keeps
<1> QED BY <1>2 DEF Lasts, Keeps

\* What no step of an upgrade or of the operator's does.
Unharmed ==
  /\ (store.cur # 0 /\ store.schema = store'.schema /\ own' = own /\ ~chosen)
       => Current(store') = Current(store)
  /\ Lasts(store, store')

LEMMA Same ==
  ASSUME UpInv, store' = store
  PROVE  Unharmed
<1>1. Keeps(store, store)
  BY DEF UpInv, UpTypeOK, Sound, Database, Keeps
<1>2. Lasts(store, store')
  BY <1>1, KeepsLasts DEF UpInv, UpTypeOK
<1> QED BY <1>2 DEF Unharmed

LEMMA StartStep ==
  ASSUME UpInv, NEW r \in Releases, Start(r)
  PROVE  UpInv' /\ Unharmed
<1>1. r \in 0 .. Newest
  BY UpgradeAssumption DEF Newest
<1>2. /\ phase = "down" /\ r >= store.schema /\ (store.section \/ r = Newest)
      /\ phase' = "migrate" /\ release' = r /\ starts' = starts + 1
      /\ store' = store /\ fresh' = fresh /\ editing' = editing /\ chosen' = chosen /\ own' = own
  BY DEF Start
<1>3. UpTypeOK'
  BY <1>1, <1>2 DEF UpInv, UpTypeOK
<1>4. Started'
  BY <1>1, <1>2 DEF UpInv, UpTypeOK, Started
<1>5. UpInv'
  BY <1>2, <1>3, <1>4 DEF UpInv
<1> QED BY <1>2, <1>5, Same

LEMMA StopStep ==
  ASSUME UpInv, Stop
  PROVE  UpInv' /\ Unharmed
<1>1. /\ phase' = "down" /\ release' = release /\ starts' = starts
      /\ store' = store /\ fresh' = fresh /\ editing' = editing /\ chosen' = chosen /\ own' = own
  BY DEF Stop
<1>2. UpTypeOK' /\ Started'
  BY <1>1 DEF UpInv, UpTypeOK, Started
<1>3. UpInv'
  BY <1>1, <1>2 DEF UpInv
<1> QED BY <1>1, <1>3, Same

LEMMA MigrateStep ==
  ASSUME UpInv, Migrate
  PROVE  UpInv' /\ Unharmed
<1> DEFINE d == store
           r == release
           e == Run(d, r)[r]
           s == [e EXCEPT !.schema = r]
           untouched == own = 0 /\ ~fresh
<1>1. /\ Sound(d) /\ d.schema \in Nat /\ d.schema <= r /\ r \in 0 .. Newest /\ r \in Nat
      /\ editing \in BOOLEAN /\ chosen \in BOOLEAN /\ fresh \in BOOLEAN /\ own \in Nat
      /\ phase = "migrate"
  BY DEF UpInv, UpTypeOK, Started, Migrate, Newest
<1>2. /\ release' = release /\ fresh' = fresh /\ chosen' = chosen /\ own' = own /\ starts' = starts
  BY DEF Migrate
<1>3. CASE Migrated(d, r) = Refused
  <2>1. phase' = "down" /\ store' = store /\ editing' = editing
    BY <1>3 DEF Migrate
  <2>2. UpTypeOK' /\ Started'
    BY <1>2, <2>1 DEF UpInv, UpTypeOK, Started
  <2>3. UpInv'
    BY <1>2, <2>1, <2>2 DEF UpInv
  <2> QED BY <2>1, <2>3, Same
<1>4. CASE Migrated(d, r) # Refused
  <2>1. /\ phase' = "reconcile" /\ store' = Migrated(d, r)
        /\ editing' = (editing /\ ~(d.schema < 25 /\ r >= 25 /\ HasCore(d.live)))
    BY <1>4 DEF Migrate
  <2>2. e # Refused /\ store' = s
    BY <1>4, <2>1, MigratedIs
  <2>3. editing' = StillEdited(editing, d, r)
    BY <2>1 DEF StillEdited
  <2>4. CASE ~d.section
    <3>1. e = d
      BY <1>1, <2>4, RunIs
    <3>2. d \in Database
      BY <1>1 DEF Sound
    <3> HIDE DEF e
    <3>3. /\ s \in Database /\ s.schema = r /\ s.job = d.job /\ s.results = d.results
          /\ Alike(d, s)
      BY <1>1, <3>1, <3>2 DEF Database, Alike
    <3> HIDE DEF s
    <3>4. Sound(s)
      BY <1>1, <3>3, AlikeStands
    <3>5. Keeps(d, s)
      BY <3>2, <3>3 DEF Keeps, Alike, Database
    <3>6. Started'
      <4>1. r = Newest /\ d.cur = 0 /\ ~fresh
        BY <1>1, <2>4 DEF UpInv, Started
      <4> QED BY <1>2, <2>1, <2>2, <2>4, <3>3, <4>1 DEF Started, Alike
    <3>7. UpTypeOK'
      BY <1>1, <1>2, <2>1, <2>2, <2>3, <3>3, <3>4 DEF UpTypeOK, UpInv, StillEdited
    <3>8. UpInv'
      <4>1. ~store'.section /\ ~fresh'
        BY <1>2, <2>2, <2>4, <3>3 DEF Alike, UpInv, Started
      <4> QED BY <3>6, <3>7, <4>1 DEF UpInv
    <3>9. Unharmed
      <4>1. d.cur = 0
        BY <2>4 DEF UpInv, Started
      <4> QED BY <1>1, <2>2, <3>4, <3>5, <4>1, KeepsLasts DEF Unharmed
    <3> QED BY <3>8, <3>9
  <2>5. CASE d.section
    <3>1. Standing(d.schema, d, editing, chosen, untouched)
      BY <2>5 DEF UpInv
    <3>2. StandsAfter(r, d, e, editing, chosen, untouched)
      <4>1. untouched \in BOOLEAN
        OBVIOUS
      <4> HIDE DEF untouched, e
      <4> QED BY <1>1, <2>5, <3>1, <4>1, RunStands DEF e
    <3>3. Sound(e) /\ Follows(d, e) /\ Standing(r, e, editing', chosen, untouched)
      BY <2>2, <2>3, <3>2 DEF StandsAfter
    <3>4. d.schema = r => e = d
      BY <1>1, RunIs
    <3> HIDE DEF e
    <3>5. e \in Database /\ e.section
      BY <2>5, <3>3 DEF Sound, Follows
    <3>6. /\ s \in Database /\ s.schema = r /\ s.job = e.job /\ s.results = e.results
          /\ Alike(e, s)
      BY <1>1, <3>5 DEF Database, Alike
    <3> HIDE DEF s, untouched
    <3>7. Bound(r, s)
      BY <3>3, <3>6 DEF Standing, Bound, Alike
    <3>8. Sound(s) /\ Current(s) = Current(e) /\ Standing(r, s, editing', chosen, untouched)
      <4>1. editing' \in BOOLEAN /\ untouched \in BOOLEAN
        BY <2>1, <1>1 DEF untouched
      <4> QED BY <1>1, <3>3, <3>6, <3>7, <4>1, AlikeStands
    <3>9. Keeps(d, s)
      BY <3>3, <3>6 DEF Follows, Keeps, Alike
    <3>10. UpTypeOK'
      BY <1>1, <1>2, <2>1, <2>2, <3>6, <3>8 DEF UpTypeOK, UpInv
    <3>11. Started'
      <4>1. fresh => r = Newest
        BY <1>1 DEF UpInv, UpTypeOK, Started, Newest
      <4> QED BY <1>2, <2>1, <2>2, <3>5, <3>6, <4>1 DEF Started, Alike
    <3>12. (fresh' /\ own' = 0) => Says(Current(store')) = Intended(24)
      <4> SUFFICES ASSUME fresh, own = 0 PROVE Says(Current(s)) = Intended(24)
        BY <1>2, <2>2
      <4>1. d.schema = r
        BY <1>1 DEF UpInv, Started, Newest
      <4>2. Current(s) = Current(d)
        BY <3>4, <3>8, <4>1
      <4> QED BY <4>2 DEF UpInv
    <3>13. UpInv'
      <4>1. store'.section /\ store'.schema = r /\ (own' = 0 /\ ~fresh') = untouched
        BY <1>2, <2>2, <3>5, <3>6 DEF Alike, untouched
      <4> QED BY <1>2, <2>2, <3>8, <3>10, <3>11, <3>12, <4>1 DEF UpInv
    <3>14. Unharmed
      <4>1. d.schema = s.schema => Current(s) = Current(d)
        BY <3>4, <3>6, <3>8
      <4> QED BY <1>1, <2>2, <3>8, <3>9, <4>1, KeepsLasts DEF Unharmed
    <3> QED BY <3>13, <3>14
  <2> QED BY <2>4, <2>5
<1> QED BY <1>3, <1>4

\* The repair of a history changes its mode alone, and that to what the
\* releases intend.
LEMMA ReconciledIs ==
  ASSUME NEW d, Sound(d)
  PROVE  LET e == Reconciled(d) IN
         /\ Sound(e) /\ Follows(d, e) /\ e.live = d.live /\ e.source = d.source /\ e.job = d.job
         /\ (e.cur = 0 <=> d.cur = 0)
         /\ \/ e = d
            \/ d.cur # 0 /\ Current(e) = [Current(d) EXCEPT !.mode = "screenshot", !.st = "published"]
<1> DEFINE e == Reconciled(d)
           said == Current(d)
           issue == [said EXCEPT !.mode = "issue", !.st = "archived"]
           shot == [said EXCEPT !.mode = "screenshot", !.st = "published"]
           w == WithVersion(d, issue)
<1>1. CASE d.cur # 7 \/ Len(d.versions) # 7
  <2>1. e = d
    BY <1>1 DEF Reconciled
  <2>2. Follows(d, d)
    BY DEF Follows, Keeps, Sound, Database
  <2> QED BY <2>1, <2>2
<1>2. CASE ~(d.cur # 7 \/ Len(d.versions) # 7)
  <2>1. e = WithVersion(w, shot)
    BY <1>2 DEF Reconciled
  <2>2. /\ d.cur # 0 /\ d \in Database /\ \A i \in DOMAIN d.versions : CoreOn(d.versions[i].rows)
    BY <1>2 DEF Sound
  <2>3. said \in Content /\ CoreOn(said.rows)
    BY <2>2, VersionIs
  <2> HIDE DEF said
  <2>4. /\ issue \in Content /\ issue.rows = said.rows
        /\ shot \in Content /\ shot.rows = said.rows /\ shot.st = "published"
    BY <2>3 DEF Content
  <2> HIDE DEF issue, shot
  <2>5. /\ w \in Database /\ Follows(d, w) /\ w.live = d.live /\ w.source = d.source /\ w.job = d.job
        /\ w.results = d.results /\ \A i \in DOMAIN w.versions : CoreOn(w.versions[i].rows)
    BY <2>2, <2>3, <2>4, AppendIs
  <2> HIDE DEF w, e
  <2>6. /\ e \in Database /\ Follows(w, e) /\ e.live = w.live /\ e.source = w.source
        /\ e.job = w.job /\ e.cur # 0 /\ Current(e) = shot /\ Len(e.versions) = e.cur
        /\ e.results = w.results /\ \A i \in DOMAIN e.versions : CoreOn(e.versions[i].rows)
    BY <2>1, <2>3, <2>4, <2>5, AppendIs
  <2>7. Sound(e)
    <3>1. e.cur \in Nat
      BY <2>6 DEF Database
    <3>2. e.cur \in 0 .. Len(e.versions)
      BY <2>6, <3>1
    <3> QED BY <2>4, <2>6, <3>1, <3>2 DEF Sound
  <2>8. Follows(d, e)
    <3>1. /\ Len(d.versions) \in Nat /\ Len(w.versions) \in Nat /\ Len(e.versions) \in Nat
          /\ DOMAIN d.versions = 1 .. Len(d.versions) /\ DOMAIN w.versions = 1 .. Len(w.versions)
      BY <2>2, <2>5, <2>6 DEF Database
    <3>2. \A i \in DOMAIN d.versions : i \in DOMAIN w.versions /\ e.versions[i] = d.versions[i]
      BY <2>5, <2>6, <3>1 DEF Follows, Keeps
    <3>3. Len(d.versions) <= Len(e.versions)
      BY <2>5, <2>6, <3>1 DEF Follows, Keeps
    <3> QED BY <2>5, <2>6, <3>2, <3>3 DEF Follows, Keeps
  <2> QED BY <2>2, <2>5, <2>6, <2>7, <2>8 DEF e, shot, said
<1> QED BY <1>1, <1>2

LEMMA ReconcileStep ==
  ASSUME UpInv, Reconcile
  PROVE  UpInv' /\ Unharmed
<1> DEFINE d == store
           n == store.schema
<1>1. /\ phase = "reconcile" /\ phase' = "seed" /\ release' = release /\ fresh' = fresh
      /\ editing' = editing /\ chosen' = chosen /\ own' = own /\ starts' = starts
      /\ store' = IF release >= 29 THEN Reconciled(store) ELSE store
  BY DEF Reconcile
<1>2. CASE store' = store
  <2>1. UpTypeOK' /\ Started'
    BY <1>1, <1>2 DEF UpInv, UpTypeOK, Started
  <2>2. UpInv'
    BY <1>1, <1>2, <2>1 DEF UpInv
  <2> QED BY <1>2, <2>2, Same
<1>3. CASE store' # store
  <2> DEFINE e == store'
             said == Current(d)
  <2>1. n >= 29 /\ release = n /\ n \in Nat /\ n \in 0 .. Newest
    BY <1>1, <1>3 DEF UpInv, UpTypeOK, Started, Newest
  <2>2. /\ Sound(d) /\ Sound(e) /\ Follows(d, e) /\ e.live = d.live /\ e.source = d.source
        /\ e.job = d.job /\ (e.cur = 0 <=> d.cur = 0) /\ d.cur # 0
        /\ Current(e) = [said EXCEPT !.mode = "screenshot", !.st = "published"]
    BY <1>1, <1>3, ReconciledIs DEF UpInv, UpTypeOK
  <2>3. said \in Content /\ said.st = "published" /\ d.section
    BY <2>2, VersionIs DEF UpInv, Started
  <2>4. /\ Current(e).rows = said.rows /\ Current(e).source = said.source /\ Current(e).dims = said.dims
        /\ Current(e).contract = said.contract /\ Current(e).protocol = said.protocol
        /\ Current(e).columns = said.columns /\ Current(e).mode = "screenshot"
    BY <2>2, <2>3 DEF Content
  <2>5. said.mode = "screenshot" => Current(e) = said
    <3>1. \A c \in Content : c = [rows |-> c.rows, source |-> c.source, dims |-> c.dims,
             contract |-> c.contract, protocol |-> c.protocol, columns |-> c.columns,
             mode |-> c.mode, st |-> c.st]
      BY DEF Content
    <3>2. Current(e) \in Content /\ Current(e).st = "published"
      BY <2>2, VersionIs
    <3> HIDE DEF said
    <3> QED BY <2>3, <2>4, <3>1, <3>2
  <2> HIDE DEF said
  <2>6. Standing(n, d, editing, chosen, own = 0 /\ ~fresh)
    BY <2>3 DEF UpInv
  <2>7. ~chosen => said.mode = "screenshot"
    BY <2>1, <2>6 DEF Standing, PassesAt, said, Newest
  <2>8. Standing(n, e, editing, chosen, own = 0 /\ ~fresh)
    <3>1. Bound(n, e)
      BY <2>2, <2>6 DEF Standing, Bound
    <3>2. Agree(d) => Agree(e)
      BY <2>2, <2>4 DEF Agree, said
    <3>3. PassesAt(n, said) => PassesAt(n, Current(e))
      BY <2>4 DEF PassesAt
    <3>4. SaysAt(n, d) => SaysAt(n, e)
      BY <2>1, <2>4 DEF SaysAt, said, Newest
    <3> QED BY <2>6, <3>1, <3>2, <3>3, <3>4 DEF Standing, said
  <2>9. UpTypeOK'
    BY <1>1, <2>1, <2>2 DEF UpInv, UpTypeOK, Follows
  <2>10. Started'
    BY <1>1, <2>1, <2>2, <2>3 DEF UpInv, Started, Follows
  <2>11. (fresh' /\ own' = 0) => Says(Current(store')) = Intended(24)
    <3> SUFFICES ASSUME fresh, own = 0 PROVE Says(Current(e)) = Intended(24)
      BY <1>1
    <3>1. Says(said) = Intended(24)
      BY DEF UpInv, said
    <3>2. said.mode = "screenshot"
      BY <3>1 DEF Says, Intended
    <3> QED BY <2>5, <3>1, <3>2
  <2>12. UpInv'
    BY <1>1, <2>2, <2>3, <2>8, <2>9, <2>10, <2>11 DEF UpInv, Follows
  <2>13. Unharmed
    BY <2>2, <2>5, <2>7, KeepsLasts DEF Unharmed, Follows, said
  <2> QED BY <2>12, <2>13
<1> QED BY <1>2, <1>3
----------------------------------------------------------------------------
(* The seed. *)

Seeding(d, r) == CHOOSE f : f = [i \in 0 .. Len(SeedSteps) |->
                                   IF i = 0 THEN [d EXCEPT !.section = TRUE, !.live = SeedRows]
                                   ELSE Step(SeedSteps[i], f[i - 1], r)]

IsSeeding(d, r, f) == f = [i \in 0 .. 8 |-> IF i = 0 THEN [d EXCEPT !.section = TRUE, !.live = SeedRows]
                                            ELSE Step(SeedSteps[i], f[i - 1], r)]

LEMMA SeedingExists ==
  ASSUME NEW d, NEW r
  PROVE  \E f : IsSeeding(d, r, f)
<1> DEFINE s == [d EXCEPT !.section = TRUE, !.live = SeedRows]
           Upto(k) == \E f : f = [i \in 0 .. k |-> IF i = 0 THEN s ELSE Step(SeedSteps[i], f[i - 1], r)]
           T == {k \in Nat : Upto(k)}
<1> HIDE DEF s
<1>1. 0 \in T
  <2> DEFINE f == [i \in 0 .. 0 |-> s]
  <2>1. f = [i \in 0 .. 0 |-> IF i = 0 THEN s ELSE Step(SeedSteps[i], f[i - 1], r)]
    OBVIOUS
  <2> HIDE DEF f
  <2> QED BY <2>1
<1>2. ASSUME NEW k \in T PROVE k + 1 \in T
  <2>1. PICK f : f = [i \in 0 .. k |-> IF i = 0 THEN s ELSE Step(SeedSteps[i], f[i - 1], r)]
    OBVIOUS
  <2> DEFINE g == [i \in 0 .. k + 1 |-> IF i = 0 THEN s ELSE Step(SeedSteps[i], f[i - 1], r)]
  <2>2. \A i \in 0 .. k : g[i] = f[i]
    BY <2>1
  <2>3. \A i \in 0 .. k + 1 : i # 0 => i - 1 \in 0 .. k
    OBVIOUS
  <2>4. \A i \in 0 .. k + 1 : i # 0 => g[i - 1] = f[i - 1]
    BY <2>2, <2>3
  <2>5. \A i \in 0 .. k + 1 : g[i] = IF i = 0 THEN s ELSE Step(SeedSteps[i], g[i - 1], r)
    BY <2>4
  <2>6. g = [i \in 0 .. k + 1 |-> IF i = 0 THEN s ELSE Step(SeedSteps[i], g[i - 1], r)]
    BY <2>5
  <2>7. Upto(k + 1)
    <3> HIDE DEF g
    <3> QED BY <2>6
  <2> HIDE DEF Upto
  <2> QED BY <2>7
<1> HIDE DEF Upto
<1>3. T \in SUBSET Nat
  OBVIOUS
<1> HIDE DEF T
<1>4. T = Nat
  BY <1>1, <1>2, <1>3, AllNumbers
<1>5. Upto(8)
  BY <1>4 DEF T
<1> QED BY <1>5 DEF Upto, s, IsSeeding

\* The databases between the steps of the seed.
SeedGoes(d, r, f) ==
  /\ f[0] = [d EXCEPT !.section = TRUE, !.live = SeedRows]
  /\ f[1] = Step(9, f[0], r) /\ f[2] = Step(10, f[1], r) /\ f[3] = Step(11, f[2], r)
  /\ f[4] = Step(13, f[3], r) /\ f[5] = Step(18, f[4], r) /\ f[6] = Step(22, f[5], r)
  /\ f[7] = Step(23, f[6], r) /\ f[8] = Step(24, f[7], r) /\ Seeded(d, r) = f[8]

LEMMA SeededIs ==
  ASSUME NEW d, NEW r
  PROVE  \E f : SeedGoes(d, r, f)
<1> DEFINE f == Seeding(d, r)
           s == [d EXCEPT !.section = TRUE, !.live = SeedRows]
<1>1. Len(SeedSteps) = 8
  BY DEF SeedSteps
<1>2. Seeded(d, r) = f[Len(SeedSteps)]
  BY DEF Seeded, Seeding
<1>3. f = [i \in 0 .. 8 |-> IF i = 0 THEN s ELSE Step(SeedSteps[i], f[i - 1], r)]
  <2>1. f = CHOOSE g : IsSeeding(d, r, g)
    BY <1>1 DEF Seeding, IsSeeding
  <2>2. IsSeeding(d, r, f)
    <3> HIDE DEF f
    <3> QED BY <2>1, SeedingExists
  <2> QED BY <2>2 DEF IsSeeding
<1> HIDE DEF f, s
<1>4. f[0] = s
  BY <1>3
<1>5. \A i \in 1 .. 8 : f[i] = Step(SeedSteps[i], f[i - 1], r)
  BY <1>3
<1>6. /\ f[1] = Step(9, f[0], r) /\ f[2] = Step(10, f[1], r) /\ f[3] = Step(11, f[2], r)
      /\ f[4] = Step(13, f[3], r) /\ f[5] = Step(18, f[4], r) /\ f[6] = Step(22, f[5], r)
      /\ f[7] = Step(23, f[6], r) /\ f[8] = Step(24, f[7], r)
  <2>1. /\ SeedSteps[1] = 9 /\ SeedSteps[2] = 10 /\ SeedSteps[3] = 11 /\ SeedSteps[4] = 13
        /\ SeedSteps[5] = 18 /\ SeedSteps[6] = 22 /\ SeedSteps[7] = 23 /\ SeedSteps[8] = 24
    BY DEF SeedSteps
  <2>2. /\ f[1] = Step(SeedSteps[1], f[1 - 1], r) /\ f[2] = Step(SeedSteps[2], f[2 - 1], r)
        /\ f[3] = Step(SeedSteps[3], f[3 - 1], r) /\ f[4] = Step(SeedSteps[4], f[4 - 1], r)
        /\ f[5] = Step(SeedSteps[5], f[5 - 1], r) /\ f[6] = Step(SeedSteps[6], f[6 - 1], r)
        /\ f[7] = Step(SeedSteps[7], f[7 - 1], r) /\ f[8] = Step(SeedSteps[8], f[8 - 1], r)
    BY <1>5
  <2> QED BY <2>1, <2>2
<1> QED BY <1>1, <1>2, <1>4, <1>6 DEF s, SeedGoes

\* A new database stands as one at the newest schema does, and says what
\* schema 24 intends.
LEMMA SeededStands ==
  ASSUME NEW d, Sound(d), d.cur = 0
  PROVE  LET e == Seeded(d, Newest) IN
         /\ Sound(e) /\ Keeps(d, e) /\ e.section /\ e.schema = d.schema
         /\ Standing(Newest, e, FALSE, FALSE, FALSE) /\ SaysAt(24, e)
<1> DEFINE r == Newest
<1>0. PICK f : SeedGoes(d, r, f)
  BY SeededIs
<1> DEFINE e0 == f[0]
           e9 == f[1]
           e10 == f[2]
           e11 == f[3]
           e13 == f[4]
           e18 == f[5]
           e22 == f[6]
           e23 == f[7]
           e24 == f[8]
<1>e. /\ e0 = [d EXCEPT !.section = TRUE, !.live = SeedRows]
      /\ e9 = Step(9, e0, r) /\ e10 = Step(10, e9, r) /\ e11 = Step(11, e10, r)
      /\ e13 = Step(13, e11, r) /\ e18 = Step(18, e13, r) /\ e22 = Step(22, e18, r)
      /\ e23 = Step(23, e22, r) /\ e24 = Step(24, e23, r) /\ Seeded(d, r) = e24
  BY <1>0 DEF SeedGoes
<1> HIDE DEF e0, e9, e10, e11, e13, e18, e22, e23, e24
<1>1. /\ Sound(e0) /\ Keeps(d, e0) /\ e0.section /\ e0.schema = d.schema /\ e0.cur = 0
      /\ e0.live["modern"] = Absent
  <2>1. LiveRow("seed", "ai", TRUE) \in StoredField
    BY FieldMade
  <2>2. SeedRows \in SectionRows /\ CoreOn(SeedRows) /\ SeedRows["modern"] = Absent
    BY <2>1 DEF SeedRows, SectionRows, Bare, Group, CoreOn, Core
  <2>3. d \in Database
    BY DEF Sound
  <2>4. /\ e0 \in Database /\ e0.live = SeedRows /\ e0.section /\ e0.schema = d.schema
        /\ e0.versions = d.versions /\ e0.cur = 0 /\ e0.job = d.job /\ e0.results = d.results
    BY <1>e, <2>2, <2>3 DEF Database
  <2>5. Sound(e0)
    BY <2>2, <2>4 DEF Sound
  <2>6. Keeps(d, e0)
    BY <2>3, <2>4 DEF Keeps, Database
  <2> QED BY <2>2, <2>4, <2>5, <2>6
<1>2. Bound(8, e0) /\ SaysAt(8, e0)
  BY <1>1 DEF Bound, SaysAt, RowsAt
<1>3. Carries(9, e0, e9)
  <2>1. Step(9, e0, r) = FactsField(e0)
    BY DEF Step
  <2> QED BY <1>e, <1>1, <1>2, <2>1, Step9
<1>4. Sound(e9) /\ Bound(9, e9) /\ SaysAt(9, e9) /\ Follows(e0, e9)
  BY <1>2, <1>3 DEF Carries
<1>5. Carries(10, e9, e10)
  <2>1. Step(10, e9, r) = UnifiedField(e9)
    BY DEF Step
  <2> QED BY <1>e, <1>4, <2>1, Step10
<1>6. Sound(e10) /\ Bound(10, e10) /\ SaysAt(10, e10) /\ Follows(e9, e10)
  BY <1>4, <1>5 DEF Carries
<1>7. Carries(11, e10, e11)
  <2>1. Step(11, e10, r) = OptimizedPrompts(e10)
    BY DEF Step
  <2> QED BY <1>e, <1>6, <2>1, Step11
<1>8. Sound(e11) /\ Bound(12, e11) /\ SaysAt(12, e11) /\ Follows(e10, e11)
  <2>1. Bound(11, e11) /\ SaysAt(11, e11)
    BY <1>6, <1>7 DEF Carries
  <2>2. Bound(12, e11) /\ SaysAt(12, e11)
    BY <2>1 DEF Bound, SaysAt, RowsAt, GroupsAt, ByAt
  <2> QED BY <1>7, <2>2 DEF Carries
<1>9. Carries(13, e11, e13)
  <2>1. Step(13, e11, r) = ExcelSchema(e11)
    BY DEF Step
  <2> QED BY <1>e, <1>8, <2>1, Step13
<1>10. Sound(e13) /\ Bound(17, e13) /\ SaysAt(17, e13) /\ Follows(e11, e13)
  <2>1. Bound(13, e13) /\ SaysAt(13, e13)
    BY <1>8, <1>9 DEF Carries
  <2>2. Bound(17, e13) /\ SaysAt(17, e13)
    BY <2>1 DEF Bound, SaysAt, RowsAt, GroupsAt, ByAt
  <2> QED BY <1>9, <2>2 DEF Carries
<1>11. /\ Carries(18, e13, e18) /\ Agree(e18)
       /\ Current(e18).dims /\ Current(e18).contract = "classic"
  <2>1. Step(18, e13, r) = EnsureV1(e13, r)
    BY DEF Step
  <2>2. Carries(18, e13, EnsureV1(e13, r)) /\ Agree(EnsureV1(e13, r))
    BY <1>10, Step18 DEF Newest
  <2>3. Current(EnsureV1(e13, r)) = FirstVersion(e13, r)
    BY <1>10, FirstIs DEF Newest
  <2>4. FirstVersion(e13, r).dims /\ FirstVersion(e13, r).contract = "classic"
    <3>1. Canonical(r).dims /\ Canonical(r).contract = "classic"
      <4>1. r >= 19 /\ r >= 22
        BY DEF Newest
      <4>2. Canonical(r) = [dims |-> r >= 19, contract |-> IF r >= 22 THEN "classic" ELSE "none"]
        BY DEF Canonical
      <4> HIDE DEF r
      <4>3. Canonical(r) = [dims |-> TRUE, contract |-> "classic"]
        BY <4>1, <4>2
      <4> QED BY <4>3
    <3> QED BY <3>1 DEF FirstVersion
  <2> QED BY <1>e, <2>1, <2>2, <2>3, <2>4
<1>12. Sound(e18) /\ Bound(21, e18) /\ SaysAt(21, e18) /\ Follows(e13, e18) /\ PassesAt(21, Current(e18))
  <2>1. Bound(18, e18) /\ SaysAt(18, e18)
    BY <1>10, <1>11 DEF Carries
  <2>2. Bound(21, e18) /\ SaysAt(21, e18)
    BY <1>11, <2>1 DEF Bound, SaysAt, RowsAt, GroupsAt, ByAt
  <2>3. PassesAt(21, Current(e18))
    BY <1>11 DEF PassesAt
  <2> QED BY <1>11, <2>2, <2>3 DEF Carries
<1>13. Carries(22, e18, e22)
  <2>1. Step(22, e18, r) = ImportContract(e18)
    BY DEF Step
  <2> QED BY <1>e, <1>12, <2>1, Step22
<1>14. /\ Sound(e22) /\ Bound(22, e22) /\ SaysAt(22, e22) /\ Follows(e18, e22)
       /\ PassesAt(22, Current(e22)) /\ Agree(e22)
  BY <1>11, <1>12, <1>13 DEF Carries
<1>15. ~Throws(23, e22)
  BY <1>14 DEF Throws, SaysAt, RowsAt, HasCore, Present, Core, Group
<1>16. Carries(23, e22, e23)
  <2>1. Step(23, e22, r) = TwoStages(e22)
    BY DEF Step
  <2> QED BY <1>e, <1>14, <1>15, <2>1, Step23
<1>17. /\ Sound(e23) /\ Bound(23, e23) /\ SaysAt(23, e23) /\ Follows(e22, e23)
       /\ PassesAt(23, Current(e23)) /\ Agree(e23)
  BY <1>14, <1>16 DEF Carries
<1>18. Carries(24, e23, e24)
  <2>1. Step(24, e23, r) = ScreenshotRows(e23)
    BY DEF Step
  <2> QED BY <1>e, <1>17, <2>1, Step24
<1>19. Seeded(d, r) = e24
  BY <1>e
<1>20. /\ Sound(e24) /\ Bound(24, e24) /\ SaysAt(24, e24) /\ Follows(e23, e24)
       /\ PassesAt(24, Current(e24)) /\ Agree(e24)
  BY <1>17, <1>18 DEF Carries
<1>21. Standing(Newest, e24, FALSE, FALSE, FALSE)
  BY <1>20 DEF Standing, Newest, Bound, PassesAt
<1>22. e24.section /\ e24.schema = d.schema
  BY <1>1, <1>4, <1>6, <1>8, <1>10, <1>12, <1>14, <1>17, <1>20 DEF Follows
<1>23. Keeps(d, e24)
  <2>1. Keeps(d, e9)
    BY <1>1, <1>4, FollowsOn DEF Follows
  <2>2. Keeps(d, e10)
    BY <1>4, <1>6, <2>1, FollowsOn DEF Follows
  <2>3. Keeps(d, e11)
    BY <1>6, <1>8, <2>2, FollowsOn DEF Follows
  <2>4. Keeps(d, e13)
    BY <1>8, <1>10, <2>3, FollowsOn DEF Follows
  <2>5. Keeps(d, e18)
    BY <1>10, <1>12, <2>4, FollowsOn DEF Follows
  <2>6. Keeps(d, e22)
    BY <1>12, <1>14, <2>5, FollowsOn DEF Follows
  <2>7. Keeps(d, e23)
    BY <1>14, <1>17, <2>6, FollowsOn DEF Follows
  <2> QED BY <1>17, <1>20, <2>7, FollowsOn DEF Follows
<1> QED BY <1>19, <1>20, <1>21, <1>22, <1>23
\* A section that stands at schema n as the releases intend, says so.
LEMMA SaysIs ==
  ASSUME NEW n \in 24 .. Newest, NEW e, Sound(e), e.cur # 0, SaysAt(n, e)
  PROVE  Says(Current(e)) = Intended(n)
<1> DEFINE said == Current(e)
           groups == {p[1] : p \in On(said.rows)}
<1>1. /\ RowsAt(n, said.rows) /\ said.dims
      /\ said.contract = IF n >= 25 THEN "modern" ELSE "classic"
      /\ said.protocol = IF n >= 30 THEN "v2" ELSE "strict"
      /\ said.mode = IF n = 28 THEN "issue" ELSE "screenshot"
  BY DEF SaysAt, Newest
<1>2. said \in Content
  BY VersionIs
<1>3. groups = GroupsAt(n)
  <2>1. \A g \in Group : g \in GroupsAt(n) <=> said.rows[g] # Absent /\ said.rows[g].on
    BY <1>1 DEF RowsAt, Newest
  <2>2. groups = {g \in Group : said.rows[g] # Absent /\ said.rows[g].on}
    <3>1. ASSUME NEW g \in groups PROVE g \in Group /\ said.rows[g] # Absent /\ said.rows[g].on
      BY DEF On, Present
    <3>2. ASSUME NEW g \in Group, said.rows[g] # Absent, said.rows[g].on PROVE g \in groups
      <4>1. <<g, said.rows[g]>> \in On(said.rows)
        BY <3>2 DEF On, Present
      <4>2. <<g, said.rows[g]>>[1] = g
        OBVIOUS
      <4> QED BY <4>1, <4>2
    <3> HIDE DEF groups
    <3> QED BY <3>1, <3>2
  <2>3. GroupsAt(n) \subseteq Group
    BY DEF GroupsAt, Group, Core
  <2> HIDE DEF groups
  <2> QED BY <2>1, <2>2, <2>3
<1>4. said.rows["quality"].by = ByAt(n)
  BY <1>1 DEF RowsAt, Newest
<1>5. said.dims = TRUE
  BY <1>1, <1>2 DEF Content
<1>6. Says(said) = [dims |-> said.dims, contract |-> said.contract, protocol |-> said.protocol,
                   mode |-> said.mode, by |-> said.rows["quality"].by, groups |-> groups]
  BY DEF Says
<1> HIDE DEF said, groups
<1>7. ByAt(n) = IF n >= 30 THEN "v2" ELSE IF n >= 25 THEN "v4" ELSE "v11"
  BY DEF ByAt, Newest
<1>8. GroupsAt(n) = IF n >= 26 THEN Core \cup {"modern"} ELSE IF n = 25 THEN Core
                    ELSE Core \cup {"classic"}
  BY DEF GroupsAt
<1>9. Says(said) = Intended(n)
  BY <1>1, <1>3, <1>4, <1>5, <1>6, <1>7, <1>8 DEF Intended
<1> QED BY <1>9 DEF said

LEMMA SeedStep ==
  ASSUME UpInv, Seed
  PROVE  UpInv' /\ Unharmed
<1>1. /\ phase = "seed" /\ phase' = "up" /\ release' = release
      /\ editing' = editing /\ chosen' = chosen /\ own' = own /\ starts' = starts
  BY DEF Seed
<1>2. CASE store.section
  <2>1. store' = store /\ fresh' = fresh
    BY <1>2 DEF Seed
  <2>2. UpTypeOK' /\ Started'
    BY <1>1, <1>2, <2>1 DEF UpInv, UpTypeOK, Started
  <2>3. UpInv'
    BY <1>1, <2>1, <2>2 DEF UpInv
  <2> QED BY <2>1, <2>3, Same
<1>3. CASE ~store.section
  <2> DEFINE e == Seeded(store, Newest)
  <2>1. /\ release = Newest /\ store.cur = 0 /\ Sound(store) /\ store.schema = Newest
    BY <1>1, <1>3 DEF UpInv, UpTypeOK, Started
  <2>2. store' = e /\ fresh' = TRUE
    BY <1>3, <2>1 DEF Seed
  <2>3. /\ Sound(e) /\ Keeps(store, e) /\ e.section /\ e.schema = Newest
        /\ Standing(Newest, e, FALSE, FALSE, FALSE) /\ SaysAt(24, e)
    BY <2>1, SeededStands
  <2> HIDE DEF e
  <2>4. UpTypeOK' /\ Started'
    BY <1>1, <2>1, <2>2, <2>3 DEF UpInv, UpTypeOK, Started, Newest
  <2>5. Says(Current(e)) = Intended(24)
    <3>1. 24 \in 24 .. Newest /\ Newest >= 18
      BY DEF Newest
    <3>2. e.cur # 0
      BY <2>3, <3>1 DEF Standing, Bound, Newest
    <3> QED BY <2>3, <3>1, <3>2, SaysIs
  <2>6. Standing(Newest, e, editing, chosen, FALSE)
    BY <2>3 DEF Standing
  <2>7. UpInv'
    <3>1. (own' = 0 /\ ~fresh') = FALSE
      BY <2>2
    <3> QED BY <1>1, <2>2, <2>3, <2>4, <2>5, <2>6, <3>1 DEF UpInv
  <2>8. Unharmed
    BY <2>1, <2>2, <2>3, KeepsLasts DEF Unharmed
  <2> QED BY <2>7, <2>8
<1> QED BY <1>2, <1>3

----------------------------------------------------------------------------
(* The operator. *)

LEMMA OnLiveIs ==
  ASSUME NEW d, Sound(d), d.cur # 0
  PROVE  LET e == OnLive(d) IN
         /\ Sound(e) /\ Follows(d, e) /\ Agree(e) /\ e.cur = d.cur /\ e.job = d.job
         /\ Current(e) = Current(d)
<1> DEFINE said == Current(d)
           off == Off(d.live, Group)
           liveRows == [g \in Group |-> IF g \in Present(said.rows) THEN said.rows[g] ELSE off[g]]
           e == OnLive(d)
<1>1. /\ d \in Database /\ d.live \in SectionRows
      /\ said \in Content /\ said.rows \in SectionRows /\ CoreOn(said.rows)
  BY VersionIs DEF Sound, Database
<1>2. said.source \in Origin
  <2> HIDE DEF said
  <2> QED BY <1>1 DEF Content
<1>3. e = Set(d, liveRows, said.source)
  BY <1>1 DEF OnLive, Set, Database
<1> HIDE DEF e, said
<1>4. /\ off \in SectionRows
      /\ \A g \in Group : /\ off[g] = Absent <=> d.live[g] = Absent
                          /\ d.live[g] # Absent => ~off[g].on
  BY <1>1, OffIs
<1> HIDE DEF off
<1>5. \A g \in Group : liveRows[g] = IF said.rows[g] # Absent THEN said.rows[g] ELSE off[g]
  BY DEF Present
<1>6. liveRows \in SectionRows
  BY <1>1, <1>4 DEF SectionRows
<1> HIDE DEF liveRows
<1>8. /\ Sound(e) /\ Follows(d, e) /\ e.live = liveRows /\ e.source = said.source
      /\ e.cur = d.cur /\ e.job = d.job /\ Current(e) = said
  BY <1>2, <1>3, <1>6, SetIs DEF said
<1>9. Agree(e)
  BY <1>4, <1>5, <1>8 DEF Agree
<1> QED BY <1>8, <1>9 DEF e, said
\* What the operator publishes or goes back to is on the live fields.
LEMMA PublishOwnStep ==
  ASSUME UpInv, PublishOwn
  PROVE  UpInv' /\ Unharmed
<1> DEFINE d == store
           said == Current(store)
<1>1. /\ phase = "up" /\ own' = own + 1 /\ phase' = phase /\ release' = release /\ fresh' = fresh
      /\ starts' = starts /\ store.cur # 0 /\ HasCore(said.rows) /\ release >= 24
      /\ editing' = FALSE /\ chosen' = FALSE
  BY DEF PublishOwn, Operator
<1>2. PICK draft \in OwnDrafts(said) :
        /\ Publishable(draft)
        /\ store' = OnLive(WithVersion(store, [draft EXCEPT !.st = "published"]))
  BY DEF PublishOwn
<1>3. /\ Sound(d) /\ said \in Content /\ CoreOn(said.rows) /\ said.rows \in SectionRows
      /\ d.section /\ d.schema = release /\ d.schema \in Nat
  BY <1>1, VersionIs DEF UpInv, UpTypeOK, Started
<1> HIDE DEF said
<1>4. draft \in Content
  <2>1. CASE draft = [said EXCEPT !.protocol = "strict"]
    BY <1>3, <2>1 DEF Content
  <2>2. CASE draft = [said EXCEPT !.rows["facts"].by = "own"]
    <3> DEFINE field == [said.rows["facts"] EXCEPT !.by = "own"]
               rows == [said.rows EXCEPT !["facts"] = field]
    <3>1. said.rows["facts"] \in StoredField
      BY <1>1, <1>3, FieldIs DEF HasCore, Core, Present, Group
    <3>2. field \in StoredField
      BY <3>1, FieldKept
    <3>3. draft = [said EXCEPT !.rows = rows]
      BY <1>3, <2>2 DEF Content, SectionRows, Group
    <3> HIDE DEF field
    <3>4. rows \in SectionRows
      BY <1>3, <3>2 DEF SectionRows
    <3> HIDE DEF rows
    <3> QED BY <1>3, <3>3, <3>4 DEF Content
  <2> QED BY <1>2, <2>1, <2>2 DEF OwnDrafts
<1> DEFINE content == [draft EXCEPT !.st = "published"]
           w == WithVersion(d, content)
           e == OnLive(w)
<1>5. /\ content \in Content /\ content.st = "published" /\ content.rows = draft.rows
      /\ content.dims = draft.dims /\ content.contract = draft.contract
      /\ content.columns = draft.columns /\ content.mode = draft.mode
  BY <1>4 DEF Content
<1>6. store' = e
  BY <1>2
<1> HIDE DEF content, e, w
<1>7. /\ IsStrict(content.rows) /\ CoreOn(content.rows) /\ content.dims
      /\ content.contract # "none" /\ content.mode = "screenshot" /\ content.columns # "fields"
  BY <1>2, <1>5 DEF Publishable, HasScreenshotRows, CoreOn
<1>8. /\ Sound(w) /\ Follows(d, w) /\ w.job = d.job /\ w.cur # 0 /\ Current(w) = content
  BY <1>3, <1>5, <1>7, WithVersionIs DEF w
<1>9. /\ Sound(e) /\ Follows(w, e) /\ Agree(e) /\ e.cur = w.cur /\ e.job = w.job
      /\ Current(e) = content
  BY <1>8, OnLiveIs DEF e
<1>10. Keeps(d, e) /\ e.section /\ e.schema = d.schema
  BY <1>3, <1>8, <1>9, FollowsOn DEF Follows
<1>11. Standing(d.schema, e, FALSE, FALSE, FALSE)
  <2>1. Bound(d.schema, d)
    BY <1>3 DEF UpInv, Standing
  <2>2. Bound(d.schema, e)
    BY <1>1, <1>8, <1>9, <2>1 DEF Bound
  <2>3. PassesAt(d.schema, content)
    BY <1>7 DEF PassesAt
  <2> QED BY <1>9, <2>2, <2>3 DEF Standing
<1>12. UpTypeOK' /\ Started'
  <2>1. /\ own \in Nat /\ own' \in Nat /\ store.schema \in 0 .. Newest
        /\ release \in 0 .. Newest /\ fresh \in BOOLEAN /\ starts \in Nat
        /\ editing' \in BOOLEAN /\ chosen' \in BOOLEAN
    <3>1. UpTypeOK
      BY DEF UpInv
    <3>2. own \in Nat /\ starts \in Nat /\ store.schema \in 0 .. Newest /\ release \in 0 .. Newest
      BY <3>1 DEF UpTypeOK
    <3>3. fresh \in BOOLEAN
      BY <3>1 DEF UpTypeOK
    <3>4. editing' \in BOOLEAN /\ chosen' \in BOOLEAN
      BY <1>1
    <3>5. own' \in Nat
      BY <1>1, <3>2
    <3> QED BY <3>2, <3>3, <3>4, <3>5
  <2>2. Sound(store') /\ store'.schema = store.schema /\ store'.section
    BY <1>6, <1>9, <1>10
  <2>3. UpTypeOK'
    BY <1>1, <2>1, <2>2 DEF UpTypeOK
  <2>4. Started
    BY DEF UpInv
  <2>5. Started'
    BY <1>1, <2>2, <2>4 DEF Started
  <2> QED BY <2>3, <2>5
<1>13. own' # 0 /\ own' # own
  BY <1>1 DEF UpInv, UpTypeOK
<1>14. UpInv'
  <2>1. (own' = 0 /\ ~fresh') = FALSE
    BY <1>13
  <2> QED BY <1>1, <1>6, <1>10, <1>11, <1>12, <1>13, <2>1 DEF UpInv
<1> QED BY <1>3, <1>6, <1>9, <1>10, <1>13, <1>14, KeepsLasts DEF Unharmed

LEMMA EarlierStep ==
  ASSUME UpInv, NEW v \in 1 .. Len(store.versions), ActivateEarlier(v)
  PROVE  UpInv' /\ Unharmed
<1> DEFINE d == store
           w == [store EXCEPT !.cur = v]
           e == OnLive(w)
<1>1. /\ phase = "up" /\ own' = own + 1 /\ phase' = phase /\ release' = release /\ fresh' = fresh
      /\ starts' = starts /\ d.versions[v].st = "published"
      /\ editing' = FALSE /\ chosen' = TRUE /\ store' = e
  BY DEF ActivateEarlier, Operator
<1>2. /\ Sound(d) /\ d \in Database /\ d.section /\ d.schema = release /\ d.schema \in Nat
      /\ Len(d.versions) \in Nat /\ v # 0 /\ v \in 0 .. Len(d.versions) /\ v \in Nat
  BY <1>1 DEF UpInv, UpTypeOK, Started, Sound, Database
<1>3. /\ w \in Database /\ w.cur = v /\ w.versions = d.versions /\ w.job = d.job
      /\ w.results = d.results /\ w.section = d.section /\ w.schema = d.schema
  BY <1>2 DEF Database
<1> HIDE DEF w, e
<1>4. Sound(w)
  BY <1>1, <1>2, <1>3 DEF Sound, Current
<1>5. Keeps(d, w)
  BY <1>2, <1>3 DEF Keeps
<1>6. Sound(e) /\ Follows(w, e) /\ Agree(e) /\ e.cur = v /\ e.job = d.job
  BY <1>2, <1>3, <1>4, OnLiveIs DEF e
<1>7. Keeps(d, e) /\ e.section /\ e.schema = d.schema
  BY <1>2, <1>3, <1>4, <1>5, <1>6, FollowsOn DEF Follows
<1>8. Standing(d.schema, e, FALSE, TRUE, FALSE)
  <2>1. Bound(d.schema, d)
    BY <1>2 DEF UpInv, Standing
  <2>2. d.cur # 0
    BY <1>2 DEF Sound
  <2>3. Bound(d.schema, e)
    BY <1>2, <1>6, <2>1, <2>2 DEF Bound
  <2> QED BY <1>6, <2>3 DEF Standing
<1>9. UpTypeOK' /\ Started'
  <2>1. /\ own \in Nat /\ own' \in Nat /\ store.schema \in 0 .. Newest
        /\ release \in 0 .. Newest /\ fresh \in BOOLEAN /\ starts \in Nat
        /\ editing' \in BOOLEAN /\ chosen' \in BOOLEAN
    <3>1. UpTypeOK
      BY DEF UpInv
    <3>2. own \in Nat /\ starts \in Nat /\ store.schema \in 0 .. Newest /\ release \in 0 .. Newest
      BY <3>1 DEF UpTypeOK
    <3>3. fresh \in BOOLEAN
      BY <3>1 DEF UpTypeOK
    <3>4. editing' \in BOOLEAN /\ chosen' \in BOOLEAN
      BY <1>1
    <3>5. own' \in Nat
      BY <1>1, <3>2
    <3> QED BY <3>2, <3>3, <3>4, <3>5
  <2>2. Sound(store') /\ store'.schema = store.schema /\ store'.section
    BY <1>1, <1>6, <1>7
  <2>3. UpTypeOK'
    BY <1>1, <2>1, <2>2 DEF UpTypeOK
  <2>4. Started
    BY DEF UpInv
  <2>5. Started'
    BY <1>1, <2>2, <2>4 DEF Started
  <2> QED BY <2>3, <2>5
<1>10. own' # 0 /\ own' # own
  BY <1>1 DEF UpInv, UpTypeOK
<1>11. UpInv'
  <2>1. (own' = 0 /\ ~fresh') = FALSE
    BY <1>10
  <2> QED BY <1>1, <1>7, <1>8, <1>9, <1>10, <2>1 DEF UpInv
<1> QED BY <1>1, <1>2, <1>6, <1>7, <1>10, <1>11, KeepsLasts DEF Unharmed

\* Only the live fields and the results change, and somebody did it.
LEMMA LiveEdited ==
  ASSUME UpInv, Operator, store' \in Database, editing' = TRUE, chosen' = chosen,
         store'.section = store.section, store'.schema = store.schema,
         store'.versions = store.versions, store'.cur = store.cur, store'.job = store.job,
         store'.cur = 0 => CoreOn(store'.live),
         store.schema >= 18 => store.results \subseteq store'.results
  PROVE  UpInv' /\ Unharmed
<1>1. /\ phase = "up" /\ own' = own + 1 /\ phase' = phase /\ release' = release /\ fresh' = fresh
      /\ starts' = starts
  BY DEF Operator
<1>2. Sound(store) /\ store.section /\ store.schema \in Nat
  BY <1>1 DEF UpInv, UpTypeOK, Started
<1>3. Current(store') = Current(store)
  BY DEF Current
<1>4. Sound(store')
  BY <1>2, <1>3 DEF Sound
<1>5. own' # 0 /\ own' # own
  BY <1>1 DEF UpInv, UpTypeOK
<1>6. Standing(store.schema, store', TRUE, chosen, FALSE)
  <2>1. Bound(store.schema, store) /\ (store.schema >= 18 /\ ~chosen => PassesAt(store.schema, Current(store)))
    BY <1>2 DEF UpInv, Standing
  <2>2. Bound(store.schema, store')
    BY <2>1 DEF Bound
  <2> QED BY <1>3, <2>1, <2>2 DEF Standing
<1>7. UpTypeOK' /\ Started'
  BY <1>1, <1>2, <1>4 DEF UpInv, UpTypeOK, Started
<1>8. UpInv'
  <2>1. (own' = 0 /\ ~fresh') = FALSE
    BY <1>5
  <2> QED BY <1>1, <1>2, <1>5, <1>6, <1>7, <2>1 DEF UpInv
<1>9. SubSeq(store'.versions, 1, Len(store.versions)) = store.versions
  <2>1. store.versions \in Seq(Content)
    BY <1>2 DEF Sound, Database
  <2>2. Len(store.versions) \in Nat
    BY <2>1
  <2> QED BY <2>1, <2>2, PrefixIs
<1>10. Unharmed
  BY <1>5, <1>9 DEF Unharmed, Lasts
<1> QED BY <1>8, <1>10

LEMMA EditLiveStep ==
  ASSUME UpInv, NEW g \in Group, EditLive(g)
  PROVE  UpInv' /\ Unharmed
<1> DEFINE field == [store.live[g] EXCEPT !.by = "own"]
           liveRows == [store.live EXCEPT ![g] = field]
<1>1. /\ store \in Database /\ store.live \in SectionRows /\ store.live[g] # Absent
      /\ store.cur = 0 => CoreOn(store.live)
  BY DEF UpInv, UpTypeOK, Sound, Database, EditLive, Present
<1>2. store.live[g] \in StoredField
  BY <1>1, FieldIs
<1>3. field \in StoredField /\ field.on = store.live[g].on
  BY <1>2, FieldKept
<1>4. store' = [store EXCEPT !.live = liveRows]
  BY <1>1 DEF EditLive, Database
<1> HIDE DEF field
<1>5. liveRows \in SectionRows /\ (CoreOn(store.live) => CoreOn(liveRows))
  BY <1>1, <1>3 DEF SectionRows, CoreOn
<1> HIDE DEF liveRows
<1>6. /\ store' \in Database /\ store'.live = liveRows /\ store'.section = store.section
      /\ store'.schema = store.schema /\ store'.versions = store.versions
      /\ store'.cur = store.cur /\ store'.job = store.job /\ store'.results = store.results
  BY <1>1, <1>4, <1>5 DEF Database
<1> QED BY <1>1, <1>5, <1>6, LiveEdited DEF EditLive

LEMMA DeleteLiveStep ==
  ASSUME UpInv, NEW g \in Group, DeleteLive(g)
  PROVE  UpInv' /\ Unharmed
<1> DEFINE liveRows == [store.live EXCEPT ![g] = Absent]
           results == IF Detached(store) THEN store.results ELSE store.results \ {g}
<1>1. /\ store \in Database /\ store.live \in SectionRows
      /\ store.cur = 0 => CoreOn(store.live)
  BY DEF UpInv, UpTypeOK, Sound, Database
<1>2. store' = [store EXCEPT !.live = liveRows, !.results = results]
  BY <1>1 DEF DeleteLive, Database
<1>3. liveRows \in SectionRows /\ (CoreOn(store.live) => CoreOn(liveRows))
  BY <1>1 DEF SectionRows, CoreOn
<1>4. results \in SUBSET Group /\ (store.schema >= 18 => store.results \subseteq results)
  BY <1>1 DEF Database, Detached
<1> HIDE DEF liveRows, results
<1>5. /\ store' \in Database /\ store'.live = liveRows /\ store'.section = store.section
      /\ store'.schema = store.schema /\ store'.versions = store.versions
      /\ store'.cur = store.cur /\ store'.job = store.job /\ store'.results = results
  BY <1>1, <1>2, <1>3, <1>4 DEF Database
<1> QED BY <1>1, <1>3, <1>4, <1>5, LiveEdited DEF DeleteLive

LEMMA AnalyseStep ==
  ASSUME UpInv, NEW t \in Task, Analyse(t)
  PROVE  UpInv' /\ Unharmed
<1> DEFINE d == store
           rows == IF store.cur = 0 THEN store.live ELSE Current(store).rows
           results == store.results \cup {g \in Present(rows) : rows[g].on}
           job == [store.job EXCEPT ![t] = store.cur]
           e == store'
<1>1. /\ phase = "up" /\ store.job[t] = Absent
      /\ e = [store EXCEPT !.job[t] = store.cur, !.results = results]
      /\ phase' = phase /\ release' = release /\ fresh' = fresh
      /\ editing' = editing /\ chosen' = chosen /\ own' = own /\ starts' = starts
  BY DEF Analyse
<1>2. /\ Sound(d) /\ d \in Database /\ d.section /\ d.schema \in Nat
      /\ d.job \in [Task -> Nat \cup {Absent}] /\ d.cur \in Nat /\ d.results \in SUBSET Group
      /\ editing \in BOOLEAN /\ chosen \in BOOLEAN /\ own \in Nat
  BY <1>1 DEF UpInv, UpTypeOK, Started, Sound, Database
<1>3. results \in SUBSET Group /\ d.results \subseteq results
  BY <1>2 DEF Present
<1> HIDE DEF results
<1>4. e = [store EXCEPT !.job = job, !.results = results]
  BY <1>1, <1>2 DEF Database
<1>5. /\ job \in [Task -> Nat \cup {Absent}] /\ job[t] = d.cur
      /\ \A u \in Task \ {t} : job[u] = d.job[u]
  BY <1>2
<1> HIDE DEF job, e
<1>6. /\ e \in Database /\ Alike(d, e) /\ e.job = job /\ e.results = results /\ e.schema = d.schema
  BY <1>2, <1>3, <1>4, <1>5 DEF Database, Alike
<1>7. Standing(d.schema, d, editing, chosen, own = 0 /\ ~fresh)
  BY <1>2 DEF UpInv
<1>8. Bound(d.schema, e)
  BY <1>2, <1>5, <1>6, <1>7 DEF Standing, Bound, Alike
<1>9. Sound(e) /\ Current(e) = Current(d) /\ Standing(d.schema, e, editing, chosen, own = 0 /\ ~fresh)
  <2> DEFINE untouched == own = 0 /\ ~fresh
  <2>1. untouched \in BOOLEAN /\ Standing(d.schema, d, editing, chosen, untouched)
    BY <1>7
  <2> HIDE DEF untouched
  <2>2. Sound(e) /\ Current(e) = Current(d) /\ Standing(d.schema, e, editing, chosen, untouched)
    BY <1>2, <1>6, <1>8, <2>1, AlikeStands
  <2> QED BY <2>2 DEF untouched
<1>10. Keeps(d, e)
  BY <1>1, <1>2, <1>3, <1>5, <1>6 DEF Keeps, Alike, Database
<1>11. UpTypeOK' /\ Started'
  BY <1>1, <1>2, <1>6, <1>9 DEF UpInv, UpTypeOK, Started, Alike, e
<1>12. UpInv'
  BY <1>1, <1>2, <1>6, <1>9, <1>11 DEF UpInv, Alike, e
<1>13. Unharmed
  BY <1>2, <1>9, <1>10, KeepsLasts DEF Unharmed, e
<1> QED BY <1>12, <1>13

LEMMA UpInitially == UpgradeInit => UpInv
<1> SUFFICES ASSUME UpgradeInit PROVE UpInv
  OBVIOUS
<1>1. /\ LiveRow("own", "ai", TRUE) \in StoredField /\ LiveRow("own", "ai", TRUE) # Absent
      /\ LiveRow("own", "ai", TRUE).on
  <2>1. LiveRow("own", "ai", TRUE) \in StoredField
    BY DEF LiveRow, StoredField
  <2>2. LiveRow("own", "ai", TRUE) # Absent
    BY <2>1, UpgradeAssumption
  <2>3. LiveRow("own", "ai", TRUE).on
    BY DEF LiveRow
  <2> QED BY <2>1, <2>2, <2>3
<1>2. /\ Bare \in SectionRows /\ \A g \in Group : Bare[g] = Absent
  BY DEF Bare, SectionRows
<1>3. /\ Empty \in Database /\ Empty.cur = 0 /\ Empty.versions = <<>> /\ Empty.live = Bare
      /\ ~Empty.section /\ Empty.schema = 0
  BY <1>2 DEF Empty, Database, Origin
<1>4. Sound(Empty)
  BY <1>2, <1>3 DEF Sound, CoreOn, Core, Group
<1>5. ASSUME NEW classic \in {Absent, LiveRow("own", "ai", TRUE)}
      PROVE  LET d == FirstRelease(classic) IN
             Sound(d) /\ d.cur = 0 /\ d.section /\ d.schema = 0 /\ d.live["modern"] = Absent
  <2> DEFINE d == FirstRelease(classic)
             liveRows == [Bare EXCEPT !["old"] = LiveRow("own", "ai", TRUE), !["classic"] = classic]
  <2>1. liveRows \in SectionRows /\ CoreOn(liveRows) /\ liveRows["modern"] = Absent
    BY <1>1, <1>2 DEF SectionRows, CoreOn, Core, Group
  <2>2. d = [Empty EXCEPT !.section = TRUE, !.source = "own", !.live = liveRows]
    BY DEF FirstRelease
  <2> HIDE DEF liveRows, d
  <2>3. /\ d \in Database /\ d.cur = 0 /\ d.versions = <<>> /\ d.live = liveRows
        /\ d.section /\ d.schema = 0
    BY <1>3, <2>1, <2>2 DEF Database, Origin
  <2>4. Sound(d)
    BY <2>1, <2>3 DEF Sound
  <2> QED BY <2>1, <2>3, <2>4 DEF d
<1>6. Sound(store) /\ store.cur = 0 /\ store.schema = 0 /\ (store.section => store.live["modern"] = Absent)
  BY <1>3, <1>4, <1>5 DEF UpgradeInit
<1>7. UpTypeOK /\ Started
  <2>1. store.schema \in 0 .. Newest /\ 0 \in 0 .. Newest /\ 0 \in Nat
    BY <1>6 DEF Newest
  <2>2. /\ phase = "down" /\ release = 0 /\ fresh = FALSE
        /\ editing = FALSE /\ chosen = FALSE /\ own = 0 /\ starts = 0
    BY DEF UpgradeInit
  <2>3. UpTypeOK
    BY <1>6, <2>1, <2>2 DEF UpTypeOK
  <2>4. Started
    BY <1>6, <2>2 DEF Started
  <2> QED BY <2>3, <2>4
<1>8. store.section => Standing(0, store, editing, chosen, own = 0 /\ ~fresh)
  BY <1>6 DEF Standing, Bound, SaysAt, RowsAt
<1> QED BY <1>6, <1>7, <1>8 DEF UpInv, UpgradeInit

LEMMA UpStep == UpInv /\ [UpgradeNext]_upgradeVars => UpInv' /\ (Unharmed \/ UNCHANGED upgradeVars)
<1> SUFFICES ASSUME UpInv, [UpgradeNext]_upgradeVars
             PROVE  UpInv' /\ (Unharmed \/ UNCHANGED upgradeVars)
  OBVIOUS
<1>1. ASSUME NEW r \in Releases, Start(r) PROVE UpInv' /\ Unharmed
  BY <1>1, StartStep
<1>2. CASE Migrate
  BY <1>2, MigrateStep
<1>3. CASE Reconcile
  BY <1>3, ReconcileStep
<1>4. CASE Seed
  BY <1>4, SeedStep
<1>5. CASE Stop
  BY <1>5, StopStep
<1>6. CASE PublishOwn
  BY <1>6, PublishOwnStep
<1>7. ASSUME NEW v \in 1 .. Len(store.versions), ActivateEarlier(v) PROVE UpInv' /\ Unharmed
  BY <1>7, EarlierStep
<1>8. ASSUME NEW g \in Group, EditLive(g) PROVE UpInv' /\ Unharmed
  BY <1>8, EditLiveStep
<1>9. ASSUME NEW g \in Group, DeleteLive(g) PROVE UpInv' /\ Unharmed
  BY <1>9, DeleteLiveStep
<1>10. ASSUME NEW t \in Task, Analyse(t) PROVE UpInv' /\ Unharmed
  BY <1>10, AnalyseStep
<1>11. CASE UNCHANGED upgradeVars
  BY <1>11 DEF upgradeVars, UpInv, UpTypeOK, Started
<1> QED BY <1>1, <1>2, <1>3, <1>4, <1>5, <1>6, <1>7, <1>8, <1>9, <1>10, <1>11 DEF UpgradeNext

\* In every state of an upgrade the database stands as its schema demands.
THEOREM UpgradeInvariant == UpgradeSpec => []UpInv
<1>1. UpInv /\ [UpgradeNext]_upgradeVars => UpInv'
  BY UpStep
<1> QED BY <1>1, UpInitially, PTL DEF UpgradeSpec

\* An upgrade ends in one configuration, wherever it is read: whichever releases
\* were installed and wherever a start was cut off (runMigrations,
\* reconcileReceptionV9, seedNewDatabase).
THEOREM UpgradesEndAlike == UpgradeSpec => []UpgradeStands
<1> SUFFICES ASSUME UpInv PROVE UpgradeStands
  BY UpgradeInvariant, PTL
<1>1. LiveIsCurrent
  <2> SUFFICES ASSUME phase = "up", store.schema >= 18
               PROVE  /\ store.cur # 0 /\ \A t \in Task : store.job[t] # 0
                      /\ ~editing => /\ On(store.live) = On(Current(store).rows)
                                     /\ store.source = Current(store).source
    BY DEF LiveIsCurrent
  <2>1. Standing(store.schema, store, editing, chosen, own = 0 /\ ~fresh) /\ store.schema \in Nat
    BY DEF UpInv, Started, UpTypeOK, Newest
  <2>2. store.cur # 0 /\ \A t \in Task : store.job[t] # 0
    BY <2>1 DEF Standing, Bound
  <2>3. ~editing => Agree(store)
    BY <2>1 DEF Standing
  <2>4. Agree(store) => On(store.live) = On(Current(store).rows)
    BY DEF Agree, On, Present
  <2> QED BY <2>2, <2>3, <2>4 DEF Agree
<1>2. UpgradedAlike
  <2> SUFFICES ASSUME phase = "up", store.schema >= 24
               PROVE  /\ own = 0 => Says(Current(store)) = Intended(IF fresh THEN 24 ELSE store.schema)
                      /\ (~chosen /\ store.schema # 28) => Publishable(Current(store))
    BY DEF UpgradedAlike
  <2>1. /\ Standing(store.schema, store, editing, chosen, own = 0 /\ ~fresh)
        /\ Sound(store) /\ store.schema \in 24 .. Newest /\ store.schema \in Nat
    BY DEF UpInv, Started, UpTypeOK, Newest
  <2>2. store.cur # 0
    BY <2>1 DEF Standing, Bound
  <2>3. own = 0 => Says(Current(store)) = Intended(IF fresh THEN 24 ELSE store.schema)
    <3>1. CASE fresh
      BY <3>1 DEF UpInv
    <3>2. CASE ~fresh
      BY <2>1, <2>2, <3>2, SaysIs DEF Standing
    <3> QED BY <3>1, <3>2
  <2>4. ASSUME ~chosen, store.schema # 28 PROVE Publishable(Current(store))
    <3>1. PassesAt(store.schema, Current(store)) /\ CoreOn(Current(store).rows)
      BY <2>1, <2>2, <2>4, VersionIs DEF Standing
    <3>2. /\ Current(store).dims /\ Current(store).contract # "none"
          /\ IsStrict(Current(store).rows) /\ Current(store).columns # "fields"
          /\ Current(store).mode = "screenshot"
      BY <2>1, <2>4, <3>1 DEF PassesAt
    <3>3. \A g \in Core : Current(store).rows[g].on
      BY <3>1, <3>2 DEF IsStrict, HasCore, Present, CoreOn
    <3> QED BY <3>2, <3>3 DEF Publishable, HasScreenshotRows
  <2> QED BY <2>3, <2>4
<1> QED BY <1>1, <1>2 DEF UpgradeStands

\* Nothing that was published, bound to a job or found is lost in an upgrade,
\* and a start without a pending migration leaves the configuration alone.
THEOREM UpgradesHarmNothing == UpgradeSpec => WhatWasDoneStands
<1>1. UpInv /\ [UpgradeNext]_upgradeVars => [Unharmed]_upgradeVars
  BY UpStep
<1>2. Unharmed =>
        /\ (store.cur # 0 /\ store.schema = store'.schema /\ own' = own /\ ~chosen)
             => Current(store') = Current(store)
        /\ SubSeq(store'.versions, 1, Len(store.versions)) = store.versions
        /\ \A t \in Task : store.job[t] \notin {Absent, 0} => store'.job[t] = store.job[t]
        /\ store.schema >= 18 => store.results \subseteq store'.results
  BY DEF Unharmed, Lasts
<1> QED BY <1>1, <1>2, UpgradeInvariant, PTL DEF UpgradeSpec, WhatWasDoneStands
=============================================================================
