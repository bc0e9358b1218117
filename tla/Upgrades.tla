------------------------------ MODULE Upgrades ------------------------------
(***************************************************************************)
(* The start of the program on a database of an earlier release: the       *)
(* pending migrations in one transaction, the repair of one known history, *)
(* and the seed of a database without sections; and what an operator does  *)
(* to the reception section between two starts.                            *)
(*                                                                         *)
(* The fields of the section are taken in five groups, which the steps     *)
(* treat alike; of a field, who wrote its prompt, how it is executed (with *)
(* the images and dependencies that go with that) and its switch.  Of the  *)
(* columns a step adds to a table nothing is kept but the version of the   *)
(* schema.  Drafts are in SectionVersions: here a version is published.    *)
(***************************************************************************)
EXTENDS Naturals, Sequences

CONSTANTS Releases,      \* schema versions a program was released with
          Task,         \* jobs of the section
          MaxOwn,       \* bound on the operator's changes
          MaxStarts,    \* bound on the starts of the program
          Absent, Refused

Newest == 30            \* currentSchemaVersion: the program of this repository

\* A field: who wrote its prompt, how it is executed, its switch.
StoredField == [by : {"own", "seed", "v9", "v11", "v4", "v2", "local"},
                exec : {"ai", "analysis", "derive", "facts"}, on : BOOLEAN]

ASSUME UpgradeAssumption == /\ Releases \subseteq 13 .. Newest /\ MaxOwn \in Nat /\ MaxStarts \in Nat
                            /\ Absent \notin StoredField

VARIABLES
  store,     \* the database: [schema, section, live, source, versions, cur, job, results]
  phase,     \* of the program: "down", "migrate", "reconcile", "seed", "up"
  release,   \* the program that runs, or ran last
  fresh,     \* the sections come from the seed
  editing,   \* (history) the live fields were edited since they last were the version's
  chosen,    \* (history) the operator went back to an earlier version
  own,       \* changes of the operator so far
  starts     \* starts so far

upgradeVars == <<store, phase, release, fresh, editing, chosen, own, starts>>

Group == {"facts", "quality", "classic", "modern", "old"}
Core == {"facts", "quality"}
LiveRow(by, exec, on) == [by |-> by, exec |-> exec, on |-> on]
Bare == [g \in Group |-> Absent]
Present(rows) == {g \in Group : rows[g] # Absent}
HasCore(rows) == Core \subseteq Present(rows)
On(rows) == {<<g, rows[g]>> : g \in {h \in Present(rows) : rows[h].on}}
Off(rows, G) == [g \in Group |-> IF g \in G \cap Present(rows) THEN [rows[g] EXCEPT !.on = FALSE]
                                 ELSE rows[g]]

Current(d) == d.versions[d.cur]
WithVersion(d, content) == [d EXCEPT !.versions = Append(@, content), !.cur = Len(d.versions) + 1]

(* The steps of the schema that touch the section. *)

\* 009: one extraction of facts from the screenshots.
FactsField(d) == [d EXCEPT !.source = "v9", !.live["facts"] = LiveRow("v9", "ai", TRUE)]

\* 010: one analysis, fields derived from it; those of the first schema are
\* switched off.
UnifiedField(d) ==
  [d EXCEPT !.live = [Off(@, {"old"}) EXCEPT !["quality"] = LiveRow("v9", "analysis", TRUE),
                                             !["classic"] = LiveRow("local", "derive", TRUE)]]

\* 011, 012: new prompts, where the fields are there.
OptimizedPrompts(d) ==
  [d EXCEPT !.live = [g \in Group |->
     IF g \notin Core \cap Present(d.live) THEN @[g]
     ELSE LiveRow("v11", IF g = "facts" THEN "ai" ELSE "analysis", TRUE)]]

\* 013: the columns of the workbook.
ExcelSchema(d) == [d EXCEPT !.source = "excel"]

\* What the rules of a program of release r know: dimensions came with 019, the
\* import contract with 022.
Canonical(r) == [dims |-> r >= 19, contract |-> IF r >= 22 THEN "classic" ELSE "none"]

\* 018: the live fields become the first version, once; jobs without a version
\* are bound to it.
FirstVersion(d, r) ==
  [rows |-> d.live, source |-> d.source, dims |-> Canonical(r).dims,
   contract |-> Canonical(r).contract, protocol |-> "strict",
   columns |-> "fields", mode |-> "none", st |-> "published"]
EnsureV1(d, r) ==
  LET e == IF d.versions = <<>> THEN WithVersion(d, FirstVersion(d, r)) ELSE d
  IN [e EXCEPT !.job = [t \in Task |-> IF @[t] = 0 THEN 1 ELSE @[t]]]

\* 019, 022: a version with what the rules lack.
Dimensions(d) == IF Current(d).dims THEN d ELSE WithVersion(d, [Current(d) EXCEPT !.dims = TRUE])
ImportContract(d) == IF Current(d).contract # "none" THEN d
                     ELSE WithVersion(d, [Current(d) EXCEPT !.contract = "classic"])

\* 023: facts from the screenshots alone, the analysis from the facts alone.
Executions(rows) ==
  [g \in Group |-> IF g \notin Core \cap Present(rows) THEN rows[g]
                   ELSE [rows[g] EXCEPT !.exec = IF g = "facts" THEN "facts" ELSE "analysis"]]
IsStrict(rows) == /\ HasCore(rows)
                  /\ rows["facts"].exec = "facts" /\ rows["quality"].exec = "analysis"
TwoStages(d) ==
  LET e == [d EXCEPT !.live = Executions(@)]
  IN IF IsStrict(Current(d).rows) THEN e
     ELSE WithVersion(e, [Current(d) EXCEPT !.rows = Executions(@)])

\* 024: a row of the export is a screenshot.
HasScreenshotRows(content) == content.mode = "screenshot" /\ content.columns # "fields"
ScreenshotRows(d) == IF HasScreenshotRows(Current(d)) THEN d
                     ELSE WithVersion(d, [Current(d) EXCEPT !.mode = "screenshot", !.columns = "rows"])

\* 025: the template of the fourth release: nothing but the two stages, in the
\* version and in the live fields.
ModernTemplate(d) ==
  LET core == [Bare EXCEPT !["facts"] = LiveRow("v4", "facts", TRUE),
                             !["quality"] = LiveRow("v4", "analysis", TRUE)]
      e == [d EXCEPT !.source = "modern",
                     !.live = [g \in Group |-> IF g \in Core \cap Present(@) THEN core[g]
                                               ELSE Off(@, Group)[g]]]
  IN WithVersion(e, [Current(d) EXCEPT !.rows = core, !.source = "modern", !.contract = "modern",
                                   !.mode = "screenshot", !.columns = "modern"])

\* 026: the fields derived from the analysis, in both.
DerivedRow == LiveRow("local", "derive", TRUE)
DerivedResults(d) ==
  LET now == Current(d).rows
  IN WithVersion([d EXCEPT !.live = [Off(@, Group \ Core) EXCEPT !["modern"] = DerivedRow]],
             [Current(d) EXCEPT !.rows = [Bare EXCEPT !["modern"] = DerivedRow,
                                            !["facts"] = [now["facts"] EXCEPT !.on = TRUE],
                                            !["quality"] = [now["quality"] EXCEPT !.on = TRUE]]])

\* 027: the live fields of the two stages say what the version says.
CoreFrom(live, rows) ==
  [g \in Group |-> IF g \in Core \cap Present(live) \cap Present(rows) THEN rows[g] ELSE live[g]]
LiveCoreSync(d) == [d EXCEPT !.live = CoreFrom(@, Current(d).rows)]

\* 028, 029: a row of the export is an issue, and a screenshot again.
RowsAre(d, mode) == IF Current(d).mode = mode THEN d
                    ELSE WithVersion(d, [Current(d) EXCEPT !.mode = mode])
IssueRows(d) == RowsAre(d, "issue")
ScreenshotRowsAgain(d) == RowsAre(d, "screenshot")

\* 030: the second protocol of the analysis, in both.
ProtocolV2(d) ==
  LET now == Current(d)
      rows == [now.rows EXCEPT !["facts"].by = "v2", !["quality"].by = "v2"]
  IN IF now.protocol = "v2" THEN d
     ELSE WithVersion([d EXCEPT !.source = now.source, !.live = CoreFrom(@, rows)],
                  [now EXCEPT !.rows = rows, !.protocol = "v2"])

\* A step that cannot keep what it is about throws.
Throws(n, d) == /\ d.cur # 0
                /\ \/ n \in {23, 25, 26} /\ ~HasCore(Current(d).rows)
                   \/ n = 30 /\ Current(d).protocol # "v2" /\ ~HasCore(Current(d).rows)

Step(n, d, r) ==
  CASE n = 9 -> FactsField(d)
    [] n = 10 -> UnifiedField(d)
    [] n \in {11, 12} -> OptimizedPrompts(d)
    [] n = 13 -> ExcelSchema(d)
    [] n = 18 -> EnsureV1(d, r)
    [] n = 19 -> Dimensions(d)
    [] n = 22 -> ImportContract(d)
    [] n = 23 -> TwoStages(d)
    [] n = 24 -> ScreenshotRows(d)
    [] n = 25 -> ModernTemplate(d)
    [] n = 26 -> DerivedResults(d)
    [] n = 27 -> LiveCoreSync(d)
    [] n = 28 -> IssueRows(d)
    [] n = 29 -> ScreenshotRowsAgain(d)
    [] n = 30 -> ProtocolV2(d)
    [] OTHER -> d

\* runMigrations: every pending step, or none.  Without the section no step
\* finds anything to change.
Migrated(d, r) ==
  LET After[n \in d.schema .. r] ==
        IF n = d.schema \/ ~d.section THEN d
        ELSE LET e == After[n - 1]
             IN IF e = Refused \/ Throws(n, e) THEN Refused ELSE Step(n, e, r)
      done == After[r]
  IN IF done = Refused THEN Refused ELSE [done EXCEPT !.schema = r]

\* (mutant) the rows of the version that is archived
ReconciledAlike(d) ==
  IF d.cur # 7 \/ Len(d.versions) # 7 THEN d
  ELSE LET issue == [Current(d) EXCEPT !.mode = "issue", !.st = "archived"]
       IN WithVersion(WithVersion(d, issue), [issue EXCEPT !.st = "published"])
\* reconcileReceptionV9: a history that stopped at its seventh version gets the
\* two versions it missed, of which the first is archived.
Reconciled(d) ==
  IF d.cur # 7 \/ Len(d.versions) # 7 THEN d
  ELSE LET issue == [Current(d) EXCEPT !.mode = "issue", !.st = "archived"]
           shot == [Current(d) EXCEPT !.mode = "screenshot", !.st = "published"]
       IN WithVersion(WithVersion(d, issue), shot)

\* seedNewDatabase: the sections and their first fields, and the configurations
\* up to 024.
SeedRows == [Bare EXCEPT !["old"] = LiveRow("seed", "ai", TRUE)]
\* (mutant) the seed of a release before the rows of screenshots
EarlierSeedSteps == <<9, 10, 11, 13, 18, 22, 23>>
SeedSteps == <<9, 10, 11, 13, 18, 22, 23, 24>>
Seeded(d, r) ==
  LET After[i \in 0 .. Len(SeedSteps)] ==
        IF i = 0 THEN [d EXCEPT !.section = TRUE, !.live = SeedRows]
        ELSE Step(SeedSteps[i], After[i - 1], r)
  IN After[Len(SeedSteps)]
----------------------------------------------------------------------------
\* Without sections, or a section of the first release with fields of its own.
Empty == [schema |-> 0, section |-> FALSE, live |-> Bare, source |-> "none",
          versions |-> <<>>, cur |-> 0, job |-> [t \in Task |-> Absent], results |-> {}]
FirstRelease(classic) ==
  [Empty EXCEPT !.section = TRUE, !.source = "own",
                !.live = [Bare EXCEPT !["old"] = LiveRow("own", "ai", TRUE), !["classic"] = classic]]

UpgradeInit == /\ store \in {Empty, FirstRelease(Absent), FirstRelease(LiveRow("own", "ai", TRUE))}
               /\ phase = "down" /\ release = 0 /\ fresh = FALSE
               /\ editing = FALSE /\ chosen = FALSE /\ own = 0 /\ starts = 0

\* A database newer than the program is refused.  What an earlier program would
\* have seeded is not in this repository.
Start(r) == /\ phase = "down" /\ starts < MaxStarts
            /\ r >= store.schema /\ (store.section \/ r = Newest)
            /\ phase' = "migrate" /\ release' = r /\ starts' = starts + 1
            /\ UNCHANGED <<store, fresh, editing, chosen, own>>

Migrate ==
  /\ phase = "migrate"
  /\ LET d == Migrated(store, release)
     IN IF d = Refused THEN phase' = "down" /\ UNCHANGED <<store, editing>>
        ELSE /\ phase' = "reconcile" /\ store' = d
             /\ editing' = (editing /\ ~(store.schema < 25 /\ release >= 25 /\ HasCore(store.live)))
  /\ UNCHANGED <<release, fresh, chosen, own, starts>>

\* The repair came with the last release of schema 29.
Reconcile == /\ phase = "reconcile" /\ phase' = "seed"
             /\ store' = IF release >= 29 THEN Reconciled(store) ELSE store
             /\ UNCHANGED <<release, fresh, editing, chosen, own, starts>>

Seed == /\ phase = "seed" /\ phase' = "up"
        /\ IF store.section THEN UNCHANGED <<store, fresh>>
           ELSE store' = Seeded(store, release) /\ fresh' = TRUE
        /\ UNCHANGED <<release, editing, chosen, own, starts>>

\* The program stops, or dies between two of its transactions.
Stop == /\ phase # "down" /\ phase' = "down"
        /\ UNCHANGED <<store, release, fresh, editing, chosen, own, starts>>

(* The operator. *)

\* What validateVersionSnapshot demands of the reception section.
Publishable(content) ==
  /\ IsStrict(content.rows) /\ \A g \in Core : content.rows[g].on
  /\ content.dims /\ content.contract # "none"
  /\ HasScreenshotRows(content)

OnLive(d) ==
  LET now == Current(d)
  IN [d EXCEPT !.source = now.source,
               !.live = [g \in Group |-> IF g \in Present(now.rows) THEN now.rows[g]
                                         ELSE Off(@, Group)[g]]]

Operator == phase = "up" /\ own < MaxOwn /\ own' = own + 1
            /\ UNCHANGED <<phase, release, fresh, starts>>

\* Drafts of the current version: another prompt, another protocol.
OwnDrafts(content) == {[content EXCEPT !.rows["facts"].by = "own"],
                       [content EXCEPT !.protocol = "strict"]}
PublishOwn ==
  /\ Operator /\ store.cur # 0 /\ HasCore(Current(store).rows) /\ release >= 24
  /\ \E content \in OwnDrafts(Current(store)) :
       /\ Publishable(content)
       /\ store' = OnLive(WithVersion(store, [content EXCEPT !.st = "published"]))
  /\ editing' = FALSE /\ chosen' = FALSE

\* Whatever was published can be made current again.
ActivateEarlier(v) ==
  /\ Operator /\ v \in DOMAIN store.versions \ {store.cur} /\ store.versions[v].st = "published"
  /\ store' = OnLive([store EXCEPT !.cur = v])
  /\ editing' = FALSE /\ chosen' = TRUE

\* The routes that edit the live fields.
EditLive(g) == /\ Operator /\ g \in Present(store.live)
               /\ store' = [store EXCEPT !.live[g].by = "own"]
               /\ editing' = TRUE /\ UNCHANGED chosen

\* Until 018 the results of a field went with it.
Detached(d) == d.schema >= 18
DeleteLive(g) == /\ Operator /\ g \in Present(store.live)
                 /\ store' = [store EXCEPT !.live[g] = Absent,
                                           !.results = IF Detached(store) THEN @ ELSE @ \ {g}]
                 /\ editing' = TRUE /\ UNCHANGED chosen

\* A job is created under the current version and analysed with the live
\* fields, or with those of the version.
Analyse(t) ==
  /\ phase = "up" /\ store.job[t] = Absent
  /\ LET rows == IF store.cur = 0 THEN store.live ELSE Current(store).rows
     IN store' = [store EXCEPT !.job[t] = store.cur,
                               !.results = @ \cup {g \in Present(rows) : rows[g].on}]
  /\ UNCHANGED <<phase, release, fresh, editing, chosen, own, starts>>

UpgradeNext == \/ \E r \in Releases : Start(r)
               \/ Migrate \/ Reconcile \/ Seed \/ Stop
               \/ PublishOwn \/ \E v \in 1 .. Len(store.versions) : ActivateEarlier(v)
               \/ \E g \in Group : EditLive(g) \/ DeleteLive(g)
               \/ \E t \in Task : Analyse(t)

UpgradeSpec == UpgradeInit /\ [][UpgradeNext]_upgradeVars
----------------------------------------------------------------------------
\* When the program is up, the live table and the section row, which the older
\* routes and the forms of the client read, say what the current version says,
\* which the analysis reads: whatever releases were installed in whatever
\* order, and wherever a start was cut off, unless someone edited them since.
\* And no job is left without a version.
LiveIsCurrent ==
  (phase = "up" /\ store.schema >= 18)
     => /\ store.cur # 0 /\ \A t \in Task : store.job[t] # 0
        /\ ~editing => /\ On(store.live) = On(Current(store).rows)
                       /\ store.source = Current(store).source

\* What the releases intend the section to say at schema n.
Intended(n) ==
  [dims |-> TRUE,
   contract |-> IF n >= 25 THEN "modern" ELSE "classic",
   protocol |-> IF n >= 30 THEN "v2" ELSE "strict",
   mode |-> IF n = 28 THEN "issue" ELSE "screenshot",
   by |-> IF n >= 30 THEN "v2" ELSE IF n >= 25 THEN "v4" ELSE "v11",
   groups |-> IF n >= 26 THEN Core \cup {"modern"} ELSE IF n = 25 THEN Core
              ELSE Core \cup {"classic"}]
Says(content) == [dims |-> content.dims, contract |-> content.contract,
                  protocol |-> content.protocol, mode |-> content.mode,
                  by |-> content.rows["quality"].by,
                  groups |-> {p[1] : p \in On(content.rows)}]

\* Databases to which the operator did nothing end up configured alike, however
\* many releases they skipped and wherever a start was cut off: as their schema
\* intends, and a new one as schema 24 (the seed stops there).  And however the
\* section was edited, what the migrations publish can be taken for a draft and
\* published again: it passes the checks of a publication.
UpgradedAlike ==
  (phase = "up" /\ store.schema >= 24)
     => /\ own = 0 => Says(Current(store)) = Intended(IF fresh THEN 24 ELSE store.schema)
        /\ (~chosen /\ store.schema # 28) => Publishable(Current(store))

\* An upgrade ends in one configuration, wherever it is read.
UpgradeStands == LiveIsCurrent /\ UpgradedAlike

\* A start without pending migrations leaves the configuration as it was, the
\* repair of a history included: it knows the history by two numbers, which an
\* operator's own publications can reach as well (it does change a version from
\* before the screenshots which the operator went back to).  And nothing that
\* was published, bound to a job or found by an analysis changes or goes at any
\* step of an upgrade or of the operator's (from 018 on).
WhatWasDoneStands ==
  [][/\ (store.cur # 0 /\ store.schema = store'.schema /\ own' = own /\ ~chosen)
          => Current(store') = Current(store)
     /\ SubSeq(store'.versions, 1, Len(store.versions)) = store.versions
     /\ \A t \in Task : store.job[t] \notin {Absent, 0} => store'.job[t] = store.job[t]
     /\ store.schema >= 18 => store.results \subseteq store'.results]_upgradeVars
=============================================================================
