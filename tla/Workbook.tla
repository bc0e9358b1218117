------------------------------ MODULE Workbook ------------------------------
(***************************************************************************)
(* The results of one record of a section without rules of its own, as a   *)
(* person sees and corrects them and as the workbook of the task is given  *)
(* them.  The screen and the export each put the newest field runs, the    *)
(* run of the whole record that older versions made, what was saved for    *)
(* the record and what was saved for the section together, one in the      *)
(* browser and one on the server.  The export also places its columns in   *)
(* the imported sheet.                                                     *)
(*                                                                         *)
(* Both sides list the runs of a field by their time and look at the first *)
(* only: what that one found stands for all of them.  A header is a label  *)
(* with or without a key in brackets.  The export computes everything      *)
(* after its last wait in one step, and nobody reads the plan but it.      *)
(***************************************************************************)
EXTENDS Naturals, Sequences, Functions

CONSTANTS OutField,      \* the fields the version exports
          Result, Typed, \* what a run, and what a person, may say of a field
          Tab,           \* the browser tabs that show the record
          Sheet,         \* the header rows that may be imported
          Setting,       \* the columns a version may configure
          KeysOf,        \* KeysOf[k]: the header keys known for column k
          Inherited,          \* what older versions may have left of a record
          Blank          \* no value

\* What may be said of the fields, and what may have been saved of a record.
Outcome == Result \cup Typed
Said == [OutField -> Outcome \cup {Blank}]
SavedReview == [human : Said \cup {Blank}]

ASSUME BookAssumption ==
  /\ Blank \notin Outcome \cup Said \cup SavedReview /\ Inherited \subseteq Said
  /\ \A row \in Sheet \cup Setting : row \in Seq(Range(row))

VARIABLES found,      \* found[f]: the result of the newest run of a field, or Blank
          ran,        \* a field of the section was run, exported or not
          old,        \* what a run of the whole record found before fields had runs
          early,      \* what was saved for the record before reviews had a section
          review,     \* what was saved for the section
          pane,       \* what each tab shows and has changed
          analysing,  \* a run of the job or of the record is on
          plan        \* where the export placed the columns of the version in the sheet
bookVars == <<found, ran, old, early, review, pane, analysing>>
planVars == <<plan>>

----------------------------------------------------------------------------
(* Columns. *)

Shared == <<[key |-> "platform_name", head |-> [label |-> "platform", key |-> ""]],
            [key |-> "conversation_id", head |-> [label |-> "conversation", key |-> ""]]>>

\* What a version may be published with: a column has a key and a header of
\* its own, and the two that are not results keep their keys.
ValidColumns(cols) ==
  \A i, j \in DOMAIN cols :
    i # j => cols[i].key # cols[j].key /\ cols[i].head # cols[j].head

\* The shared columns the version does not configure come first.
ColumnsOf(cols) ==
  LET lacking(c) == IF \A i \in DOMAIN cols : cols[i].key # c.key THEN <<c>> ELSE <<>>
  IN lacking(Shared[1]) \o lacking(Shared[2]) \o cols

HeaderMatches(actual, wanted, key) ==
  \/ actual.label = wanted.label
  \/ actual.key # "" /\ actual.key = wanted.key
  \/ actual.key # "" /\ wanted.key = "" /\ actual.key = wanted.label
  \/ key \in DOMAIN KeysOf /\ actual.key \in KeysOf[key]

\* A column goes to the first header that matches it, else to the next free
\* place; the search for one does not end for a header placed before.
Place(heads, p, c) ==
  LET matching == {i \in DOMAIN heads : HeaderMatches(heads[i], c.head, c.key)} IN
  IF p.stuck THEN p
  ELSE IF matching # {}
       THEN [p EXCEPT !.at = Append(@, CHOOSE i \in matching : \A j \in matching : i <= j)]
  ELSE IF c.head \in p.used THEN [p EXCEPT !.stuck = TRUE]
  ELSE [p EXCEPT !.at = Append(@, p.next), !.next = @ + 1, !.used = @ \cup {c.head}]

OutputPlan(heads, cols) ==
  LET After[n \in 0 .. Len(cols)] ==
        IF n = 0 THEN [at |-> <<>>, next |-> Len(heads) + 1, used |-> Range(heads), stuck |-> FALSE]
        ELSE Place(heads, After[n - 1], cols[n])
  IN After[Len(cols)]

----------------------------------------------------------------------------
(* Values. *)

OldFound(f) == IF old = Blank THEN Blank ELSE old[f]

\* In the browser: the old run only counts while no field was run.
Latest == [f \in OutField |-> IF ran THEN found[f] ELSE OldFound(f)]

\* On the server: it counts for every field without a result of its own.
Aggregated(f) == IF found[f] # Blank THEN found[f] ELSE OldFound(f)

Says(saved, f) == saved # Blank /\ saved.human # Blank /\ saved.human[f] # Blank

\* (mutant) what was saved for the record counts before what was for the section
CellOfRecordFirst(f) ==
  CASE early # Blank /\ early[f] # Blank -> early[f]
    [] (early = Blank \/ early[f] = Blank) /\ Says(review, f) -> review.human[f]
    [] OTHER -> Aggregated(f)
\* What the export writes: the section's review over the record's, over the
\* runs.  A value that is not given is not saved.
Cell(f) ==
  CASE Says(review, f) -> review.human[f]
    [] ~Says(review, f) /\ early # Blank /\ early[f] # Blank -> early[f]
    [] OTHER -> Aggregated(f)

\* In the browser: what was saved for the record counts while nothing was
\* saved for the section.
Shows(latest, saved, f) ==
  CASE Says(saved, f) -> saved.human[f]
    [] saved = Blank /\ early # Blank /\ early[f] # Blank -> early[f]
    [] OTHER -> latest[f]

----------------------------------------------------------------------------

BookInit ==
  /\ found = [f \in OutField |-> Blank] /\ ran = FALSE
  /\ old \in Inherited \cup {Blank} /\ early \in Inherited \cup {Blank}
  /\ review = Blank /\ analysing = FALSE
  /\ pane = [t \in Tab |-> Blank]

Analyse == /\ ~analysing
           /\ analysing' = TRUE
           /\ UNCHANGED <<found, ran, old, early, review, pane>>

\* A run that fails leaves the field without a result.
FieldDone(f) ==
  /\ analysing /\ ran' = TRUE
  /\ \E v \in Result \cup {Blank} : found' = [found EXCEPT ![f] = v]
  /\ UNCHANGED <<old, early, review, pane, analysing>>

\* A field that is not exported.
OtherFieldDone == /\ analysing /\ ran' = TRUE
                  /\ UNCHANGED <<found, old, early, review, pane, analysing>>

AnalysisDone == /\ analysing
                /\ analysing' = FALSE
                /\ UNCHANGED <<found, ran, old, early, review, pane>>

Open(t) == /\ pane' = [pane EXCEPT ![t] = [latest |-> Latest, saved |-> review]]
           /\ UNCHANGED <<found, ran, old, early, review, analysing>>

\* Changing one value makes every value on the screen the person's.
Change(t, f) ==
  /\ pane[t] # Blank
  /\ \E v \in Typed :
       pane' = [pane EXCEPT ![t].saved =
                  [human |-> [g \in OutField |->
                     IF g = f THEN v ELSE Shows(pane[t].latest, pane[t].saved, g)]]]
  /\ UNCHANGED <<found, ran, old, early, review, analysing>>

\* So does a note, unless something was saved or changed before.
Note(t) ==
  /\ pane[t] # Blank
  /\ pane' = [pane EXCEPT ![t].saved =
                IF pane[t].saved # Blank /\ pane[t].saved.human # Blank THEN pane[t].saved
                ELSE [human |-> [g \in OutField |-> Shows(pane[t].latest, pane[t].saved, g)]]]
  /\ UNCHANGED <<found, ran, old, early, review, analysing>>

\* Without a review of the section, what the record has is saved for it.
SavedBy(t) == IF pane[t].saved # Blank /\ pane[t].saved.human # Blank
              THEN pane[t].saved.human ELSE early

\* A review is refused while the record or its job is being analysed.
SaveReview(t) ==
  /\ pane[t] # Blank /\ ~analysing
  /\ review' = [human |-> SavedBy(t)]
  /\ pane' = [pane EXCEPT ![t] = [latest |-> Latest, saved |-> review']]
  /\ UNCHANGED <<found, ran, old, early, analysing>>

BookNext ==
  \/ Analyse \/ AnalysisDone \/ OtherFieldDone
  \/ \E f \in OutField : FieldDone(f)
  \/ \E t \in Tab : Open(t) \/ Note(t) \/ SaveReview(t) \/ \E f \in OutField : Change(t, f)
BookSpec == BookInit /\ [][BookNext]_bookVars

\* The columns are placed; a plan that does not end keeps the server from anything
\* else.
PlanInit == plan = Blank

ExportBook == /\ plan = Blank
              /\ \E heads \in Sheet, cols \in {c \in Setting : ValidColumns(c)} :
                   plan' = [heads |-> heads, configured |-> cols,
                            placed |-> OutputPlan(heads, ColumnsOf(cols))]
PlanSpec == PlanInit /\ [][ExportBook]_planVars

----------------------------------------------------------------------------

\* Nobody has said anything of the field, and it has no result but that of an old
\* run: once any field was run, the screen leaves it out and the workbook does not.
OnlyOld(f) ==
  /\ ran /\ found[f] = Blank /\ OldFound(f) # Blank
  /\ ~Says(review, f) /\ (early = Blank \/ early[f] = Blank)

\* Whoever opens the record now is shown what the workbook would be given, whatever
\* tabs saved before and however old their screens were, but for what only an old
\* run found.
ShownIsExported ==
  \A f \in OutField : Shows(Latest, review, f) = IF OnlyOld(f) THEN Blank ELSE Cell(f)

\* No column of the version has the header of a shared column that it does not
\* configure; publication only compares those it configures with each other.
OwnHeaders(configured, cols) ==
  \A i, j \in DOMAIN cols :
    (i # j /\ cols[i] \in Range(Shared) \ Range(configured)) => cols[i].head # cols[j].head

StandsFor(head, c) == HeaderMatches(head, c.head, c.key)

\* In the sheet where a header stands for the column, behind it where none does.
WellPlaced(heads, c, place) ==
  IF place \in DOMAIN heads THEN StandsFor(heads[place], c)
  ELSE place > Len(heads) /\ \A n \in DOMAIN heads : ~StandsFor(heads[n], c)

\* No header of the sheet stands for two columns.
OwnPlaces(heads, cols) ==
  \A n \in DOMAIN heads, i, j \in DOMAIN cols :
    StandsFor(heads[n], cols[i]) /\ StandsFor(heads[n], cols[j]) => i = j

\* The export of a version with OwnHeaders ends: without, the search for a place may
\* go on for ever.  When it ends, every column is well placed; and no two share a
\* place if the sheet has OwnPlaces: without, one may overwrite the other.
ColumnsArePlaced ==
  plan # Blank =>
    LET cols == ColumnsOf(plan.configured)
        at == plan.placed.at
    IN /\ OwnHeaders(plan.configured, cols) => ~plan.placed.stuck
       /\ ~plan.placed.stuck =>
            /\ Len(at) = Len(cols)
            /\ \A i \in DOMAIN cols : WellPlaced(plan.heads, cols[i], at[i])
            /\ OwnPlaces(plan.heads, cols) => \A i, j \in DOMAIN cols : at[i] = at[j] => i = j

BookStands == ShownIsExported /\ ColumnsArePlaced
=============================================================================
