----------------------------- MODULE SheetImport -----------------------------
(***************************************************************************)
(* What becomes of a workbook that a person imports: the browser has it    *)
(* previewed and shows what would be made of it, the person confirms, and  *)
(* the worker reads the file again and makes the task.  The preview and    *)
(* the import judge the workbook each by themselves: between the two the   *)
(* platform may be renamed, and the media of the file are first looked at  *)
(* by the import.                                                          *)
(*                                                                         *)
(* A sheet has its headers in row 1.  A result header comes with a key in  *)
(* brackets or without ("keyed", "plain"); so do the result columns of the *)
(* published version.  How an import survives a crash is the subject of    *)
(* Imports.                                                                *)
(***************************************************************************)
EXTENDS Naturals, Sequences, FiniteSets, Functions

CONSTANTS Offered,      \* the workbooks a person may choose, with their section
          ResultKey,    \* the columns results are written to
          RequiredKey,  \* those without which a result is not complete
          PlatformName, \* names the platform may be given
          NoFile        \* nothing was chosen, promised, taken in or made

\* A row has cells of result columns under their headers; pictures are listed in
\* the order of the sheet.
Header == [key : ResultKey, style : {"keyed", "plain"}]
Picture == [row : Nat \ {0}, inside : BOOLEAN, whole : BOOLEAN]
IsSheet(sheet) == /\ sheet.heads \subseteq Header /\ sheet.pics \in Seq(Picture)
                  /\ \A k \in DOMAIN sheet.pics :
                       sheet.pics[k].row # 1 => sheet.filled[sheet.pics[k].row] \subseteq sheet.heads

ASSUME SheetAssumption ==
  /\ RequiredKey \subseteq ResultKey
  /\ \A f \in Offered : /\ f.quality \in BOOLEAN /\ f.style \in {"keyed", "plain"}
                        /\ f.sheets \in Seq(Range(f.sheets))
                        /\ \A sheet \in Range(f.sheets) : IsSheet(sheet)

VARIABLES dialog,    \* what the tab shows: "none", "section", "reading" or "preview"
          chosen,    \* the workbook it shows
          promise,   \* the preview it shows
          named,     \* the platform's name
          taken,     \* the import the server accepted: the workbook and the name then
          made       \* what the worker made of it
sheetVars == <<dialog, chosen, promise, named, taken, made>>

----------------------------------------------------------------------------
(* Reading a sheet. *)

Keyed(sheet) == {h \in sheet.heads : h.style = "keyed"}
Columns(keys, style) == [key : keys, style : {style}]

\* The keyed headers of the sheet, if it has any, stand for the columns of the
\* version, also for the required ones.
ResultColumns(file0, sheet) ==
  IF Keyed(sheet) # {} THEN Keyed(sheet) ELSE Columns(ResultKey, file0.style)
CompleteWith(file0, sheet) ==
  IF Keyed(sheet) # {} THEN {h \in Keyed(sheet) : h.key \in RequiredKey}
  ELSE Columns(RequiredKey, file0.style)

\* The headers are the cells of the first row.
FilledIn(sheet, r) == IF r = 1 THEN sheet.heads ELSE sheet.filled[r]

Inspect(file0, sheet, r) ==
  IF FilledIn(sheet, r) \cap ResultColumns(file0, sheet) = {} THEN "empty"
  ELSE IF CompleteWith(file0, sheet) \subseteq FilledIn(sheet, r) THEN "complete"
  ELSE "conflict"

FirstOfRows(pics, those) ==
  {k \in those : \A j \in those : pics[j].row = pics[k].row => k <= j}

\* The pictures that count, by their numbers.  For a quality check those in the
\* image column do, the first of each row.  Where there is none and the
\* column's header is keyed, the pictures of the data rows count.
Anchors(file0, sheet) ==
  LET pics == sheet.pics
      within == FirstOfRows(pics, {k \in DOMAIN pics : pics[k].inside})
  IN CASE ~file0.quality -> DOMAIN pics
       [] file0.quality /\ sheet.image = "none" -> {}
       [] file0.quality /\ sheet.image # "none" ->
            IF within # {} \/ sheet.image # "keyed" THEN within
            ELSE FirstOfRows(pics, {k \in DOMAIN pics : pics[k].row > 1})

\* The pictures that count and whose rows are of the given status, by sheet and
\* number.
PictureAt(file0, p) == file0.sheets[p[1]].pics[p[2]]
Having(file0, status) ==
  UNION {{i} \X {k \in Anchors(file0, file0.sheets[i]) :
                   LET sheet == file0.sheets[i]
                   IN ~file0.quality \/ Inspect(file0, sheet, sheet.pics[k].row) = status} :
         i \in DOMAIN file0.sheets}

\* A sheet with pictures or an image column must have the columns of a generic
\* version; for a quality check some sheet must have the image column.
Incomplete(file0, sheet) ==
  /\ sheet.pics # <<>> \/ sheet.image # "none"
  /\ ~sheet.required \/ (file0.imageRequired /\ sheet.image = "none")
SheetsOf(file0) == Range(file0.sheets)
LacksColumns(file0) == \E s \in SheetsOf(file0) : Incomplete(file0, s)
LacksImages(file0) == \A s \in SheetsOf(file0) : Anchors(file0, s) = {}

\* Every row with a platform must be of the one selected, pictures or not.
Foreign(file0, n) == \E s \in SheetsOf(file0) : s.platform \notin {n, NoFile}

----------------------------------------------------------------------------

\* What the dialog is told.
PreviewOf(file0, n) ==
  [pictures |-> ~LacksImages(file0),
   missing |-> IF file0.quality THEN \A s \in SheetsOf(file0) : s.image = "none"
               ELSE LacksColumns(file0),
   foreign |-> Foreign(file0, n),
   pending |-> Cardinality(Having(file0, "empty")),
   historical |-> IF file0.quality THEN Cardinality(Having(file0, "complete")) ELSE 0,
   conflicts |-> IF file0.quality THEN Cardinality(Having(file0, "conflict")) ELSE 0]

MayConfirm(p) == p.pictures /\ ~p.missing /\ ~p.foreign /\ p.conflicts = 0

\* What the worker does: a record of each picture to be analysed, with the
\* cells of its row except the columns results are read from.
Carried(file0, sheet, r) ==
  FilledIn(sheet, r) \ (IF file0.quality THEN ResultColumns(file0, sheet) ELSE {})
RecordsOf(file0) ==
  [p \in Having(file0, "empty") |->
     LET r == PictureAt(file0, p).row
     IN [sheet |-> p[1], row |-> r, sources |-> Carried(file0, file0.sheets[p[1]], r)]]

Refused == [task |-> FALSE, records |-> <<>>]
Make(file0, n) ==
  IF \/ ~file0.quality /\ LacksColumns(file0)
     \/ LacksImages(file0)
     \/ Foreign(file0, n)
     \/ file0.quality /\ Having(file0, "conflict") # {}
     \/ \E p \in Having(file0, "empty") : ~PictureAt(file0, p).whole
  THEN Refused
  ELSE [task |-> TRUE, records |-> RecordsOf(file0)]

----------------------------------------------------------------------------

SheetInit ==
  /\ dialog = "none" /\ chosen = NoFile /\ promise = NoFile
  /\ named \in PlatformName
  /\ taken = NoFile /\ made = NoFile

\* (bound: one import.)  Another choice first drops the present one.
ImportFile ==
  /\ dialog = "none" /\ taken = NoFile
  /\ dialog' = "section" /\ chosen' \in Offered /\ promise' = NoFile
  /\ UNCHANGED <<named, taken, made>>

PreviewImport ==
  /\ dialog = "section"
  /\ dialog' = "reading"
  /\ UNCHANGED <<chosen, promise, named, taken, made>>

PreviewShown ==
  /\ dialog = "reading"
  /\ dialog' = "preview" /\ promise' = PreviewOf(chosen, named)
  /\ UNCHANGED <<chosen, named, taken, made>>

\* The request fails, or the tab has moved to another task.
PreviewLost ==
  /\ dialog = "reading"
  /\ dialog' = "section"
  /\ UNCHANGED <<chosen, promise, named, taken, made>>

\* Back to the choice of the section.
CancelPreview ==
  /\ dialog = "preview"
  /\ dialog' = "section" /\ promise' = NoFile
  /\ UNCHANGED <<chosen, named, taken, made>>

\* Cancelled, or another workbook is chosen: a preview being read is aborted.
DropFile ==
  /\ dialog # "none"
  /\ dialog' = "none" /\ chosen' = NoFile /\ promise' = NoFile
  /\ UNCHANGED <<named, taken, made>>

\* The server notes the platform's name with the import it accepts.
CommitImport ==
  /\ dialog = "preview" /\ MayConfirm(promise) /\ taken = NoFile
  /\ dialog' = "none" /\ chosen' = NoFile
  /\ taken' = [file |-> chosen, name |-> named]
  /\ UNCHANGED <<promise, named, made>>

RenamePlatform ==
  /\ made = NoFile
  /\ \E n \in PlatformName \ {named} : named' = n
  /\ UNCHANGED <<dialog, chosen, promise, taken, made>>

RunImport ==
  /\ taken # NoFile /\ made = NoFile
  /\ made' = Make(taken.file, taken.name)
  /\ UNCHANGED <<dialog, chosen, promise, named, taken>>

SheetNext ==
  \/ ImportFile \/ PreviewImport \/ PreviewShown \/ PreviewLost \/ CancelPreview \/ DropFile
  \/ CommitImport \/ RenamePlatform \/ RunImport
SheetSpec == SheetInit /\ [][SheetNext]_sheetVars

----------------------------------------------------------------------------

\* The task has the records the dialog announced.  A task that was announced
\* is refused, and leaves nothing, only for a picture without its media or for
\* the platform's new name (importWorkbookStreaming against
\* previewWorkbookStreaming and ImportPreviewDialog).
PromiseIsKept ==
  made # NoFile =>
    IF made.task THEN Cardinality(DOMAIN made.records) = promise.pending
    ELSE /\ made.records = <<>>
         /\ \/ Foreign(taken.file, taken.name)
            \/ \E s \in SheetsOf(taken.file) : \E k \in DOMAIN s.pics : ~s.pics[k].whole

\* In a quality check no two records are of one row, and no row that had a
\* result is analysed and then written over: the only results overlooked are
\* plain ones, in a sheet that has keyed headers too or under a version whose
\* columns are keyed.
ResultsAreKept ==
  (made # NoFile /\ made.task /\ taken.file.quality) =>
    \A i, j \in DOMAIN made.records :
      LET a == made.records[i]
          b == made.records[j]
          sheet == taken.file.sheets[a.sheet]
          filled == FilledIn(sheet, a.row)
      IN /\ (a.sheet = b.sheet /\ a.row = b.row) => i = j
         /\ filled # {} => /\ \A h \in filled : h.style = "plain"
                           /\ Keyed(sheet) # {} \/ taken.file.style = "keyed"
         /\ a.sources = filled

\* Every row with a picture in the image column is analysed or has its result.
NoPictureIsForgotten ==
  (made # NoFile /\ made.task /\ taken.file.quality) =>
    \A i \in DOMAIN taken.file.sheets :
      LET sheet == taken.file.sheets[i] IN
      \A k \in DOMAIN sheet.pics :
        (sheet.image # "none" /\ sheet.pics[k].inside) =>
          \/ \E j \in DOMAIN made.records :
               made.records[j].sheet = i /\ made.records[j].row = sheet.pics[k].row
          \/ FilledIn(sheet, sheet.pics[k].row) # {}

SheetsHold == PromiseIsKept /\ ResultsAreKept /\ NoPictureIsForgotten
=============================================================================
