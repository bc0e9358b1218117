--------------------------- MODULE KnowledgeImport ---------------------------
(***************************************************************************)
(* Knowledge bases, edited by hand and filled from workbooks.  An import   *)
(* takes two requests: the first checks and stages an uploaded workbook,   *)
(* compares it with the base and hands out a token; the second takes the   *)
(* token, keeps the workbook, reads the base, waits for the workbook to be *)
(* read and writes the differences in one transaction.  Bases and items    *)
(* change meanwhile, tokens expire, the server stops.                      *)
(*                                                                         *)
(* The columns of a base are its headers and whether one column is the     *)
(* result (then an item is known by its key) or all are (then by all its   *)
(* values).  The search index has the rows of the items and is left out.   *)
(***************************************************************************)
EXTENDS Naturals, FiniteSets, Sequences

CONSTANTS KBase,      \* ids of knowledge bases
          Upload,     \* uploaded workbooks
          Workbook,   \* what one holds: [head, lines: Seq([key, text]), bad]
          Mapping,    \* column mappings that a request supplies: [head, keyed]
          FirstColumns, \* the columns of the first base
          MaxEdits,   \* bound on the edits by hand
          NoMapping, NoKBase,
          Unused      \* an id that no base has had
Line == UNION {{w.lines[i] : i \in DOMAIN w.lines} : w \in Workbook}
Cols == Mapping \cup {FirstColumns} \cup {[head |-> w.head, keyed |-> FALSE] : w \in Workbook}
KBaseRow == [cols : Cols, on : BOOLEAN]

ASSUME WorkbookAssumption ==
  /\ \A w \in Workbook : w.lines \in Seq(Line)
  /\ NoMapping \notin Cols /\ NoMapping \notin Workbook
  /\ NoKBase \notin KBase /\ Unused # NoKBase /\ {NoKBase, Unused} \cap KBaseRow = {}

VARIABLES
  kb,        \* kb[b]: Unused, NoKBase once deleted, or [cols, on]
  entries,   \* entries[b]: its items, [path, line, on]
  history,   \* rows of knowledge_imports: [base, up]
  upload,    \* upload[u]: [at, base, cols, seen, book]
  place,     \* place[u]: where its file is, see Places
  lost,      \* workbooks whose request was cut off by a stop of the server
  report,    \* the numbers of the newest import
  edits

\* uploaded: in the directory of uploads; staged: in that of previews; kept: in
\* that of imports; leftover and orphan: still in one of the first two or in
\* the last, after its removal failed.
Places == {"none", "uploaded", "staged", "kept", "leftover", "orphan"}

storeVars == <<kb, entries, history>>
requestVars == <<upload, place, lost>>
importVars == <<storeVars, requestVars, report, edits>>

Exists(b) == b # NoKBase /\ kb[b] \notin {Unused, NoKBase}
ReadBase(b) == IF Exists(b) THEN kb[b] ELSE NoKBase
Free == [at |-> "free", base |-> NoKBase, cols |-> NoMapping, seen |-> NoKBase,
         book |-> NoMapping]

KnowledgeInit ==
  /\ \E b \in KBase, open \in BOOLEAN :
       kb = [c \in KBase |-> IF c = b THEN [cols |-> FirstColumns, on |-> open] ELSE Unused]
  /\ entries = [b \in KBase |-> {}]
  /\ history = {}
  /\ upload = [u \in Upload |-> Free]
  /\ place = [u \in Upload |-> "none"]
  /\ lost = {}
  /\ report = [added |-> 0, updated |-> 0, skipped |-> 0]
  /\ edits = 0

----------------------------------------------------------------------------
(* A workbook as the columns read it. *)

PathOf(cols, line) == IF cols.keyed THEN <<line.key>> ELSE <<line.key, line.text>>

\* Mapped columns must be those of the workbook; without a mapping every
\* column is a result.
Reads(book, cols) == cols # NoMapping => cols.head = book.head
ColumnsOf(book, cols) == IF cols = NoMapping THEN [head |-> book.head, keyed |-> FALSE] ELSE cols

\* The last line of a path counts.
Parsed(book, cols) ==
  {[path |-> PathOf(cols, book.lines[i]), line |-> book.lines[i]] :
     i \in {n \in DOMAIN book.lines :
              \A k \in DOMAIN book.lines :
                 k > n => PathOf(cols, book.lines[k]) # PathOf(cols, book.lines[n])}}

At(b, path) == {e \in entries[b] : e.path = path}

Summary(b, parsed) ==
  LET Count(P(_)) == Cardinality({p \in parsed : P(p)})
      Same(p) == \E e \in At(b, p.path) : e.line = p.line
  IN  [added |-> Count(LAMBDA p : At(b, p.path) = {}),
       updated |-> Count(LAMBDA p : At(b, p.path) # {} /\ ~Same(p)),
       skipped |-> Count(Same)]

\* A base that is not asked for by name is found by its columns, when it is
\* the only one.
Resolved(u, cols) ==
  LET alike == {b \in KBase : Exists(b) /\ kb[b].cols = cols}
  IN  IF upload[u].base # NoKBase THEN upload[u].base
      ELSE IF Cardinality(alike) = 1 THEN CHOOSE b \in alike : TRUE ELSE NoKBase

----------------------------------------------------------------------------
(* The preview. *)

Puts(u, where) == place' = [place EXCEPT ![u] = where]

RequestPreview(u) ==
  /\ upload[u] = Free /\ u \notin lost
  /\ \E b \in KBase \cup {NoKBase}, cols \in Mapping \cup {NoMapping}, w \in Workbook :
       upload' = [upload EXCEPT ![u] = [Free EXCEPT !.at = "validating", !.base = b,
                                                    !.cols = cols, !.book = w]]
  /\ Puts(u, "uploaded")
  /\ UNCHANGED <<storeVars, lost, report, edits>>

\* What becomes of a file that is removed; that a removal fails is ignored.
Remains(where) == CASE where = "none" -> {"none"}
                    [] where \in {"kept", "orphan"} -> {"none", "orphan"}
                    [] OTHER -> {"none", "leftover"}

\* Every failure of a request removes its file.
Reject(u) == /\ upload' = [upload EXCEPT ![u] = [Free EXCEPT !.at = "gone"]]
             /\ \E where \in Remains(place[u]) : Puts(u, where)
             /\ UNCHANGED <<storeVars, lost, report, edits>>

Invalid(u) == upload[u].at \in {"validating", "checking"} /\ Reject(u)

\* The mapping of the base, read now, is used for the workbook.
Mismatched(u) == /\ Exists(upload[u].base)
                 /\ upload[u].cols \notin {NoMapping, kb[upload[u].base].cols}

Stage(u) ==
  /\ upload[u].at = "validating"
  /\ IF Mismatched(u) THEN Reject(u)
     ELSE /\ upload' = [upload EXCEPT ![u].at = "previewing",
                                      ![u].seen = ReadBase(upload[u].base)]
          /\ Puts(u, "staged")
          /\ UNCHANGED <<storeVars, lost, report, edits>>

Chosen(u) == IF upload[u].seen # NoKBase THEN upload[u].seen.cols ELSE upload[u].cols

Previewed(u) ==
  LET cols == ColumnsOf(upload[u].book, Chosen(u)) IN
  /\ upload[u].at = "previewing"
  /\ IF ~Reads(upload[u].book, Chosen(u)) \/ (upload[u].base # NoKBase /\ ~Exists(upload[u].base))
     THEN Reject(u)
     ELSE /\ upload' = [upload EXCEPT ![u].at = "pending", ![u].base = Resolved(u, cols),
                                      ![u].cols = NoMapping, ![u].seen = NoKBase]
          /\ UNCHANGED <<storeVars, place, lost, report, edits>>

\* A token is good for half an hour.
Expire(u) == upload[u].at = "pending" /\ Reject(u)

----------------------------------------------------------------------------
(* The import. *)

\* The token is taken before anything is awaited.
ConfirmImport(u) ==
  /\ upload[u].at = "pending"
  /\ \E cols \in Mapping \cup {NoMapping} :
       upload' = [upload EXCEPT ![u].at = "checking", ![u].cols = cols]
  /\ UNCHANGED <<storeVars, place, lost, report, edits>>

Keep(u) ==
  /\ upload[u].at = "checking"
  /\ IF Mismatched(u) \/ (upload[u].base # NoKBase /\ ~Exists(upload[u].base))
     THEN Reject(u)
     ELSE /\ upload' = [upload EXCEPT ![u].at = "importing",
                                      ![u].seen = ReadBase(upload[u].base)]
          /\ Puts(u, "kept")
          /\ UNCHANGED <<storeVars, lost, report, edits>>

Refused(u) ==
  /\ upload[u].at = "importing"
  /\ ~Reads(upload[u].book, Chosen(u)) \/ upload[u].book.bad
  /\ Reject(u)

\* (mutant) every item of the workbook is switched on
AfterAllOn(b, parsed) ==
  {e \in entries[b] : \A p \in parsed : p.path # e.path}
    \cup {[path |-> p.path, line |-> p.line, on |-> TRUE] : p \in parsed}
\* A known item keeps its switch, a new one is switched on.
After(b, parsed) ==
  {e \in entries[b] : \A p \in parsed : p.path # e.path}
    \cup {[path |-> p.path, line |-> p.line,
           on |-> \A e \in At(b, p.path) : e.on] : p \in parsed}

Recorded(b, u) == history \cup {[base |-> b, up |-> u]}

\* The base is written as it was read before the workbook was: one deleted
\* meanwhile is made again, with no items, and one switched off meanwhile is
\* switched on.  The items are those of now.
Import(u) ==
  LET now == upload[u]
      cols == ColumnsOf(now.book, Chosen(u))
      parsed == Parsed(now.book, cols)
  IN
  /\ now.at = "importing" /\ Reads(now.book, Chosen(u)) /\ ~now.book.bad
  /\ \E b \in KBase :
       /\ IF now.base # NoKBase THEN b = now.base ELSE kb[b] = Unused
       /\ kb' = [kb EXCEPT ![b] = [cols |-> cols, on |-> now.seen = NoKBase \/ now.seen.on]]
       /\ entries' = [entries EXCEPT ![b] = After(b, parsed)]
       /\ report' = Summary(b, parsed)
       /\ history' = Recorded(b, u)
  /\ upload' = [upload EXCEPT ![u] = [Free EXCEPT !.at = "imported"]]
  /\ UNCHANGED <<place, lost, edits>>

----------------------------------------------------------------------------
(* Edits by hand. *)

Edit == edits < MaxEdits /\ edits' = edits + 1 /\ UNCHANGED <<upload, lost, report>>

SwitchKBase(b) ==
  /\ Exists(b) /\ Edit
  /\ kb' = [kb EXCEPT ![b].on = ~@]
  /\ UNCHANGED <<entries, history, place>>

\* The files of uploads are removed.
Cleared(ups) ==
  {f \in [Upload -> Places] :
     \A u \in Upload : f[u] \in IF u \in ups THEN Remains(place[u]) ELSE {place[u]}}

\* The rows of its imports go with it, and their files.

DeleteKBase(b) ==
  /\ Exists(b) /\ Edit
  /\ kb' = [kb EXCEPT ![b] = NoKBase]
  /\ entries' = [entries EXCEPT ![b] = {}]
  /\ history' = {h \in history : h.base # b}
  /\ place' \in Cleared({u \in Upload : [base |-> b, up |-> u] \in history})

Enter(b, entry, others) == entries' = [entries EXCEPT ![b] = others \cup {entry}]

\* An item that is added takes the place of the one with its path.
AddEntry(b, line, on) ==
  LET path == PathOf(kb[b].cols, line) IN
  /\ Exists(b) /\ Edit
  /\ Enter(b, [path |-> path, line |-> line, on |-> on], entries[b] \ At(b, path))
  /\ UNCHANGED <<kb, history, place>>

\* An item does not take the path of another: the path is unique in a base.
EditEntry(b, e, line, on) ==
  LET path == PathOf(kb[b].cols, line) IN
  /\ Exists(b) /\ e \in entries[b] /\ At(b, path) \subseteq {e} /\ Edit
  /\ Enter(b, [path |-> path, line |-> line, on |-> on], entries[b] \ {e})
  /\ UNCHANGED <<kb, history, place>>

DeleteEntry(b, e) ==
  /\ Exists(b) /\ e \in entries[b] /\ Edit
  /\ entries' = [entries EXCEPT ![b] = @ \ {e}]
  /\ UNCHANGED <<kb, history, place>>

\* The server stops: requests and tokens are gone.  Its next start empties
\* the directory of previews and maintenance that of uploads.
Restart ==
  /\ lost = {}
  /\ lost' = {u \in Upload : upload[u].at \notin {"free", "gone", "imported"}}
  /\ lost' # {}
  /\ upload' = [u \in Upload |-> IF u \in lost' THEN Free ELSE upload[u]]
  /\ place' \in Cleared({u \in Upload : place[u] \in {"uploaded", "staged", "leftover"}})
  /\ UNCHANGED <<storeVars, report, edits>>

ImportNext ==
  \/ \E u \in Upload : \/ RequestPreview(u) \/ Invalid(u) \/ Stage(u) \/ Previewed(u)
                       \/ Expire(u) \/ ConfirmImport(u) \/ Keep(u) \/ Refused(u) \/ Import(u)
  \/ \E b \in KBase : \/ SwitchKBase(b) \/ DeleteKBase(b)
                      \/ \E line \in Line, on \in BOOLEAN :
                           AddEntry(b, line, on) \/ \E e \in entries[b] : EditEntry(b, e, line, on)
                      \/ \E e \in entries[b] : DeleteEntry(b, e)
  \/ Restart

ImportSpec == KnowledgeInit /\ [][ImportNext]_importVars

----------------------------------------------------------------------------

KnowledgeTypeOK ==
  /\ \A b \in KBase : kb[b] \in {Unused, NoKBase} \cup KBaseRow
  /\ \A b \in KBase : \A e \in entries[b] : e.line \in Line /\ e.on \in BOOLEAN
  /\ history \subseteq [base : KBase, up : Upload]
  /\ place \in [Upload -> Places]
  /\ lost \subseteq Upload

\* Whatever is previewed, imported, edited, deleted, left to expire or cut
\* off: an item stands under the path that its base's columns give it, alone;
\* a request, a token and the row of an import have their workbook where they
\* look for it, and a workbook on disk has its request, its token or its row,
\* except one that was being imported when the server stopped and one whose
\* removal failed; of the latter no request or row is left (removeFile,
\* deleteKnowledgeBase).
WorkbooksStand ==
  /\ KnowledgeTypeOK
  /\ \A b \in KBase : ~Exists(b) => entries[b] = {}
  /\ \A b \in KBase : \A e, f \in entries[b] :
       e.path = PathOf(kb[b].cols, e.line) /\ (e.path = f.path => e = f)
  /\ \A h \in history : Exists(h.base) /\ place[h.up] = "kept"
  /\ \A u \in Upload :
       /\ upload[u].at = "validating" <=> place[u] = "uploaded"
       /\ upload[u].at \in {"previewing", "pending", "checking"} <=> place[u] = "staged"
       /\ upload[u].at = "importing" => place[u] = "kept"
       /\ place[u] = "kept" =>
            upload[u].at = "importing" \/ u \in lost \/ \E h \in history : h.up = u

\* What an import does to base b.
WritesItsLines(u, b) ==
  LET book == upload[u].book
      paths == {PathOf(kb'[b].cols, book.lines[i]) : i \in DOMAIN book.lines}
      Names(es) == {e.path : e \in es}
  IN  /\ [base |-> b, up |-> u] \in history'
      /\ \A c \in KBase \ {b} : kb'[c] = kb[c] /\ entries'[c] = entries[c]
      /\ {e \in entries[b] : e.path \notin paths} = {e \in entries'[b] : e.path \notin paths}
      /\ paths \subseteq Names(entries'[b])
      /\ \A e \in entries[b], f \in entries'[b] : e.path = f.path => e.on = f.on
      /\ report'.added = Cardinality(Names(entries'[b]) \ Names(entries[b]))
      /\ report'.updated = Cardinality(Names(entries[b] \ entries'[b]))
      /\ report'.skipped = Cardinality(paths) - report'.added - report'.updated

\* An import that was previewed against one state of the base and read it in
\* a second writes into a third: of that one it changes the items of its
\* workbook alone, no item's switch and no other base, it leaves its lines in
\* the base, and it reports what it changed of it.
ImportChangesItsLines ==
  [][\A u \in Upload : (upload[u].at = "importing" /\ upload'[u].at = "imported") =>
       \E b \in KBase : WritesItsLines(u, b)]_importVars
=============================================================================
