--------------------------- MODULE KnowledgeDesk ---------------------------
(***************************************************************************)
(* The knowledge workspace of one section in a browser tab: the bases, the *)
(* items of the base selected with what is ticked, edited or about to be   *)
(* deleted, the trial search, and the dialog that imports a workbook.      *)
(* Requests are answered late and in any order, and other people change    *)
(* the same items.                                                         *)
(*                                                                         *)
(* As in ClientViews, a request that a newer one has replaced is forgotten *)
(* where the code would drop its answer by its number.  The lists of bases *)
(* are the exception: their answers carry no number and all of them count. *)
(* A query of the items is its page.                                       *)
(***************************************************************************)
EXTENDS Integers, FiniteSets

CONSTANTS KbBase,       \* knowledge bases of the section
          KbItem,       \* items, in the order they are listed
          BaseOf,       \* BaseOf[i]: the base of an item
          KbFile,       \* workbooks the person may choose
          KbPageSize,
          MaxGestures,  \* bound on what people do
          MaxAsked,     \* bound on the lists of bases under way
          None, Here

KbChange == [kind : {"toggle", "batch", "delete", "save", "base"}, items : SUBSET KbItem,
             value : {"gone", "on", "off", "switched"}, base : KbBase, cur : BOOLEAN,
             ref : KbBase \cup {Here}, stage : {"sent", "served", "reload"}, done : SUBSET KbItem]
Fetch == [page : Int, by : 0 .. 2]

ASSUME DeskAssumption == /\ KbItem \subseteq Nat /\ IsFiniteSet(KbItem) /\ BaseOf \in [KbItem -> KbBase]
                         /\ KbPageSize \in Nat \ {0} /\ MaxGestures \in Nat /\ MaxAsked \in Nat
                         /\ None \notin KbBase /\ Here \notin KbBase /\ None \notin KbChange \cup Fetch

VARIABLES
  kbs,      \* the bases the server has
  stored,   \* stored[i]: "gone", "on" or "off"
  desk,     \* [tab, bases, sel, loading]
  asked,    \* lists of bases under way: the base to select, the bases there were
  listing,  \* the list of items on the screen (see Shut)
  op,       \* op[s]: a change under way
  form,     \* the import dialog
  probe,    \* the trial search: [seek, found], by base
  gestures  \* what people did so far

deskVars == <<kbs, stored, desk, asked, listing, op, form, probe, gestures>>
kbServerVars == <<kbs, stored>>

Slot == {1, 2}
KeptIn(b) == {i \in KbItem : BaseOf[i] = b /\ stored[i] # "gone"}
Pages(b) == IF KeptIn(b) = {} THEN 1
            ELSE (Cardinality(KeptIn(b)) + KbPageSize - 1) \div KbPageSize
PageOf(b, p) == {i \in KeptIn(b) : Cardinality({j \in KeptIn(b) : j < i}) \div KbPageSize = p - 1}

\* The list of items is on the screen.
Listed(d) == d.tab = "items" /\ ~d.loading /\ d.sel # None
Searching(d) == d.tab = "search" /\ ~d.loading /\ d.sel # None

Empty == [i \in {} |-> "off"]
Shut == [page |-> 1, of |-> 0, pages |-> 1, rows |-> Empty, ticked |-> {}, locked |-> FALSE,
         doomed |-> None, editor |-> None, fetch |-> None, fault |-> FALSE]
\* An answer awaited by the change in slot by, or by none (0).
Load(p, page, by) == [p EXCEPT !.page = page, !.fetch = [page |-> page, by |-> by], !.fault = FALSE]

KbInit ==
  /\ kbs \in {KbBase} \cup {KbBase \ {b} : b \in KbBase}
  /\ stored = [i \in KbItem |-> IF BaseOf[i] \in kbs THEN "on" ELSE "gone"]
  /\ desk = [tab |-> "content", bases |-> {}, sel |-> None, loading |-> TRUE]
  /\ asked = {[prefer |-> None, seen |-> kbs]}
  /\ listing = Shut /\ op = [s \in Slot |-> None] /\ form = None
  /\ probe = [seek |-> None, found |-> None] /\ gestures = 0

----------------------------------------------------------------------------
(* What is on the desk. *)

\* A change begun in a list that is left: it is no longer the newest; the list
\* that is closed remembers the base it was of.
Left(o, d) ==
  IF Listed(desk) /\ (~Listed(d) \/ d.sel # desk.sel)
  THEN [o EXCEPT !.cur = FALSE, !.ref = IF @ = Here /\ ~Listed(d) THEN desk.sel ELSE @]
  ELSE o

Show(d, ops) ==
  /\ desk' = d
  /\ listing' = IF ~Listed(d) THEN Shut
                ELSE IF Listed(desk) /\ d.sel = desk.sel THEN listing
                ELSE Load(Shut, 1, 0)
  /\ op' = [s \in Slot |-> IF ops[s] = None THEN None ELSE Left(ops[s], d)]
  /\ probe' = IF Searching(d) /\ d.sel = desk.sel THEN probe ELSE [seek |-> None, found |-> None]

\* loadBases: the bases are read again; meanwhile neither list is shown.
AskBases(prefer, ops) ==
  /\ Cardinality(asked) < MaxAsked
  /\ asked' = asked \cup {[prefer |-> prefer, seen |-> kbs]}
  /\ Show([desk EXCEPT !.loading = TRUE], ops)

BasesReply(r, bs) ==
  /\ r \in asked /\ bs \in {r.seen, kbs}
  /\ asked' = asked \ {r}
  /\ LET target == IF r.prefer # None THEN r.prefer ELSE desk.sel IN
     \E b \in IF target \in bs THEN {target} ELSE IF bs = {} THEN {None} ELSE bs :
       Show([desk EXCEPT !.bases = bs, !.sel = b, !.loading = FALSE], op)
  /\ UNCHANGED <<kbServerVars, form, gestures>>

BasesFail(r) ==
  /\ r \in asked /\ asked' = asked \ {r}
  /\ Show([desk EXCEPT !.loading = FALSE], op)
  /\ UNCHANGED <<kbServerVars, form, gestures>>

\* The items of a page have come; the base may have fewer pages by now.
ItemsReply ==
  /\ listing.fetch # None
  /\ LET p == listing.fetch.page  last == Pages(desk.sel) IN
     listing' = IF p > last THEN Load(listing, last, 0)
                ELSE [listing EXCEPT !.rows = [i \in PageOf(desk.sel, p) |-> stored[i]],
                                     !.of = p, !.pages = last, !.fetch = None]
  /\ UNCHANGED <<kbServerVars, desk, asked, op, form, probe, gestures>>

ItemsFail ==
  /\ listing.fetch # None
  /\ listing' = [listing EXCEPT !.fetch = None, !.fault = TRUE]
  /\ UNCHANGED <<kbServerVars, desk, asked, op, form, probe, gestures>>

----------------------------------------------------------------------------
(* The person. *)

Modal == form # None \/ listing.editor # None \/ listing.doomed # None
Gesture == gestures < MaxGestures /\ gestures' = gestures + 1
Beside == <<kbServerVars, asked, form>>

Turn(tab, b) ==
  /\ Gesture /\ ~Modal
  /\ b \in desk.bases \cup {desk.sel} /\ (tab # desk.tab \/ b # desk.sel)
  /\ Show([desk EXCEPT !.tab = tab, !.sel = b], op)
  /\ UNCHANGED Beside

InPane == Gesture /\ ~Modal /\ Listed(desk) /\ ~listing.locked
OnRow(i) == InPane /\ listing.fetch = None /\ i \in DOMAIN listing.rows
Only == <<Beside, desk, probe>>

TurnPage(p) == /\ InPane /\ p \in (1 .. listing.pages) \cap {listing.page - 1, listing.page + 1}
               /\ listing' = Load(listing, p, 0)
               /\ UNCHANGED <<Only, op>>

TickItem(i) ==
  /\ OnRow(i)
  /\ listing' = [listing EXCEPT !.ticked = IF i \in @ THEN @ \ {i} ELSE @ \cup {i}]
  /\ UNCHANGED <<Only, op>>

\* The whole page, or nothing.
TickPage(T) == /\ InPane /\ T \in {{}, IF listing.fetch = None THEN DOMAIN listing.rows ELSE {}}
               /\ T # listing.ticked /\ listing' = [listing EXCEPT !.ticked = T]
               /\ UNCHANGED <<Only, op>>

\* A change of the list locks it and makes the one before it an old one.
BeginChange(kind, items, value) ==
  /\ \E s \in Slot : /\ op[s] = None
                     /\ op' = [t \in Slot |-> IF t = s
                           THEN [kind |-> kind, items |-> items, value |-> value, base |-> desk.sel,
                                 cur |-> TRUE, ref |-> Here, stage |-> "sent", done |-> {}]
                           ELSE IF op[t] = None THEN None ELSE [op[t] EXCEPT !.cur = FALSE]]
  /\ listing' = [listing EXCEPT !.locked = TRUE, !.doomed = None]
  /\ UNCHANGED Only

Flip(value) == IF value = "on" THEN "off" ELSE "on"
ToggleItem(i) == OnRow(i) /\ BeginChange("toggle", {i}, Flip(listing.rows[i]))
BatchSet(value) == InPane /\ listing.ticked # {} /\ BeginChange("batch", listing.ticked, value)
AskDelete(i) == /\ OnRow(i) /\ listing' = [listing EXCEPT !.doomed = i]
                /\ UNCHANGED <<Only, op>>
ConfirmDelete == /\ listing.doomed # None /\ ~listing.locked /\ UNCHANGED gestures
                 /\ BeginChange("delete", {listing.doomed}, "gone")
\* None: a new item.
EditItem(i) ==
  /\ IF i = None THEN InPane ELSE OnRow(i)
  /\ listing' = [listing EXCEPT !.editor =
                   [item |-> i, saving |-> 0, value |-> IF i = None THEN "on" ELSE listing.rows[i]]]
  /\ UNCHANGED <<Only, op>>
SubmitItem(value) ==
  /\ listing.editor # None /\ listing.editor.saving = 0
  /\ \E s \in Slot :
       /\ op[s] = None
       /\ op' = [op EXCEPT ![s] = [kind |-> "save", value |-> value, base |-> desk.sel, cur |-> FALSE,
                                   items |-> IF listing.editor.item = None THEN {} ELSE {listing.editor.item},
                                   ref |-> Here, stage |-> "sent", done |-> {}]]
       /\ listing' = [listing EXCEPT !.editor.saving = s]
  /\ UNCHANGED <<Only, gestures>>
\* A dialog of the list is closed without a change.
CloseModal == /\ listing.editor # None \/ listing.doomed # None
              /\ listing' = [listing EXCEPT !.editor = None, !.doomed = None]
              /\ UNCHANGED <<Only, op, gestures>>

\* A base is deleted or switched in the list of bases; one at a time (bound).
ChangeBase(b, value) ==
  /\ Gesture /\ ~Modal /\ desk.tab = "content" /\ ~desk.loading /\ b \in desk.bases
  /\ \A s \in Slot : op[s] # None => op[s].kind # "base"
  /\ \E s \in Slot : /\ op[s] = None
                     /\ op' = [op EXCEPT ![s] = [kind |-> "base", items |-> {}, value |-> value, base |-> b,
                                                 cur |-> FALSE, ref |-> b, stage |-> "sent", done |-> {}]]
  /\ UNCHANGED <<Only, listing>>

SearchFor == /\ Gesture /\ ~Modal /\ Searching(desk) /\ probe.seek = None
             /\ probe' = [probe EXCEPT !.seek = desk.sel]
             /\ UNCHANGED <<Beside, desk, listing, op>>
SearchReply(ok) == /\ probe.seek # None
                   /\ probe' = [seek |-> None, found |-> IF ok THEN probe.seek ELSE probe.found]
                   /\ UNCHANGED <<Beside, desk, listing, op, gestures>>

----------------------------------------------------------------------------
(* Changes under way. *)

\* The server makes the change, of a batch the part that it can.
Serve(s) ==
  /\ op[s] # None /\ op[s].stage = "sent"
  /\ \E done \in SUBSET KbItem :
       /\ IF op[s].kind = "base" THEN done = {i \in KbItem : BaseOf[i] = op[s].base /\ op[s].value = "gone"}
          ELSE IF op[s].kind = "save" /\ op[s].items = {}
          THEN \A i \in done : /\ stored[i] = "gone" /\ BaseOf[i] = op[s].base
                               /\ op[s].base \in kbs /\ done = {i}
          ELSE done \subseteq {i \in op[s].items : stored[i] # "gone"}
       /\ stored' = [i \in KbItem |-> IF i \in done THEN op[s].value ELSE stored[i]]
       /\ op' = [op EXCEPT ![s].stage = "served", ![s].done = done]
       /\ kbs' = IF op[s].kind = "base" /\ op[s].value = "gone" THEN kbs \ {op[s].base} ELSE kbs
  /\ UNCHANGED <<desk, asked, listing, form, probe, gestures>>

\* The base that the list the change was begun in shows, or showed last.
RefOf(o) == IF o.ref = Here THEN desk.sel ELSE o.ref
Drop(s) == [op EXCEPT ![s] = None]
BaseRefused(s) == /\ op[s] # None /\ op[s].stage = "sent" /\ op[s].kind = "base" /\ op' = Drop(s)
                  /\ UNCHANGED <<Only, listing, gestures>>
Reloads(s) == [op EXCEPT ![s].stage = "reload"]

\* (mutant) an answer to an older change unlocks the list
AnyAnswerCounts(o) == TRUE
AnswerCounts(o) == o.cur

Reply(s) ==
  /\ op[s] # None /\ op[s].stage = "served"
  /\ LET o == op[s] IN
     CASE o.kind = "base" -> AskBases(None, Drop(s))
       [] o.kind = "save" ->
            /\ IF o.done = {} \/ RefOf(o) # o.base
               THEN /\ op' = Drop(s)
                    /\ listing' = IF listing.editor # None /\ listing.editor.saving = s
                                    THEN [listing EXCEPT !.editor.saving = 0] ELSE listing
               ELSE /\ op' = Reloads(s)
                    /\ listing' = IF o.ref = Here THEN [Load(listing, listing.page, s) EXCEPT !.editor = None]
                                                  ELSE listing
            /\ UNCHANGED <<asked, desk, probe>>
       [] OTHER ->
            /\ IF ~AnswerCounts(o) THEN op' = Drop(s) /\ listing' = listing
               ELSE IF o.done = {} /\ o.kind # "batch"
               THEN op' = Drop(s) /\ listing' = [listing EXCEPT !.locked = FALSE]
               ELSE /\ op' = Reloads(s)
                    /\ listing' = [Load(listing, listing.page, s) EXCEPT
                                  !.ticked = IF o.kind = "batch" THEN o.items \ o.done ELSE @]
            /\ UNCHANGED <<asked, desk, probe>>
  /\ UNCHANGED <<kbServerVars, form, gestures>>

\* The page it read again has come, or is not awaited any more: the list is
\* unlocked, and the bases are read again if their numbers of items changed.
Finish(s) ==
  /\ op[s] # None /\ op[s].stage = "reload"
  /\ listing.fetch # None => listing.fetch.by # s
  /\ LET o == op[s] IN
     IF o.kind \in {"delete", "save"} /\ RefOf(o) = o.base
     THEN AskBases(o.base, Drop(s))
     ELSE /\ op' = Drop(s) /\ listing' = [listing EXCEPT !.locked = @ /\ ~o.cur]
          /\ UNCHANGED <<asked, desk, probe>>
  /\ UNCHANGED <<kbServerVars, form, gestures>>

----------------------------------------------------------------------------
(* The import dialog. *)

OpenImport(target) ==
  /\ Gesture /\ ~Modal /\ ~desk.loading
  /\ IF target = None THEN desk.tab = "content" \/ desk.sel = None
                      ELSE desk.tab = "content" /\ target \in desk.bases
  /\ form' = [target |-> target, file |-> None, shown |-> None, reading |-> {}, sent |-> FALSE]
  /\ UNCHANGED <<kbServerVars, desk, asked, listing, op, probe>>

FormStep == UNCHANGED <<kbServerVars, desk, asked, listing, op, probe, gestures>>

ChooseFile(f) == /\ form # None /\ ~form.sent /\ f # form.file
                 /\ form' = [form EXCEPT !.file = f, !.shown = None, !.reading = @ \cup {f}]
                 /\ FormStep
IsNewest(f) == f = form.file
PreviewReply(f, ok) ==
  /\ form # None /\ f \in form.reading
  /\ form' = [form EXCEPT !.reading = @ \ {f}, !.shown = IF ok /\ IsNewest(f) THEN f ELSE @]
  /\ FormStep
SendImport == /\ form # None /\ ~form.sent /\ form.shown # None /\ form.file \notin form.reading
                 /\ form' = [form EXCEPT !.sent = TRUE]
                 /\ FormStep
CloseImport == form # None /\ ~form.sent /\ form' = None /\ FormStep

\* A base is added or its items come back; the dialog closes.
Imported(b) ==
  /\ form # None /\ form.sent /\ (form.target # None => b = form.target /\ b \in kbs)
  /\ kbs' = kbs \cup {b}
  /\ stored' = [i \in KbItem |-> IF BaseOf[i] = b /\ stored[i] = "gone" THEN "on" ELSE stored[i]]
  /\ form' = None
  /\ AskBases(b, op)
  /\ UNCHANGED gestures
ImportRefused == form # None /\ form.sent /\ form' = [form EXCEPT !.sent = FALSE] /\ FormStep

----------------------------------------------------------------------------

\* Another person changes, deletes or adds an item, or deletes a base.
Meanwhile(i, value) ==
  /\ Gesture /\ BaseOf[i] \in kbs /\ stored[i] # value
  /\ stored' = [stored EXCEPT ![i] = value]
  /\ UNCHANGED <<kbs, desk, asked, listing, op, form, probe>>
MeanwhileDrop(b) ==
  /\ Gesture /\ b \in kbs /\ kbs' = kbs \ {b}
  /\ stored' = [i \in KbItem |-> IF BaseOf[i] = b THEN "gone" ELSE stored[i]]
  /\ UNCHANGED <<desk, asked, listing, op, form, probe>>

KbNext ==
  \/ \E r \in asked : BasesFail(r) \/ \E bs \in {r.seen, kbs} : BasesReply(r, bs)
  \/ ItemsReply \/ ItemsFail \/ ConfirmDelete \/ CloseModal \/ SearchFor
  \/ \E tab \in {"content", "items", "search"}, b \in KbBase \cup {None} : Turn(tab, b)
  \/ \E T \in {{}, DOMAIN listing.rows} : TickPage(T)
  \/ \E p \in 1 .. listing.pages : TurnPage(p)
  \/ \E i \in KbItem : \/ TickItem(i) \/ ToggleItem(i) \/ AskDelete(i)
                       \/ \E value \in {"gone", "on", "off"} : Meanwhile(i, value)
  \/ \E i \in KbItem \cup {None} : EditItem(i)
  \/ \E value \in {"on", "off"} : BatchSet(value) \/ SubmitItem(value)
  \/ \E b \in KbBase : \/ MeanwhileDrop(b) \/ Imported(b)
                       \/ \E value \in {"gone", "switched"} : ChangeBase(b, value)
  \/ \E s \in Slot : Serve(s) \/ BaseRefused(s) \/ Reply(s) \/ Finish(s)
  \/ \E b \in KbBase \cup {None} : OpenImport(b)
  \/ \E ok \in BOOLEAN : SearchReply(ok) \/ \E f \in KbFile : PreviewReply(f, ok)
  \/ \E f \in KbFile : ChooseFile(f)
  \/ SendImport \/ CloseImport \/ ImportRefused

DeskSpec == KbInit /\ [][KbNext]_deskVars

----------------------------------------------------------------------------

\* Whatever comes late: the rows, the ticks and the dialogs of the list are of
\* the base selected, and so are the results of the search; a list at rest shows
\* the page it says it shows, or an error; it is locked exactly while its own
\* change is under way; and the preview in the import dialog, which is what is
\* confirmed, is of the workbook chosen last.
DeskHolds ==
  /\ desk.sel \in desk.bases \cup {None}
  /\ \A i \in DOMAIN listing.rows \cup listing.ticked : BaseOf[i] = desk.sel
  /\ listing.doomed # None => BaseOf[listing.doomed] = desk.sel
  /\ (listing.editor # None /\ listing.editor.item # None) => BaseOf[listing.editor.item] = desk.sel
  /\ (Listed(desk) /\ listing.fetch = None /\ ~listing.fault) => listing.of = listing.page
  /\ listing.locked = (\E s \in Slot : op[s] # None /\ op[s].cur)
  /\ probe.found \in {None, desk.sel}
  /\ form # None => form.shown \in {None, form.file}
=============================================================================
