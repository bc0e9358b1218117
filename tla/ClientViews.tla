---------------------------- MODULE ClientViews ----------------------------
(***************************************************************************)
(* One browser tab: the job and the page of records it shows, the record   *)
(* opened beside them with its unsaved draft, and the requests whose       *)
(* replies may come late, out of order or not at all.                      *)
(*                                                                         *)
(* The counters by which the code tells the newest request from the older  *)
(* ones (listRequestId, detailRequestId, detailRevision, operationId) are  *)
(* represented by what they decide: a request that a newer one has         *)
(* replaced changes nothing when its reply comes, and is forgotten here at *)
(* the moment it is replaced.                                              *)
(***************************************************************************)
EXTENDS Naturals, FiniteSets

CONSTANTS Job, Record,
          JobOf,       \* JobOf[r]: the job of a record
          MaxPage, MaxVersion, MaxDraft,  \* bounds: pages, changes of a record, edits
          Nothing

ASSUME ViewAssumption == /\ JobOf \in [Record -> Job]
                         /\ {MaxPage, MaxVersion} \subseteq Nat \ {0} /\ MaxDraft \in Nat
                         /\ Nothing \notin Job \cup [rec : Record, ver : Nat, draft : Nat]

Page == 1 .. MaxPage
Query == [job : Job \cup {Nothing}, page : Page]
NoQuery == [job |-> Nothing, page |-> 1]

VARIABLES
  present,  \* the jobs the server has
  version,  \* version[r]: how often the record was changed in the server
  active,   \* the job that is shown
  shown,    \* the query whose page is shown
  items,    \* the records of that page
  want,     \* the query last asked for
  list,     \* the newest request for a page
  sel,      \* the record opened: its version and the number of its draft, 0 if clean
  detail,   \* the newest request for a record
  save      \* the review being saved

viewVars == <<present, version, active, shown, items, want, list, sel, detail, save>>
serverVars == <<present, version>>
pageVars == <<active, shown, items>>

ViewInit ==
  /\ present = Job
  /\ version = [r \in Record |-> 1]
  /\ active = Nothing /\ shown = NoQuery /\ items = {} /\ want = NoQuery
  /\ list = Nothing /\ sel = Nothing /\ detail = Nothing /\ save = Nothing

----------------------------------------------------------------------------
(* Requests. *)

Dirty == sel # Nothing /\ sel.draft > 0

\* A request for a page replaces the one before it, and the record request.
Ask(by, q, stage) ==
  /\ list' = [by |-> by, q |-> q, stage |-> stage, ok |-> TRUE]
  /\ want' = q
  /\ detail' = Nothing

\* The query of a request is another object from now on: a record requested
\* under the old one is not shown.
Requery(q) == /\ want' = q
              /\ detail' = IF detail = Nothing THEN Nothing
                                               ELSE [detail EXCEPT !.same = FALSE]

\* A request for a record; its reply is of a version the server has between now
\* and then.
Fetching(r, by, same) == [rec |-> r, by |-> by, seen |-> version[r], same |-> same]

\* After a refresh the open record is read again, unless it has a draft.
Refetch(s) == IF s.draft > 0 THEN Nothing ELSE Fetching(s.rec, list.by, TRUE)

----------------------------------------------------------------------------
(* The person. *)

\* An operation of the person is current until the next one starts or the job
\* changes.
Superseded == IF save = Nothing THEN Nothing ELSE [save EXCEPT !.op = FALSE]
\* The poll of the analysis is suspended: what it requested is not current.
Suspend ==
  /\ list' = IF list # Nothing /\ list.by = "poll" THEN [list EXCEPT !.ok = FALSE] ELSE list
  /\ detail' = IF detail # Nothing /\ detail.by = "poll" THEN [detail EXCEPT !.same = FALSE]
                                                         ELSE detail

ChangePage(p) ==
  /\ shown.job # Nothing
  /\ Ask("page", [shown EXCEPT !.page = p], "page")
  /\ UNCHANGED <<serverVars, pageVars, sel, save>>

RefreshQuery(j) ==
  [job |-> j, page |-> IF j # shown.job THEN 1 ELSE shown.page]

\* Selecting another job.
Navigate(j) ==
  /\ j # active \/ (list # Nothing /\ list.by = "navigate")
  /\ Ask("navigate", RefreshQuery(j), "lists")
  /\ save' = Superseded
  /\ UNCHANGED <<serverVars, pageVars, sel>>

\* The first load and the refresh button, the end of an analysis or of a task
\* operation (the job shown); the end of an import (the new job).
Refresh(j) ==
  /\ Ask("refresh", RefreshQuery(j), "lists")
  /\ UNCHANGED <<serverVars, pageVars, sel, save>>

\* An analysis, a task operation or an import is asked for.
Operate == /\ save' = Superseded
           /\ Suspend \/ UNCHANGED <<list, detail>>
           /\ UNCHANGED <<serverVars, pageVars, want, sel>>

\* The person deleted a job.
DeleteJob(j) ==
  /\ j \in present /\ present' = present \ {j}
  /\ sel' = IF sel # Nothing /\ JobOf[sel.rec] = j THEN Nothing ELSE sel
  /\ save' = IF save # Nothing /\ sel' # sel THEN [save EXCEPT !.rev = FALSE] ELSE save
  /\ Ask("refresh", RefreshQuery(IF j = active THEN shown.job ELSE active), "lists")
  /\ UNCHANGED <<version, pageVars>>

OpenRecord(r) ==
  /\ r \in items
  /\ sel' = Nothing
  /\ detail' = Fetching(r, "person", want.job = active)
  /\ save' = IF save = Nothing THEN Nothing ELSE [save EXCEPT !.rev = FALSE]
  /\ UNCHANGED <<serverVars, pageVars, want, list>>

Edit ==
  /\ sel # Nothing /\ sel.draft < MaxDraft
  /\ sel' = [sel EXCEPT !.draft = @ + 1]
  /\ detail' = Nothing
  /\ save' = IF save = Nothing THEN Nothing ELSE [save EXCEPT !.rev = FALSE]
  /\ UNCHANGED <<serverVars, pageVars, want, list>>

----------------------------------------------------------------------------
(* Saving a review. *)

Save ==
  /\ sel # Nothing /\ active # Nothing /\ save = Nothing
  /\ save' = [rec |-> sel.rec, draft |-> sel.draft, stage |-> "sent",
              ver |-> 0, op |-> TRUE, rev |-> TRUE]
  /\ Suspend
  /\ UNCHANGED <<serverVars, pageVars, want, sel>>

\* The server writes the review.
Written ==
  /\ save # Nothing /\ save.stage = "sent"
  /\ JobOf[save.rec] \in present /\ version[save.rec] < MaxVersion
  /\ version' = [version EXCEPT ![save.rec] = @ + 1]
  /\ save' = [save EXCEPT !.stage = "written", !.ver = version[save.rec] + 1]
  /\ UNCHANGED <<present, pageVars, want, list, sel, detail>>

\* The reply is for the record that is open, with the draft that was sent.
\* (mutant) edits made meanwhile are not looked at
SavedRecord == save.op /\ sel # Nothing /\ sel.rec = save.rec
SavedThisDraft == save.op /\ save.rev /\ sel # Nothing /\ sel.rec = save.rec

Saved ==
  /\ save # Nothing /\ save.stage = "written"
  /\ SavedThisDraft
  /\ sel' = [rec |-> save.rec, ver |-> save.ver, draft |-> 0]
  /\ Ask("refresh", RefreshQuery(active), "lists")
  /\ save' = [save EXCEPT !.stage = "refresh"]
  /\ UNCHANGED <<serverVars, pageVars>>

\* The reply is for another draft; the request fails; the refresh is over.
SaveEnds ==
  /\ save # Nothing
  /\ save' = Nothing
  /\ UNCHANGED <<serverVars, pageVars, want, list, sel, detail>>

----------------------------------------------------------------------------
(* Refreshes nobody asked for. *)

\* A poll saw progress of the job: the page asked for last is read again.  The
\* poll of an analysis is suspended by what the person does, that of the list
\* of jobs is not.
Poll(by) ==
  /\ active # Nothing /\ want.job = active
  /\ Ask(by, want, "page")
  /\ UNCHANGED <<serverVars, pageVars, sel, save>>

----------------------------------------------------------------------------
(* Replies for pages. *)

\* The lists of a refresh have come: the job asked for, or the one shown, or
\* any that is left.
Target ==
  IF list.q.job \in present THEN {list.q.job}
  ELSE IF shown.job \in present THEN {shown.job} ELSE present

ListsReply ==
  /\ list # Nothing /\ list.stage = "lists"
  /\ \E j \in Target :
       LET q == [job |-> j, page |-> IF j # shown.job THEN 1 ELSE list.q.page] IN
       /\ Requery(q)
       /\ list' = [list EXCEPT !.q = q, !.stage = "page"]
  /\ UNCHANGED <<serverVars, pageVars, sel, save>>

NoJobs ==
  /\ list # Nothing /\ list.stage = "lists" /\ present = {}
  /\ active' = Nothing /\ shown' = NoQuery /\ items' = {} /\ want' = NoQuery
  /\ sel' = Nothing /\ list' = Nothing /\ detail' = Nothing
  /\ save' = IF save = Nothing THEN Nothing
             ELSE [save EXCEPT !.op = @ /\ active = Nothing, !.rev = FALSE]
  /\ UNCHANGED serverVars

\* The job has fewer pages than the page asked for.
Clamp(p) ==
  /\ list # Nothing /\ list.stage = "page" /\ p < list.q.page
  /\ Requery([list.q EXCEPT !.page = p])
  /\ list' = [list EXCEPT !.q.page = p]
  /\ UNCHANGED <<serverVars, pageVars, sel, save>>

KeptBeside(q, page) ==
  IF sel # Nothing /\ JobOf[sel.rec] = q.job /\ sel.rec \in page THEN sel ELSE Nothing

ActiveAfter(q) == IF list.by \in {"navigate", "refresh"} THEN q.job ELSE active

PageReply(page) ==
  /\ list # Nothing /\ list.stage = "page" /\ list.ok
  /\ page \subseteq {r \in Record : JobOf[r] = list.q.job}
  /\ shown' = list.q /\ items' = page
  /\ want' = list.q
  /\ active' = ActiveAfter(list.q)
  /\ sel' = KeptBeside(list.q, page)
  /\ detail' = IF list.by # "page" /\ KeptBeside(list.q, page) # Nothing
                    /\ Refetch(KeptBeside(list.q, page)) # Nothing
                 THEN Refetch(KeptBeside(list.q, page))
                 ELSE IF KeptBeside(list.q, page) = sel THEN detail ELSE Nothing
  /\ save' = IF save = Nothing THEN Nothing
             ELSE [save EXCEPT !.op = @ /\ ActiveAfter(list.q) = active,
                               !.rev = @ /\ KeptBeside(list.q, page) = sel]
  /\ list' = Nothing
  /\ UNCHANGED serverVars

\* The request fails, or its job is gone: what is shown is what is wanted.
PageFails ==
  /\ list # Nothing /\ list.ok
  /\ Requery(shown)
  /\ list' = Nothing
  /\ UNCHANGED <<serverVars, pageVars, sel, save>>

\* A refresh of the suspended poll is left alone.
PageDropped ==
  /\ list # Nothing /\ ~list.ok
  /\ list' = Nothing
  /\ UNCHANGED <<serverVars, pageVars, want, sel, detail, save>>

----------------------------------------------------------------------------
(* Replies for records. *)

DetailReply(v) ==
  /\ detail # Nothing
  /\ v \in detail.seen .. version[detail.rec]
  /\ sel' = IF detail.same /\ detail.rec \in items
              THEN [rec |-> detail.rec, ver |-> v, draft |-> 0] ELSE sel
  /\ detail' = Nothing
  /\ UNCHANGED <<serverVars, pageVars, want, list, save>>

DetailFails == /\ detail # Nothing /\ detail' = Nothing
               /\ UNCHANGED <<serverVars, pageVars, want, list, sel, save>>

----------------------------------------------------------------------------
(* The server, and other people. *)

Analysed(r) ==
  /\ JobOf[r] \in present /\ version[r] < MaxVersion
  /\ version' = [version EXCEPT ![r] = @ + 1]
  /\ UNCHANGED <<present, pageVars, want, list, sel, detail, save>>

Removed(j) ==
  /\ j \in present /\ present' = present \ {j}
  /\ UNCHANGED <<version, pageVars, want, list, sel, detail, save>>

ViewNext ==
  \/ \E p \in Page : ChangePage(p) \/ Clamp(p)
  \/ \E j \in Job : Navigate(j) \/ DeleteJob(j) \/ Removed(j)
  \/ \E j \in Job \cup {active} : Refresh(j)
  \/ Operate \/ Edit \/ Save \/ Written \/ Saved \/ SaveEnds
  \/ \E r \in Record : OpenRecord(r) \/ Analysed(r)
  \/ \E by \in {"poll", "summary"} : Poll(by)
  \/ ListsReply \/ NoJobs \/ PageFails \/ PageDropped
  \/ \E page \in SUBSET Record : PageReply(page)
  \/ \E v \in 1 .. MaxVersion : DetailReply(v)
  \/ DetailFails

ViewSpec == ViewInit /\ [][ViewNext]_viewVars

----------------------------------------------------------------------------

ViewTypeOK ==
  /\ present \subseteq Job /\ version \in [Record -> 1 .. MaxVersion]
  /\ active \in Job \cup {Nothing} /\ shown \in Query /\ want \in Query
  /\ items \subseteq Record
  /\ sel \in {Nothing} \cup [rec : Record, ver : 1 .. MaxVersion, draft : 0 .. MaxDraft]

\* Whatever replies come late: the page shown is of the job shown, and the
\* record open beside it is one of that page.
ShownTogether ==
  /\ ViewTypeOK
  /\ shown.job = active
  /\ \A r \in items : JobOf[r] = active
  /\ sel # Nothing => sel.rec \in items

\* A draft is only lost by opening a record, deleting the job, saving that draft,
\* and when its record is no longer on the page shown; and a record that is read
\* again is never shown older than it was.
ViewStands ==
  [][/\ (Dirty /\ sel' # sel) =>
          \/ Edit \/ (\E r \in Record : OpenRecord(r)) \/ (\E j \in Job : DeleteJob(j))
          \/ /\ sel' # Nothing /\ save # Nothing
             /\ save.rec = sel.rec /\ save.draft = sel.draft
          \/ sel.rec \notin items'
     /\ (sel # Nothing /\ sel' # Nothing /\ sel'.rec = sel.rec /\ save' = save)
          => sel'.ver >= sel.ver]_viewVars
=============================================================================
