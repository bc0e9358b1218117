--------------------------- MODULE MCSurroundings ---------------------------
(* What surrounds the analysis, in small instances for TLC: the disk that     *)
(* uploads and imports share, the judgement of a model's answer and the       *)
(* report made of it, the attribution of lost deals, the workbook a person    *)
(* imports, the record a person corrects, the columns of the workbook a task  *)
(* is exported to, and what a browser tab shows, polls and starts.  They have *)
(* no variable in common and are checked side by side: a behaviour is one of  *)
(* one part.                                                                  *)
EXTENDS DiskReservations, ReceptionQuality, ReceptionReport, LostDeal, Workbook,
        SheetImport, ClientViews, ClientPolling, ClientStarts, TLC

CONSTANTS q1, q2, p1, p2, a1, a2, j1, j2, r1, r2, r3, f1, f2, fromRun, fromPerson

VARIABLE part

\* a rule of each scene, each with a second source of evidence
Rules == {q1, q2}
Scopes == (q1 :> "preSale") @@ (q2 :> "afterSale")
Sources == (q1 :> {"dialogue", "source_field"}) @@ (q2 :> {"dialogue", "knowledge"})
Points == (q1 :> 3) @@ (q2 :> 8)
Given(sources, bases) == [present |-> sources, knowledge |-> bases]
AtHands == {Given({"dialogue", "source_field"}, "complete"), Given({"dialogue", "source_field"}, "none"),
            Given({"dialogue"}, "cut"), Given({}, "none")}

\* two rules of each scene, and dialogues of up to two turns with or without
\* times, or of four turns without
RuleList == <<p1, p2, a1, a2>>
Heads == (p1 :> "preSale") @@ (p2 :> "preSale") @@ (a1 :> "afterSale") @@ (a2 :> "afterSale")
Marks == (p1 :> 5) @@ (p2 :> 10) @@ (a1 :> 2) @@ (a2 :> 10)
Ranks == (p1 :> 100) @@ (p2 :> 1) @@ (a1 :> 200) @@ (a2 :> 100)
GradesFrom == ("A" :> 95) @@ ("B" :> 90) @@ ("C" :> 80) @@ ("D" :> 0)
GradesListed == ("A" :> 1) @@ ("B" :> 2) @@ ("C" :> 3) @@ ("D" :> 4)
At(full, day, clock) == [full |-> full, day |-> day, clock |-> clock]
Moments == {Unknown, At(TRUE, 1, 1), At(TRUE, 1, 2), At(FALSE, 1, 1), At(FALSE, 1, 2), At(FALSE, 2, 1)}
Turns == [speaker : {"customer", "agent", "robot"}, time : Moments]
Silent(s) == [speaker |-> s, time |-> Unknown]
Dialogues == {<<>>} \cup {<<t>> : t \in Turns} \cup {<<t, u>> : t, u \in Turns}
  \cup {<<Silent(s), Silent(t), Silent(u), Silent(v)>> : s, t, u, v \in {"customer", "agent", "robot"}}
Frozen == {<<>>, <<2, 4, 1>>, <<4>>}

\* up to two columns, shared ones and others, one of them with the header of a
\* shared one; and sheets of up to two headers that stand for one, some or none
Col(key, label, hkey) == [key |-> key, head |-> [label |-> label, key |-> hkey]]
Hd(label, key) == [label |-> label, key |-> key]
UpTo2(S) == {<<>>} \cup {<<a>> : a \in S} \cup {<<a, b>> : a, b \in S}
Settings == UpTo2({Col("platform_name", "platform", ""), Col("conversation_id", "conversation", "conversation_id"),
                   Col("f1", "reason", ""), Col("f2", "reason", "why"), Col("f3", "platform", "")})
Sheets == UpTo2({Hd("agent", ""), Hd("shop", "platform_name"), Hd("platform", ""), Hd("why?", "why"), Hd("reason", "")})
\* what older versions left of a record
Left(a, b) == (f1 :> a) @@ (f2 :> b)
Leftovers == {Left(fromRun, Blank), Left(fromPerson, fromRun)}
Known == ("platform_name" :> {"platform_name"}) @@ ("conversation_id" :> {"conversation_id"})

\* Workbooks of a quality check: every way to fill a row with two result
\* columns, keyed or plain; pictures in and beside the image column, in the
\* header row, twice on a row and without media; platforms; two sheets.  Then
\* workbooks of a generic section.
H(key, style) == [key |-> key, style |-> style]
Heads2 == {H(k, s) : k \in {"rating", "advice"}, s \in {"plain", "keyed"}}
Pic(r, inside) == [row |-> r, inside |-> inside, whole |-> TRUE]
Pics == {Pic(1, TRUE), Pic(2, TRUE), Pic(2, FALSE), Pic(3, TRUE), Pic(3, FALSE)}
Many == {<<>>} \cup {<<a>> : a \in Pics} \cup {<<a, b>> : a, b \in Pics}
Few2 == {<<Pic(2, TRUE), Pic(3, TRUE)>>, <<Pic(2, FALSE), Pic(3, FALSE)>>, <<Pic(1, TRUE), Pic(2, TRUE)>>,
         <<Pic(2, TRUE), [Pic(3, TRUE) EXCEPT !.whole = FALSE]>>}
Rows(a, b) == <<{}, a, b>>
Page2(image, heads, rows, pics, platform, req) ==
  [image |-> image, heads |-> heads, filled |-> rows, pics |-> pics, platform |-> platform, required |-> req]
File(check, style, image, sheets) ==
  [quality |-> check, style |-> style, imageRequired |-> image, sheets |-> sheets]
Filled == UNION {{Page2("keyed", h, Rows(a, b), p, NoFile, TRUE) : a \in SUBSET h, b \in {{}, h}, p \in Few2}
                 : h \in SUBSET Heads2}
Placed == {Page2(i, h, Rows({}, h), p, NoFile, TRUE) :
             i \in {"plain", "keyed", "none"}, p \in Many,
             h \in {{}, {H("rating", "plain")}, {H("rating", "keyed"), H("advice", "plain")}}}
Sold == {Page2("plain", {}, Rows({}, {}), <<Pic(2, TRUE)>>, n, TRUE) : n \in {"p", "q", "r"}}
Halves == {Page2(i, {H("rating", "plain")}, Rows({}, {}), p, n, TRUE) :
             i \in {"plain", "none"}, p \in {<<>>, <<Pic(2, TRUE)>>, <<Pic(3, TRUE)>>}, n \in {NoFile, "q"}}
Bare == {Page2(i, {}, Rows({}, {}), p, n, req) :
           i \in {"plain", "none"}, p \in {<<>>, <<Pic(2, TRUE)>>, <<Pic(2, FALSE), Pic(2, TRUE)>>, <<[Pic(1, TRUE) EXCEPT !.whole = FALSE]>>},
           n \in {NoFile, "q"}, req \in BOOLEAN}
Files ==
  {File(TRUE, st, TRUE, <<s>>) : st \in {"plain", "keyed"}, s \in Filled \cup Placed \cup Sold}
  \cup {File(TRUE, "plain", TRUE, <<s, t>>) : s, t \in Halves}
  \cup {File(FALSE, "plain", i, <<s, t>>) : i \in BOOLEAN, s, t \in Bare}

\* a job of two records and a job of one
Jobs == {j1, j2}
Records == {r1, r2, r3}
Owner == (r1 :> j1) @@ (r2 :> j1) @@ (r3 :> j2)

\* reasons by their item, their name or neither, with evidence of one of the
\* summaries, of the source fields or of nothing
Raw(id, name, ev, sure) == [id |-> id, name |-> name, ev |-> ev, sure |-> sure]
A(customer, service, rest) == [customer |-> customer, service |-> service, rest |-> rest]
Firm == Raw("c1", "", "t1", "high")
ByName == Raw(NoReason, "c1", "source", "high")
Other == Raw("c2", "c1", "t2", "high")
Served == Raw("s1", "s1", "t1", "high")
Answers ==
  {A(<<Firm>>, <<Served>>, "good"), A(<<Firm, ByName>>, <<>>, "good"), A(<<Other>>, <<>>, "good"),
   A(<<ByName, Other>>, <<>>, "good"), A(<<>>, <<>>, "good"), A(<<Firm>>, <<>>, "weak"),
   A(<<Raw(NoReason, "new", "t1", "high")>>, <<Served>>, "good"),
   A(<<Raw("c1", "", "made up", "high")>>, <<Served>>, "good"),
   A(<<Raw("c1", "", "", "high")>>, <<>>, "good"),
   A(<<Raw("c1", "c1", "t1", "low"), Raw(NoReason, "review", "t1", "high")>>, <<>>, "good"),
   A(<<Raw(NoReason, "review", "t1", "high")>>, <<Served>>, "good"),
   A(<<Raw("s1", "", "t1", "high")>>, <<>>, "good"),
   A(<<Firm>>, <<Raw("s1", "", "t1", "invalid")>>, "good"),
   A(<<Firm, Other, ByName>>, <<>>, "good"), A(<<Firm>>, <<Served>>, "invalid")}

\* The two records of the first job are alike.
Alike == Permutations({r1, r2})

\* A part that does not take part starts in one way only.
Init ==
  /\ part \in {"disk", "quality", "report", "deal", "book", "plan", "sheet", "views", "polling", "starts"}
  /\ DiskInit /\ QualityInit /\ ReportInit
  /\ DealInit /\ BookInit /\ PlanInit /\ SheetInit /\ ViewInit /\ PollInit /\ StartInit
  /\ part # "deal" => settings.customer = {} /\ settings.service = {} /\ settings.sync
  /\ part # "book" => early = Blank /\ old = Blank
  /\ part # "sheet" => named = "p"
  /\ part # "starts" => open = j1 /\ \A r \in Records : status[r] = "pending"

Next ==
  /\ UNCHANGED part
  /\ \/ part = "disk" /\ DiskNext
          /\ UNCHANGED <<qualityVars, reportVars, dealVars,
                         bookVars, planVars, sheetVars, viewVars, pollVars, startVars>>
     \/ part = "quality" /\ QualityNext
          /\ UNCHANGED <<diskVars, reportVars, dealVars,
                         bookVars, planVars, sheetVars, viewVars, pollVars, startVars>>
     \/ part = "report" /\ ReportNext
          /\ UNCHANGED <<diskVars, qualityVars, dealVars,
                         bookVars, planVars, sheetVars, viewVars, pollVars, startVars>>
     \/ part = "deal" /\ DealNext
          /\ UNCHANGED <<diskVars, qualityVars, reportVars,
                         bookVars, planVars, sheetVars, viewVars, pollVars, startVars>>
     \/ part = "book" /\ BookNext
          /\ UNCHANGED <<diskVars, qualityVars, reportVars,
                         dealVars, planVars, sheetVars, viewVars, pollVars, startVars>>
     \/ part = "plan" /\ ExportBook
          /\ UNCHANGED <<diskVars, qualityVars, reportVars,
                         dealVars, bookVars, sheetVars, viewVars, pollVars, startVars>>
     \/ part = "sheet" /\ SheetNext
          /\ UNCHANGED <<diskVars, qualityVars, reportVars,
                         dealVars, bookVars, planVars, viewVars, pollVars, startVars>>
     \/ part = "views" /\ ViewNext
          /\ UNCHANGED <<diskVars, qualityVars, reportVars,
                         dealVars, bookVars, planVars, sheetVars, pollVars, startVars>>
     \/ part = "polling" /\ PollNext
          /\ UNCHANGED <<diskVars, qualityVars, reportVars,
                         dealVars, bookVars, planVars, sheetVars, viewVars, startVars>>
     \/ part = "starts" /\ StartNext
          /\ UNCHANGED <<diskVars, qualityVars, reportVars, dealVars,
                         bookVars, planVars, sheetVars, viewVars, pollVars>>

Spec == Init /\ [][Next]_<<part, diskVars, qualityVars, reportVars,
                          dealVars, bookVars, planVars, sheetVars, viewVars, pollVars, startVars>>

\* The workbook that is imported and the one that is exported.
WorkbooksHold == SheetsHold /\ BookStands

\* A tab shows one page of one job with a record of it, polls one thing at a
\* time, and what runs is what was asked for in it, whatever replies come late.
\* ClientStarts names the one exception: a batch of a whole job that was asked for
\* while another job was being opened may run that one.
TabHolds == ShownTogether /\ OnePollAtATime /\ StartsHold
=============================================================================
