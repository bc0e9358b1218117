------------------------------ MODULE HotTopic ------------------------------
(***************************************************************************)
(* The capture of customer questions: records that are analysed at the     *)
(* same time wait in one queue of promises; the head asks a model for the  *)
(* questions of its record, asks it again whether a question is one of the *)
(* candidates, and commits new items, the links of the record and the      *)
(* field run in one transaction.  An abort rejects the caller at once,     *)
(* while the capture keeps its place in the queue.                         *)
(*                                                                         *)
(* A question stands for its normalised text.  The records belong to jobs  *)
(* bound to one configuration version, as every analysis is, so candidates *)
(* come from the knowledge snapshot of that version.  A changed knowledge  *)
(* catalogue (KnowledgeSync) and a failed model call end in a failed run.  *)
(***************************************************************************)
EXTENDS Naturals, FiniteSets, Sequences

CONSTANTS Record, Question,
          Limit,        \* questions per record (knowledgeCaptureLimit)
          MaxAttempts,  \* bound on the captures of a record
          MaxChanges      \* bound on the operators' changes

ASSUME HotAssumption == {Limit, MaxAttempts, MaxChanges} \subseteq Nat

Capture == Record \X (1 .. MaxAttempts)
ItemId == (Capture \cup {<<"given">>}) \X Question
Item == [id : ItemId, q : Question]
rec(c) == c[1]

VARIABLES
  snap,     \* the version's snapshot: [hot: it holds the base, items]
  base,     \* the question base: "absent", "enabled", "disabled"
  items,    \* its rows
  on,       \* the ids of the rows that are enabled
  link,     \* link[r]: hot_topic_record_questions of the record
  run,      \* run[r]: the newest field run, [st, items]
  queue,    \* captures that have not settled, in their order
  phase,    \* phase[c]: "none", "waiting", "extract", "match", "settled"
  aborted,  \* captures whose analysis was cancelled
  todo,     \* todo[c]: questions not yet matched
  sel,      \* sel[c]: selected items
  changes

knowledge == <<base, items, on>>
capture == <<queue, phase, todo, sel>>
hotVars == <<snap, knowledge, link, run, capture, aborted, changes>>

Given(q) == [id |-> <<<<"given">>, q>>, q |-> q]
Created(c, q) == [id |-> <<c, q>>, q |-> q]

HotInit ==
  /\ \E known \in SUBSET Question, hot \in BOOLEAN :
       /\ snap = [hot |-> hot, items |-> {Given(q) : q \in known}]
       /\ base = IF hot THEN "enabled" ELSE "absent"
       /\ items = IF hot THEN snap.items ELSE {}
  /\ on = {i.id : i \in items}
  /\ link = [r \in Record |-> {}]
  /\ run = [r \in Record |-> [st |-> "none", items |-> {}]]
  /\ queue = <<>>
  /\ phase = [c \in Capture |-> "none"]
  /\ aborted = {}
  /\ todo = [c \in Capture |-> {}]
  /\ sel = [c \in Capture |-> {}]
  /\ changes = 0

Sets(c, place) == phase' = [phase EXCEPT ![c] = place]

\* The promise of the head settles and the next one starts.
Settle(c) == /\ Sets(c, "settled")
             /\ queue' = Tail(queue)
             /\ todo' = [todo EXCEPT ![c] = {}]
             /\ sel' = [sel EXCEPT ![c] = {}]

FinishRun(r, st, chosen) == run' = [run EXCEPT ![r] = [st |-> st, items |-> chosen]]

----------------------------------------------------------------------------
(* The queue. *)

Live(c) == c \notin aborted /\ phase[c] \in {"waiting", "extract", "match"}

\* A record is analysed by one run at a time: its next capture starts after
\* the one before has settled or was cancelled.
Enqueue(c) ==
  /\ phase[c] = "none"
  /\ \A d \in Capture : (rec(d) = rec(c) /\ d # c) =>
       IF d[2] < c[2] THEN phase[d] # "none" /\ ~Live(d) ELSE phase[d] = "none"
  /\ Sets(c, "waiting")
  /\ queue' = Append(queue, c)
  /\ UNCHANGED <<snap, knowledge, link, run, todo, sel, aborted, changes>>

AbortCapture(c) ==
  /\ Live(c)
  /\ aborted' = aborted \cup {c}
  /\ UNCHANGED <<snap, knowledge, link, run, capture, changes>>

MyTurn(c) == queue # <<>> /\ Head(queue) = c

BeginCapture(c) ==
  /\ phase[c] = "waiting" /\ MyTurn(c) /\ c \notin aborted
  /\ Sets(c, "extract")
  /\ UNCHANGED <<snap, knowledge, link, run, queue, todo, sel, aborted, changes>>

\* An aborted capture whose turn comes, or whose next check of the signal
\* does, throws; it writes no run.
Throw(c) ==
  /\ MyTurn(c) /\ c \in aborted
  /\ Settle(c)
  /\ UNCHANGED <<snap, knowledge, link, run, aborted, changes>>

----------------------------------------------------------------------------
(* The model's answers. *)

Extracted(c) ==
  /\ phase[c] = "extract"
  /\ \E qs \in SUBSET Question : /\ Cardinality(qs) <= Limit
                                 /\ todo' = [todo EXCEPT ![c] = qs]
  /\ Sets(c, "match")
  /\ UNCHANGED <<snap, knowledge, link, run, queue, sel, aborted, changes>>

\* The snapshot's items and the selections so far.  A record that has links
\* of an earlier capture is also offered the base of today, unless the
\* snapshot has a copy of it.
Candidates(c) ==
  snap.items \cup sel[c]
    \cup (IF link[rec(c)] # {} /\ base = "enabled" /\ ~snap.hot
            THEN {i \in items : i.id \in on} ELSE {})

Chooses(c, q, i) == /\ todo' = [todo EXCEPT ![c] = @ \ {q}]
                    /\ sel' = [sel EXCEPT ![c] = @ \cup {i}]
                    /\ UNCHANGED <<snap, knowledge, link, run, queue, phase, aborted, changes>>

\* An exact match needs no model.
Exact(c, q) == \E i \in Candidates(c) : i.q = q /\ Chooses(c, q, i)

\* A new item when there is no candidate, or when the model says so; the
\* model may also take a candidate for a synonym.
Judged(c, q) ==
  /\ \A i \in Candidates(c) : i.q # q
  /\ Candidates(c) = {} \/ c \notin aborted
  /\ \E i \in Candidates(c) \cup {Created(c, q)} : Chooses(c, q, i)

Match(c, q) == phase[c] = "match" /\ q \in todo[c] /\ (Exact(c, q) \/ Judged(c, q))

\* A failed call, an invalid answer, a changed catalogue, or a model that
\* asks for a review: the run records it and nothing else is written.
Fail(c, st) ==
  /\ phase[c] \in {"extract", "match"} /\ c \notin aborted
  /\ FinishRun(rec(c), st, {})
  /\ Settle(c)
  /\ UNCHANGED <<snap, knowledge, link, aborted, changes>>

----------------------------------------------------------------------------
(* The transaction. *)

\* The selections this capture has created.
New(c) == {i \in sel[c] : i.id[1] = c}
\* (mutant) a stopped item does not count
TakenByEnabled(c) == \E i \in items, n \in New(c) : i.q = n.q /\ i.id \in on
Taken(c) == \E i \in items, n \in New(c) : i.q = n.q
BaseStopped(c) == New(c) # {} /\ base = "disabled"

\* (mutant) no check after the last answer
MayCommitLate(c) == TRUE
\* The run still owns its record, and was not cancelled.
MayCommit(c) == c \notin aborted

\* New items, the links of the record, which are replaced as a whole, and
\* the run.
Commit(c) ==
  /\ phase[c] = "match" /\ todo[c] = {} /\ MayCommit(c)
  /\ ~BaseStopped(c) /\ ~Taken(c)
  /\ items' = items \cup New(c)
  /\ on' = on \cup {i.id : i \in New(c)}
  /\ base' = IF New(c) # {} THEN "enabled" ELSE base
  /\ link' = [link EXCEPT ![rec(c)] = sel[c]]
  /\ FinishRun(rec(c), "completed", sel[c])
  /\ Settle(c)
  /\ UNCHANGED <<snap, aborted, changes>>

\* A stopped base is not written to, and a question that the base holds is
\* not added again: the transaction is rolled back for a review.
Refuse(c) ==
  /\ phase[c] = "match" /\ todo[c] = {} /\ MayCommit(c)
  /\ BaseStopped(c) \/ Taken(c)
  /\ FinishRun(rec(c), IF BaseStopped(c) THEN "base stopped" ELSE "question stopped", {})
  /\ Settle(c)
  /\ UNCHANGED <<snap, knowledge, link, aborted, changes>>

----------------------------------------------------------------------------
(* The operators edit the knowledge base meanwhile. *)

Change == /\ changes < MaxChanges
        /\ changes' = changes + 1
        /\ UNCHANGED <<snap, link, run, capture, aborted>>

SwitchItem(i) == /\ Change
                 /\ on' = IF i.id \in on THEN on \ {i.id} ELSE on \cup {i.id}
                 /\ UNCHANGED <<base, items>>

DeleteItem(i) == /\ Change
                 /\ items' = items \ {i} /\ on' = on \ {i.id}
                 /\ UNCHANGED base

SwitchBase == /\ Change /\ base # "absent"
              /\ base' = IF base = "enabled" THEN "disabled" ELSE "enabled"
              /\ UNCHANGED <<items, on>>

DeleteBase == /\ Change /\ base # "absent"
              /\ base' = "absent" /\ items' = {} /\ on' = {}

HotNext ==
  \/ \E c \in Capture : \/ Enqueue(c) \/ AbortCapture(c) \/ BeginCapture(c) \/ Throw(c)
                        \/ Extracted(c) \/ Commit(c) \/ Refuse(c)
                        \/ \E q \in Question : Match(c, q)
                        \/ \E st \in {"failed", "needs_review"} : Fail(c, st)
  \/ \E i \in items : SwitchItem(i) \/ DeleteItem(i)
  \/ SwitchBase \/ DeleteBase

HotSpec == HotInit /\ [][HotNext]_hotVars

----------------------------------------------------------------------------

RunStatus == {"none", "completed", "failed", "needs_review", "base stopped", "question stopped"}

HotTypeOK ==
  /\ snap \in [hot : BOOLEAN, items : SUBSET Item]
  /\ base \in {"absent", "enabled", "disabled"}
  /\ items \subseteq Item /\ on \subseteq ItemId
  /\ link \in [Record -> SUBSET Item]
  /\ run \in [Record -> [st : RunStatus, items : SUBSET Item]]
  /\ queue \in Seq(Capture)
  /\ phase \in [Capture -> {"none", "waiting", "extract", "match", "settled"}]
  /\ aborted \subseteq Capture
  /\ todo \in [Capture -> SUBSET Question] /\ sel \in [Capture -> SUBSET Item]

\* Whatever the snapshots say and however captures follow one another, the
\* question base holds a question once, one capture at a time is between its
\* first call and its end, and the links of a record, which the pages count,
\* are those of its newest completed run.
OneEntryPerQuestion ==
  /\ HotTypeOK
  /\ \A i, j \in items : i.q = j.q => i = j
  /\ \A c, d \in Capture : {phase[c], phase[d]} \subseteq {"extract", "match"} => c = d
  /\ \A r \in Record : run[r].st = "completed" => link[r] = run[r].items

\* An analysis that was cancelled, or replaced by a newer one of its record,
\* changes neither the base nor links nor runs when its answer comes late.
LateAnswerWritesNothing ==
  [][(items' # items \/ link' # link \/ run' # run) /\ queue' # queue
       => LET c == Head(queue)
          IN  c \notin aborted /\ \A d \in Capture : rec(d) = rec(c) /\ d[2] > c[2]
                                      => phase[d] = "none"]_hotVars

=============================================================================
