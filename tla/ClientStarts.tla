---------------------------- MODULE ClientStarts ----------------------------
(***************************************************************************)
(* What the operator of one browser tab starts: records are ticked on the  *)
(* page of the job shown, a batch or a retry is asked for, the server is   *)
(* asked for its capacity, a dialog proposes the options, and what is      *)
(* confirmed there is sent.  Meanwhile the operator may open another job.  *)
(*                                                                         *)
(* The buttons also look at the job's status; it may be an old one, so it  *)
(* restrains nothing here.                                                 *)
(***************************************************************************)
EXTENDS Naturals, FiniteSets

CONSTANTS TaskJob, TaskRecord,
          TaskOf,        \* TaskOf[r]: the job of a record
          MaxTokens,     \* bound on operations and navigations
          NoTask

ASSUME StartsAssumption == /\ TaskOf \in [TaskRecord -> TaskJob] /\ NoTask \notin TaskJob
                           /\ MaxTokens \in Nat

VARIABLES
  status,   \* status[r] on the server: "pending", "failed" or "done"
  run,      \* run[j]: the records that the run of a job still has to analyse
  by,       \* history; by[j]: what was asked for that gave the job its last run
  open,     \* the job shown
  heading,  \* the job navigated to, or NoTask
  ticks,    \* the records ticked
  confined, \* records the next batch is for; {}: the whole job
  offered,  \* NoTask while the dialog of a batch is not shown; its value is
            \* history, since the dialog does not know what batch it is for
  offer,    \* the retry that is proposed, or NoTask
  token,    \* the last operation: only its answer is shown
  busy,     \* the operation that makes the tab busy, or 0
  acting,   \* the task action under way, or 0
  flights   \* operations under way

startVars == <<status, run, by, open, heading, ticks, confined, offered, offer, token, busy, acting, flights>>
runVars == <<status, run, by>>

Of(j) == {r \in TaskRecord : TaskOf[r] = j}

StartInit ==
  /\ status \in [TaskRecord -> {"pending", "failed"}]
  /\ run = [j \in TaskJob |-> {}] /\ by = [j \in TaskJob |-> NoTask]
  /\ open \in TaskJob /\ heading = NoTask
  /\ ticks = {} /\ confined = {} /\ offered = NoTask /\ offer = NoTask
  /\ token = 0 /\ busy = 0 /\ acting = 0 /\ flights = {}

----------------------------------------------------------------------------
(* Operations of the tab. *)

\* History: what a button is pressed for, and which job was then being opened.
Asked(ids) == [job |-> open, ids |-> ids, toward |-> heading]

Flight(kind, ids, asked) ==
  [id |-> token + 1, kind |-> kind, job |-> open, ids |-> ids, asked |-> asked,
   stage |-> "sent", skips |-> FALSE]

\* An operation of the job shown, which makes the one before it an old one.
Depart(kind, ids, asked) ==
  /\ token < MaxTokens /\ token' = token + 1
  /\ flights' = flights \cup {Flight(kind, ids, asked)}
IsLatest(f) == token = f.id /\ open = f.job
Landed(f) ==
  /\ flights' = flights \ {f}
  /\ busy' = IF busy = f.id THEN 0 ELSE busy
  /\ acting' = IF acting = f.id THEN 0 ELSE acting

\* The dialogs cover the page.
RetryShown == offer # NoTask /\ offer.job = open
Covered == offered # NoTask \/ RetryShown
View == <<open, heading>>

TickRecord(r) ==
  /\ ~Covered /\ r \in Of(open)
  /\ ticks' = IF r \in ticks THEN ticks \ {r} ELSE ticks \cup {r}
  /\ UNCHANGED <<runVars, View, confined, offered, offer, token, busy, acting, flights>>

\* Another filter, or the button that clears them.
ClearTicks == /\ ~Covered /\ ticks # {} /\ ticks' = {}
              /\ UNCHANGED <<runVars, View, confined, offered, offer, token, busy, acting, flights>>

RequestBatch(ids) ==
  /\ ~Covered /\ busy = 0 /\ acting = 0 /\ ids \in {{}, ticks}
  /\ confined' = ids
  /\ \/ /\ Depart("capacity", {}, Asked(ids)) /\ busy' = token + 1
     \/ UNCHANGED <<token, flights, busy>>            \* the models are not ready
  /\ UNCHANGED <<runVars, View, ticks, offered, offer, acting>>

\* One record or one of its fields is analysed again.
AnalyseOne ==
  /\ ~Covered /\ busy = 0
  /\ Depart("single", {}, Asked({})) /\ busy' = token + 1
  /\ UNCHANGED <<runVars, View, ticks, confined, offered, offer, acting>>

CancelBatch == /\ offered # NoTask /\ offered' = NoTask
               /\ UNCHANGED <<runVars, View, ticks, confined, offer, token, busy, acting, flights>>

ConfirmBatch ==
  /\ offered # NoTask /\ offered' = NoTask
  /\ Depart("start", confined, offered) /\ busy' = token + 1 /\ confined' = {}
  /\ UNCHANGED <<runVars, View, ticks, offer, acting>>

RequestRetry ==
  /\ ~Covered /\ acting = 0
  /\ Depart("options", {}, Asked({})) /\ acting' = token + 1
  /\ UNCHANGED <<runVars, View, ticks, confined, offered, offer, busy>>

CancelRetry == /\ RetryShown /\ offer' = NoTask
               /\ UNCHANGED <<runVars, View, ticks, confined, offered, token, busy, acting, flights>>

\* A task action under way swallows the confirmation.
ConfirmRetry ==
  /\ RetryShown /\ offer' = NoTask
  /\ IF acting # 0 THEN UNCHANGED <<token, flights, acting>>
     ELSE Depart("retry", {}, offer) /\ acting' = token + 1
  /\ UNCHANGED <<runVars, View, ticks, confined, offered, busy>>

\* Pausing or cancelling.
StopJob ==
  /\ ~Covered /\ acting = 0
  /\ Depart("stop", {}, Asked({})) /\ acting' = token + 1
  /\ UNCHANGED <<runVars, View, ticks, confined, offered, offer, busy>>

----------------------------------------------------------------------------
(* Answers. *)

\* The server refuses records of another job.
Accepts(f) == f.ids \subseteq Of(f.job)

Unfinished(ids) == {r \in ids : status[r] # "done"}

ServeStart(f) ==
  /\ f \in flights /\ f.kind = "start" /\ f.stage = "sent"
  /\ LET todo == Unfinished(IF f.ids = {} THEN Of(f.job) ELSE f.ids) IN
     /\ IF Accepts(f) /\ run[f.job] = {}
        THEN run' = [run EXCEPT ![f.job] = todo] /\ by' = [by EXCEPT ![f.job] = f.asked]
        ELSE UNCHANGED <<run, by>>
     /\ flights' = (flights \ {f}) \cup {[f EXCEPT !.stage = "served",
                                                   !.skips = Accepts(f) /\ ~(f.ids \subseteq todo)]}
  /\ UNCHANGED <<status, View, ticks, confined, offered, offer, token, busy, acting>>

ServeAction(f) ==
  /\ f \in flights /\ f.kind \in {"retry", "stop"} /\ f.stage = "sent"
  /\ CASE f.kind = "stop" -> run' = [run EXCEPT ![f.job] = {}] /\ UNCHANGED by
       [] f.kind = "retry" /\ run[f.job] # {} -> UNCHANGED <<run, by>>
       [] OTHER -> /\ run' = [run EXCEPT ![f.job] = {r \in Of(f.job) : status[r] = "failed"}]
                   /\ by' = [by EXCEPT ![f.job] = f.asked]
  /\ flights' = (flights \ {f}) \cup {[f EXCEPT !.stage = "served"]}
  /\ UNCHANGED <<status, View, ticks, confined, offered, offer, token, busy, acting>>

Asks == {"capacity", "options", "single"}
AnswerFlight(f, ok) ==
  /\ f \in flights /\ (f.kind \in Asks \/ f.stage = "served") /\ Landed(f)
  /\ offered' = IF f.kind = "capacity" /\ ok /\ IsLatest(f) THEN f.asked ELSE offered
  /\ offer' = IF f.kind = "options" /\ ok /\ IsLatest(f) THEN f.asked ELSE offer
  /\ ticks' = IF f.skips /\ IsLatest(f) THEN {} ELSE ticks
  /\ UNCHANGED <<runVars, View, confined, token>>

\* A request that never reaches the server.
FlightLost(f) ==
  /\ f \in flights /\ f.kind \notin Asks /\ f.stage = "sent" /\ Landed(f)
  /\ UNCHANGED <<runVars, View, ticks, confined, offered, offer, token>>

----------------------------------------------------------------------------
(* Another job is opened: what is under way is not waited for. *)

\* (mutant) what is under way still counts as the last operation
LeaveInPlace == /\ token < MaxTokens /\ UNCHANGED token /\ busy' = 0 /\ acting' = 0
LeaveOperations == /\ token < MaxTokens /\ token' = token + 1 /\ busy' = 0 /\ acting' = 0

GoTo(j) ==
  /\ ~Covered /\ ~(j = open /\ heading = NoTask) /\ LeaveOperations
  /\ heading' = j
  /\ UNCHANGED <<runVars, open, ticks, confined, offered, offer, flights>>

Arrive ==
  /\ heading # NoTask /\ heading' = NoTask /\ open' = heading
  /\ IF heading = open THEN UNCHANGED <<token, busy, acting, ticks>>
                       ELSE LeaveOperations /\ ticks' = {}
  /\ UNCHANGED <<runVars, confined, offered, offer, flights>>

ArriveFails == /\ heading # NoTask /\ heading' = NoTask
               /\ UNCHANGED <<runVars, open, ticks, confined, offered, offer, token, busy, acting, flights>>

\* A record is analysed.
Work(r, outcome) ==
  /\ \E j \in TaskJob : r \in run[j] /\ run' = [run EXCEPT ![j] = @ \ {r}]
  /\ status' = [status EXCEPT ![r] = outcome]
  /\ UNCHANGED <<by, View, ticks, confined, offered, offer, token, busy, acting, flights>>

StartNext ==
  \/ ClearTicks \/ AnalyseOne \/ CancelBatch \/ ConfirmBatch
  \/ RequestRetry \/ CancelRetry \/ ConfirmRetry \/ StopJob
  \/ Arrive \/ ArriveFails
  \/ \E r \in TaskRecord : TickRecord(r) \/ \E outcome \in {"failed", "done"} : Work(r, outcome)
  \/ \E ids \in {{}, ticks} : RequestBatch(ids)
  \/ \E j \in TaskJob : GoTo(j)
  \/ \E f \in flights : \/ ServeStart(f) \/ ServeAction(f) \/ FlightLost(f)
                        \/ \E ok \in BOOLEAN : AnswerFlight(f, ok)

StartsSpec == StartInit /\ [][StartNext]_startVars

----------------------------------------------------------------------------

\* Records that were ticked are only analysed in the job they were ticked in, and
\* no others with them.  A batch of a whole job, and a retry, is of the job it was
\* asked for, with one exception: if another job was being opened when the batch
\* was asked for, it may be of that one, since the dialog stays when it opens.
AsAsked(j, asked) ==
  /\ run[j] \subseteq IF asked.ids = {} THEN Of(j) ELSE asked.ids
  /\ asked.ids # {} => asked.job = j
  /\ j \in {asked.job, asked.toward}

\* Whatever job is opened while a dialog, a capacity or an answer is on its way:
\* what runs is what was asked for (AsAsked); what is ticked is of the job shown;
\* and the tab is busy only while an operation of the job shown is under way that
\* makes it so.
StartsHold ==
  /\ \A j \in TaskJob : run[j] # {} => AsAsked(j, by[j])
  /\ ticks \subseteq Of(open)
  /\ busy # 0 => \E f \in flights : f.id = busy /\ f.job = open /\ f.kind \in {"capacity", "start", "single"}
  /\ acting # 0 => \E f \in flights : f.id = acting /\ f.job = open /\ f.kind \in {"options", "retry", "stop"}
=============================================================================
