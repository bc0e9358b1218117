--------------------------- MODULE ClientPolling ---------------------------
(***************************************************************************)
(* The poll by which a tab follows the analysis it started: a timer, at    *)
(* most one request at a time, and operations of the person that suspend   *)
(* it and resume it when they end, in any order.                           *)
(*                                                                         *)
(* Replies to a poller that was cancelled change nothing; they are         *)
(* forgotten when it is.                                                   *)
(***************************************************************************)
EXTENDS Naturals, FiniteSets

CONSTANTS Operation,  \* the operations that suspend the poll
          MaxGen,     \* bound: suspensions of one poller
          MaxRuns,    \* bound: analyses started
          NoPoll

Pollers == [gen : Nat, timer : BOOLEAN, suspended : BOOLEAN]

ASSUME PollingAssumption == {MaxGen, MaxRuns} \subseteq Nat /\ NoPoll \notin Pollers

VARIABLES
  going,     \* the server is analysing the job
  started,   \* the analyses started so far
  seen,      \* the status the tab has of the job
  poller,    \* the poller of the tab
  polls,     \* its polls in progress, with the generation each began in
  held       \* held[o]: the generation operation o suspended, 0 if none

pollVars == <<going, started, seen, poller, polls, held>>

PollInit ==
  /\ going = FALSE /\ started = 0 /\ seen = "stopped"
  /\ poller = NoPoll /\ polls = {} /\ held = [o \in Operation |-> 0]

Scheduled(p, running) == IF p.suspended \/ running THEN p ELSE [p EXCEPT !.timer = TRUE]

\* The person starts the analysis, and the tab a poller of its own.
StartAnalysis ==
  /\ ~going /\ started < MaxRuns
  /\ going' = TRUE /\ started' = started + 1 /\ seen' = "processing"
  /\ poller' = Scheduled([gen |-> 1, timer |-> FALSE, suspended |-> FALSE], FALSE)
  /\ polls' = {} /\ held' = [o \in Operation |-> 0]

\* Another job is selected: the poller is cancelled.
CancelPoll == /\ poller # NoPoll
              /\ poller' = NoPoll /\ polls' = {} /\ held' = [o \in Operation |-> 0]
              /\ UNCHANGED <<going, started, seen>>

Ends == going /\ going' = FALSE /\ UNCHANGED <<started, seen, poller, polls, held>>

\* Another tab starts the analysis again; the list of jobs tells this one.
StartsElsewhere ==
  /\ ~going /\ started < MaxRuns
  /\ going' = TRUE /\ started' = started + 1
  /\ UNCHANGED <<seen, poller, polls, held>>

SeesJob == /\ seen' = (IF going THEN "processing" ELSE "stopped")
           /\ seen' # seen
           /\ UNCHANGED <<going, started, poller, polls, held>>

SuspendPoll(o) ==
  /\ poller # NoPoll /\ held[o] = 0 /\ poller.gen < MaxGen
  /\ poller' = [gen |-> poller.gen + 1, timer |-> FALSE, suspended |-> TRUE]
  /\ held' = [held EXCEPT ![o] = poller.gen + 1]
  /\ UNCHANGED <<going, started, seen, polls>>

MayResume(o) == poller.suspended /\ poller.gen = held[o] /\ seen = "processing"

ResumePoll(o) ==
  /\ held[o] # 0
  /\ poller' = IF poller # NoPoll /\ MayResume(o)
                 THEN Scheduled([poller EXCEPT !.suspended = FALSE], polls # {}) ELSE poller
  /\ held' = [held EXCEPT ![o] = 0]
  /\ UNCHANGED <<going, started, seen, polls>>

Fires ==
  /\ poller # NoPoll /\ poller.timer
  /\ poller' = [poller EXCEPT !.timer = FALSE]
  /\ polls' = polls \cup {[gen |-> poller.gen, stage |-> "job", to |-> "none"]}
  /\ UNCHANGED <<going, started, seen, held>>

Current(poll) == ~poller.suspended /\ poller.gen = poll.gen

\* A poll is over: the next is scheduled, whatever became of this one.
Over(poll) ==
  /\ polls' = polls \ {poll}
  /\ poller' = Scheduled(poller, polls' # {})

\* The job has come; its progress or its end makes the tab read the page again.
JobReply(poll) ==
  /\ poll \in polls /\ poll.stage = "job"
  /\ LET st == IF going THEN "processing" ELSE "stopped" IN
     \/ /\ Current(poll) /\ seen' = st
        /\ polls' = (polls \ {poll}) \cup {[poll EXCEPT !.stage = "page", !.to = st]}
        /\ UNCHANGED poller
     \/ Current(poll) /\ going /\ seen' = st /\ Over(poll)
     \/ ~Current(poll) /\ UNCHANGED seen /\ Over(poll)
  /\ UNCHANGED <<going, started, held>>

JobFails(poll) ==
  /\ poll \in polls /\ poll.stage = "job"
  /\ Over(poll) /\ UNCHANGED <<going, started, seen, held>>

\* The page has come or failed.  The poll that saw the end is the last one.
PollPageReply(poll) ==
  /\ poll \in polls /\ poll.stage = "page"
  /\ IF Current(poll) /\ poll.to = "stopped"
       THEN poller' = NoPoll /\ polls' = {} /\ held' = [o \in Operation |-> 0]
       ELSE Over(poll) /\ UNCHANGED held
  /\ UNCHANGED <<going, started, seen>>

PollNext ==
  \/ StartAnalysis \/ CancelPoll \/ Ends \/ StartsElsewhere \/ SeesJob \/ Fires
  \/ \E o \in Operation : SuspendPoll(o) \/ ResumePoll(o)
  \/ \E poll \in polls : JobReply(poll) \/ JobFails(poll) \/ PollPageReply(poll)

PollSpec == PollInit /\ [][PollNext]_pollVars

----------------------------------------------------------------------------

\* However suspensions and their ends overlap, a poller that is not suspended
\* has exactly one thing to wait for, the timer or a poll in progress.
OnePollAtATime ==
  poller # NoPoll =>
    /\ Cardinality(polls) <= 1
    /\ ~poller.suspended => (poller.timer <=> polls = {})
    /\ poller.suspended => ~poller.timer
=============================================================================
