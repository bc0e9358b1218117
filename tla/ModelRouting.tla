----------------------------- MODULE ModelRouting -----------------------------
(***************************************************************************)
(* Routing of model calls over the pool of one purpose.  Calls run beside  *)
(* one another; each resolves the members once, asks them one after the    *)
(* other, and records what it learns of their health in the shared rows.   *)
(*                                                                         *)
(* A member is on when its row is enabled, in the pool, paid, general and  *)
(* has a fresh passed capability check.  Time goes by in units of the      *)
(* first cooldown.  The tokens a paid request reserves are the matter of   *)
(* PaidBudget: here a reservation may be refused at any time.              *)
(***************************************************************************)
EXTENDS Integers, Sequences, FiniteSets, Functions

CONSTANTS Member,       \* the members, numbered in the order of their ids
          Provider,     \* the credentials they share
          ProviderOf,   \* the provider of a member, or None for a legacy one
          Class,        \* the rank by priority, thinking mode and quality tier
          Call,         \* the calls, each of which is made once
          MaxRequests,  \* the requests of a call (6 in the code)
          MaxCooldown,  \* the longest cooldown (30 in the code)
          MaxTime,      \* bound on the time that goes by
          MaxEdits,     \* bound on the edits of operators
          None

ASSUME RoutingAssumption ==
  /\ Member \subseteq Nat /\ None \notin Member \cup Provider /\ IsFiniteSet(Call)
  /\ ProviderOf \in [Member -> Provider \cup {None}]
  /\ Class \in [Member -> Nat]
  /\ MaxRequests \in Nat \ {0} /\ MaxCooldown \in Nat \ {0}
  /\ MaxTime \in Nat /\ MaxEdits \in Nat

VARIABLES
  row,      \* row[m]: [on, fails, until]
  provOn,   \* the providers that are enabled
  default,  \* the default of the purpose
  last,     \* roundRobinLastSelected
  call,     \* call[c]: what the call holds, see Idle
  now,
  edits

routeVars == <<row, provOn, default, last, call, now, edits>>

Row == [on : BOOLEAN, fails : 0 .. Cardinality(Call), until : 0 .. (MaxTime + MaxCooldown)]

\* row, default: the members as they were resolved; failed: failedMemberIds;
\* sent: (history) the members asked, in order; refused: (history) the
\* providers that refused their credential in this call; at: (history) when
\* it was out of candidates.
Idle == [st |-> "idle", row |-> <<>>, default |-> None, failed |-> {},
         retried |-> FALSE, sent |-> <<>>, refused |-> {}, at |-> 0]

RouteInit == /\ row = [m \in Member |-> [on |-> TRUE, fails |-> 0, until |-> 0]]
             /\ provOn = Provider
             /\ default = None
             /\ last = None
             /\ call = [c \in Call |-> Idle]
             /\ now = 0
             /\ edits = 0
----------------------------------------------------------------------------
\* resolvePoolMembers: the members in the pool with an enabled provider.
Resolved == {m \in Member : row[m].on /\ ProviderOf[m] \in provOn \cup {None}}

\* isPoolMemberEligible on the rows of the call.
Eligible(k) == {m \in (DOMAIN k.row) \ k.failed : k.row[m].until <= now}

\* rankModelCandidates
Ranks(k, a, b) ==
  IF a = k.default \/ b = k.default THEN b = k.default
  ELSE \/ Class[a] < Class[b]
       \/ /\ Class[a] = Class[b]
          /\ \/ k.row[a].fails < k.row[b].fails
             \/ k.row[a].fails = k.row[b].fails /\ a < b

\* The members of S that no other one of S precedes.
FirstOf(k, S) == {m \in S : \A a \in S \ {m} : Ranks(k, m, a)}

\* nextPoolCandidate: the default of the purpose, or the member that follows
\* the one selected last, whichever call selected it; the first one when that
\* one is not in the pool or is its last.
NextCandidates(k) ==
  LET pool == Eligible(k)
      later == {m \in pool : last \in pool /\ m # last /\ Ranks(k, last, m)}
  IN IF k.default \in pool THEN {k.default}
     ELSE FirstOf(k, IF later = {} THEN pool ELSE later)

Asked(k) == k.sent[Len(k.sent)]

(* What a call k does next in the same turn of the event loop. *)

\* The call is over, what it held is gone.
Finish(c, result) == call' = [call EXCEPT ![c] = [Idle EXCEPT !.st = result]]

\* So it is for want of a candidate, but the history stays.
Exhausted(c, k) == call' = [call EXCEPT ![c] = [k EXCEPT !.st = "exhausted", !.failed = {},
                                                         !.retried = FALSE, !.at = now]]

\* A request is consumed and sent; the call waits for its answer.
Send(c, k, m, again) ==
  call' = [call EXCEPT ![c] = [k EXCEPT !.st = "asking", !.retried = again,
                                        !.sent = Append(@, m)]]

\* The budget of the requests is used up.
Spent(k) == Len(k.sent) >= MaxRequests

\* A candidate is selected and asked; or the tokens cannot be reserved; or no
\* candidate, or none that may be paid, is left.
Proceed(c, k) ==
  IF Spent(k) THEN Finish(c, "budget") /\ UNCHANGED last
  ELSE IF Eligible(k) = {} THEN Exhausted(c, k) /\ UNCHANGED last
  ELSE \E m \in NextCandidates(k) : \/ Send(c, k, m, FALSE) /\ last' = m
                                    \/ Finish(c, "budget") /\ last' \in {m, last}

\* The same member once more.
Again(c, k) == /\ IF Spent(k) THEN Finish(c, "budget")
                  ELSE \/ Send(c, k, Asked(k), TRUE)
                       \/ Finish(c, "budget")
               /\ UNCHANGED last

Begin(c) ==
  /\ call[c].st = "idle"
  /\ Proceed(c, [Idle EXCEPT !.row = [m \in Resolved |-> row[m]],
                             !.default = default])
  /\ UNCHANGED <<row, provOn, default, now, edits>>

(* The answers. *)

Waiting(c) == call[c].st = "asking"

\* markSuccess, which forgets the failures other calls have recorded too.
Answered(c) ==
  /\ Waiting(c)
  /\ row' = [row EXCEPT ![Asked(call[c])].fails = 0, ![Asked(call[c])].until = 0]
  /\ Finish(c, "answered")
  /\ UNCHANGED <<provOn, default, last, now, edits>>

\* Its tokens pass the limit; or an error the pool can do nothing about.
Rejected(c) ==
  /\ Waiting(c)
  /\ \E result \in {"budget", "error"} : Finish(c, result)
  /\ UNCHANGED <<row, provOn, default, last, now, edits>>

GivenUp(k) == [k EXCEPT !.failed = @ \cup {Asked(k)}]

\* recordFailurePolicy "cooldown", from the failures the call has read.
Cooled(k) == LET m == Asked(k)
                 length == IF 2 ^ k.row[m].fails < MaxCooldown
                           THEN 2 ^ k.row[m].fails ELSE MaxCooldown
             IN [row EXCEPT ![m].fails = @ + 1, ![m].until = now + length]

\* Invalid output, or an error of the service or the network: the member is
\* asked again.
Retry(c) == /\ Waiting(c) /\ ~call[c].retried
            /\ Again(c, call[c])
            /\ UNCHANGED <<row, provOn, default, now, edits>>

\* The same a second time, or too many requests: the member cools down.
CoolDown(c) ==
  /\ Waiting(c)
  /\ row' = Cooled(call[c])
  /\ Proceed(c, GivenUp(call[c]))
  /\ UNCHANGED <<provOn, default, now, edits>>

\* The quota of the member is exhausted.
OutOfQuota(c) == /\ Waiting(c)
                 /\ Proceed(c, GivenUp(call[c]))
                 /\ UNCHANGED <<row, provOn, default, now, edits>>

\* The model is unknown, or a legacy member's credential is refused: the row
\* is disabled.
DisableMember(c) ==
  /\ Waiting(c)
  /\ row' = [row EXCEPT ![Asked(call[c])].on = FALSE]
  /\ Proceed(c, GivenUp(call[c]))
  /\ UNCHANGED <<provOn, default, now, edits>>

\* (mutant) only the member that was asked is given up
WithoutMember(k, p) == [GivenUp(k) EXCEPT !.refused = @ \cup {p}]

WithoutProvider(k, p) ==
  [k EXCEPT !.failed = @ \cup {Asked(k)} \cup {m \in DOMAIN k.row : ProviderOf[m] = p},
            !.refused = @ \cup {p}]

\* The credential is refused: the provider is disabled, and its members are
\* given up.
DisableProvider(c) ==
  LET k == call[c]
      p == ProviderOf[Asked(k)]
  IN /\ Waiting(c) /\ p # None
     /\ provOn' = provOn \ {p}
     /\ Proceed(c, WithoutProvider(k, p))
     /\ UNCHANGED <<row, default, now, edits>>

CallActs(c) == \/ Answered(c) \/ Rejected(c) \/ Retry(c) \/ CoolDown(c) \/ OutOfQuota(c)
               \/ DisableMember(c) \/ DisableProvider(c)
----------------------------------------------------------------------------
\* The analysis is cancelled, or the five minutes of the call are over. An
\* answer that comes all the same is discarded.
Abort(c) == /\ Waiting(c)
            /\ Finish(c, "stopped")
            /\ UNCHANGED <<row, provOn, default, last, now, edits>>

\* An operator changes a member, enables a provider or selects a default.
Edit == /\ edits < MaxEdits
        /\ edits' = edits + 1
        /\ \/ \E m \in Member : row' = [row EXCEPT ![m].on = ~@] /\ UNCHANGED <<provOn, default>>
           \/ \E p \in Provider \ provOn : provOn' = provOn \cup {p} /\ UNCHANGED <<row, default>>
           \/ default' \in (Member \cup {None}) \ {default} /\ UNCHANGED <<row, provOn>>
        /\ UNCHANGED <<last, call, now>>

Tick == /\ now < MaxTime
        /\ now' = now + 1
        /\ UNCHANGED <<row, provOn, default, last, call, edits>>

RouteNext == \/ \E c \in Call : Begin(c) \/ CallActs(c) \/ Abort(c)
             \/ Edit
             \/ Tick

RouteSpec == RouteInit /\ [][RouteNext]_routeVars
----------------------------------------------------------------------------
Ends == {"answered", "budget", "error", "exhausted", "stopped"}

RouteTypeOK ==
  /\ row \in [Member -> Row]
  /\ provOn \subseteq Provider
  /\ default \in Member \cup {None} /\ last \in Member \cup {None}
  /\ now \in 0 .. MaxTime /\ edits \in 0 .. MaxEdits
  /\ \A c \in Call : LET k == call[c]
                     IN /\ k.st \in {"idle", "asking"} \cup Ends
                        /\ k.failed \subseteq DOMAIN k.row
                        /\ DOMAIN k.row \subseteq Member
                        /\ k.sent \in Seq(Member) /\ k.refused \subseteq Provider
                        /\ k.retried \in BOOLEAN /\ k.at \in 0 .. MaxTime
                        /\ (k.st = "asking") => (k.sent # <<>>)

\* In one call a member is asked twice at most and not again after another
\* one, none after its provider has refused the credential the call was made
\* with, and no more requests are sent than the budget has (routeModelPool and
\* withModelBudget: retries, switches and refusals of the same call).
AskedInTurn ==
  /\ RouteTypeOK
  /\ \A c \in Call :
       LET k == call[c]
       IN /\ Len(k.sent) <= MaxRequests
          /\ \A a, b \in DOMAIN k.sent : ((k.sent[a] = k.sent[b]) /\ (a < b)) => (b = a + 1)
          /\ (k.st = "asking") => (ProviderOf[Asked(k)] \notin k.refused)

\* A call that ends for want of a candidate has asked every member it was
\* given, except those that were cooling down and those whose provider had
\* refused the credential (routeModelPool's failedMemberIds).
ExhaustedMeansTried ==
  \A c \in Call :
    (call[c].st = "exhausted") =>
      \A m \in DOMAIN call[c].row : \/ m \in Range(call[c].sent)
                                    \/ ProviderOf[m] \in call[c].refused
                                    \/ call[c].row[m].until > call[c].at

\* Nobody is asked in vain, and nobody who could answer is left out: both of
\* the above, whatever other calls, edits and cooldowns happen meanwhile.
TriedInTurn == AskedInTurn /\ ExhaustedMeansTried
=============================================================================
