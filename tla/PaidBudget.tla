----------------------------- MODULE PaidBudget -----------------------------
(***************************************************************************)
(* The paid tokens of model calls: what a batch may use, in memory, and    *)
(* what may be used in a day and in a month, in the row of settings beside *)
(* the usage events. A call reserves the model's output limit before it    *)
(* awaits the answer and settles what was billed after it. Meanwhile other *)
(* calls reserve, the day ends, or the process dies. Days are days in UTC. *)
(***************************************************************************)
EXTENDS Integers, FiniteSets

CONSTANTS
  Route,          \* loops of routeModelPool, each with at most one call
  Batch,          \* the contexts of withPaidTokenBudget
  BatchOf,        \* the context a route runs in
  MaxTokens,      \* the largest output limit of a model
  MaxBilled,      \* bound: what a provider bills for a call, prompt included
  BatchLimit,     \* maxPaidTokens of a batch
  DailyLimit, MonthlyLimit,
  MonthOf,        \* the month of a day
  LastDay,        \* bound: days
  MaxCrashes      \* bound: crashes

Day == 1..LastDay

ASSUME RouteAssumption == IsFiniteSet(Route) /\ BatchOf \in [Route -> Batch]
ASSUME LimitAssumption ==
  /\ MaxTokens \in Nat /\ MaxBilled \in Nat
  /\ BatchLimit \in [Batch -> Nat]
  /\ DailyLimit \in Nat /\ MonthlyLimit \in Nat
ASSUME DayAssumption ==
  /\ LastDay \in Nat \ {0}
  /\ MonthOf \in [Day -> Nat]
  /\ \A d \in Day, e \in Day : d <= e => MonthOf[d] <= MonthOf[e]
ASSUME CrashAssumption == MaxCrashes \in Nat

VARIABLES
  today,
  used,                             \* of each batch, reservations included
  tokens, heldOn,                   \* what a route has reserved, and on which day; 0: no call
  rowDay, dayReserved, monthReserved,     \* the reservations in the settings row
  daySpent, monthSpent,             \* the events of today and of this month
  dayExcess, monthExcess,           \* ghosts, see Excess
  crashes

callVars == <<used, tokens, heldOn>>
rowVars == <<rowDay, dayReserved, monthReserved>>
spentVars == <<daySpent, monthSpent>>
excessVars == <<dayExcess, monthExcess>>
vars == <<today, callVars, rowVars, spentVars, excessVars, crashes>>

TypeOK ==
  /\ today \in Day
  /\ used \in [Batch -> Nat]
  /\ tokens \in [Route -> 0..MaxTokens]
  /\ heldOn \in [Route -> {0} \cup Day]
  /\ rowDay \in {0} \cup Day
  /\ dayReserved \in Nat /\ monthReserved \in Nat
  /\ daySpent \in Nat /\ monthSpent \in Nat
  /\ dayExcess \in Nat /\ monthExcess \in Nat
  /\ crashes \in Nat

Init ==
  /\ today = 1
  /\ used = [b \in Batch |-> 0]
  /\ tokens = [r \in Route |-> 0] /\ heldOn = [r \in Route |-> 0]
  /\ rowDay = 0 /\ dayReserved = 0 /\ monthReserved = 0
  /\ daySpent = 0 /\ monthSpent = 0
  /\ dayExcess = 0 /\ monthExcess = 0
  /\ crashes = 0

-----------------------------------------------------------------------------
(* A call *)

SameMonth(d) == d # 0 /\ MonthOf[d] = MonthOf[today]

\* mutant: reservations of other calls are not seen
UncountedDay == 0

\* The row's reservations count while its day, or its month, lasts.
CountedDay == IF rowDay = today THEN dayReserved ELSE 0
CountedMonth == IF SameMonth(rowDay) THEN monthReserved ELSE 0

\* reservePaidTokens, then reservePersistedPaidAllowance. If the second refuses,
\* the first is taken back: a refused call changes nothing.
Reserve(r, n) ==
  LET b == BatchOf[r] IN
  /\ heldOn[r] = 0
  /\ used[b] + n <= BatchLimit[b]
  /\ DailyLimit > 0 /\ MonthlyLimit > 0
  /\ daySpent + CountedDay + n <= DailyLimit
  /\ monthSpent + CountedMonth + n <= MonthlyLimit
  /\ used' = [used EXCEPT ![b] = @ + n]
  /\ tokens' = [tokens EXCEPT ![r] = n]
  /\ heldOn' = [heldOn EXCEPT ![r] = today]
  /\ rowDay' = today
  /\ dayReserved' = CountedDay + n
  /\ monthReserved' = CountedMonth + n
  /\ UNCHANGED <<today, spentVars, excessVars, crashes>>

\* MAX(0, counter - n)
Minus(counter, n) == IF n <= counter THEN counter - n ELSE 0

\* releasePersistedPaidAllowance, which matches the day and the month of the row
Release(r) ==
  /\ rowDay' = rowDay
  /\ dayReserved' = IF rowDay = heldOn[r] THEN Minus(dayReserved, tokens[r]) ELSE dayReserved
  /\ monthReserved' = IF rowDay = heldOn[r] THEN Minus(monthReserved, tokens[r]) ELSE monthReserved
  /\ tokens' = [tokens EXCEPT ![r] = 0]
  /\ heldOn' = [heldOn EXCEPT ![r] = 0]

\* settlePaidTokens accepts what was billed
Fits(r, billed) ==
  used[BatchOf[r]] - tokens[r] + billed <= BatchLimit[BatchOf[r]]

\* what a call adds to a limit's spending that the limit's reservations did not cover
Excess(r, billed, covered) ==
  IF ~covered THEN billed ELSE IF billed > tokens[r] THEN billed - tokens[r] ELSE 0

\* The answer is there, valid or not. What the batch cannot pay is not accounted.
Settle(r, billed) ==
  LET b == BatchOf[r]
      accounted == IF Fits(r, billed) THEN billed ELSE 0
  IN
  /\ heldOn[r] # 0
  /\ used' = [used EXCEPT ![b] = @ - tokens[r] + accounted]
  /\ Release(r)
  /\ daySpent' = daySpent + accounted
  /\ monthSpent' = monthSpent + accounted
  /\ dayExcess' = dayExcess + Excess(r, accounted, heldOn[r] = today)
  /\ monthExcess' = monthExcess + Excess(r, accounted, SameMonth(heldOn[r]))
  /\ UNCHANGED <<today, crashes>>

\* mutant: only an answered call gives its reservation back
KeepReserved(r) ==
  /\ heldOn[r] # 0
  /\ used' = [used EXCEPT ![BatchOf[r]] = @ - tokens[r]]
  /\ tokens' = [tokens EXCEPT ![r] = 0]
  /\ heldOn' = [heldOn EXCEPT ![r] = 0]
  /\ UNCHANGED <<today, rowVars, spentVars, excessVars, crashes>>

\* The call fails, times out or is cancelled.
Fail(r) ==
  /\ heldOn[r] # 0
  /\ used' = [used EXCEPT ![BatchOf[r]] = @ - tokens[r]]
  /\ Release(r)
  /\ UNCHANGED <<today, spentVars, excessVars, crashes>>

-----------------------------------------------------------------------------
(* Around the calls *)

\* a batch ends and the next begins with a counter of its own
NewBatch(b) ==
  /\ \A r \in Route : BatchOf[r] = b => heldOn[r] = 0
  /\ used' = [used EXCEPT ![b] = 0]
  /\ UNCHANGED <<today, tokens, heldOn, rowVars, spentVars, excessVars, crashes>>

Midnight ==
  /\ today < LastDay
  /\ today' = today + 1
  /\ daySpent' = 0 /\ dayExcess' = 0
  /\ IF MonthOf[today'] = MonthOf[today]
     THEN UNCHANGED <<monthSpent, monthExcess>>
     ELSE monthSpent' = 0 /\ monthExcess' = 0
  /\ UNCHANGED <<callVars, rowVars, crashes>>

\* The process dies and starts again. The row stays as it is.
Crash ==
  /\ crashes < MaxCrashes
  /\ crashes' = crashes + 1
  /\ used' = [b \in Batch |-> 0]
  /\ tokens' = [r \in Route |-> 0]
  /\ heldOn' = [r \in Route |-> 0]
  /\ UNCHANGED <<today, rowVars, spentVars, excessVars>>

CallStep(r) ==
  \/ \E n \in 1..MaxTokens : Reserve(r, n)
  \/ \E billed \in 0..MaxBilled : Settle(r, billed)
  \/ Fail(r)

Next ==
  \/ \E r \in Route : CallStep(r)
  \/ \E b \in Batch : NewBatch(b)
  \/ Midnight
  \/ Crash

Spec == Init /\ [][Next]_vars

-----------------------------------------------------------------------------
(* What the limits promise *)

\* The sum of t over S, as the number of its single tokens.
Units(t, S) == {u \in Route \X (1..MaxTokens) : u[1] \in S /\ u[2] <= t[u[1]]}
Total(t, S) == Cardinality(Units(t, S))

Calls == {r \in Route : heldOn[r] # 0}
CallsOf(b) == {r \in Calls : BatchOf[r] = b}
CallsToday == {r \in Calls : heldOn[r] = today}
CallsThisMonth == {r \in Calls : SameMonth(heldOn[r])}

\* No call was begun after the row was last written, which was not after today.
CallsInOrder ==
  /\ \A r \in Route : heldOn[r] <= rowDay
  /\ rowDay <= today

\* A batch never uses more than its limit, and its counter covers all its calls
\* in flight, so that no settlement is refused as invalid.
BatchHolds ==
  \A b \in Batch : used[b] <= BatchLimit[b] /\ Total(tokens, CallsOf(b)) <= used[b]

\* Neither midnight nor a crash nor another call's release takes a call in flight
\* out of the row's counters: what two calls reserve is never given to a third.
RowCovers ==
  /\ Total(tokens, CallsToday) <= CountedDay
  /\ Total(tokens, CallsThisMonth) <= CountedMonth

\* Only what was billed above the reservation, or for a call from before
\* midnight, lets the day's spending and open reservations pass the daily limit.
DayHolds == daySpent + Total(tokens, CallsToday) <= DailyLimit + dayExcess

\* The same for the month, whatever reservations were lost in the row.
MonthHolds == monthSpent + Total(tokens, CallsThisMonth) <= MonthlyLimit + monthExcess

\* No batch, no day and no month is overspent, whatever the calls, midnights and
\* crashes in between.
LimitsHold == BatchHolds /\ DayHolds /\ MonthHolds

\* Every way a call can end gives its reservation back: the day's counter is what
\* the calls in flight have reserved, unless the process died.
DayReturns == crashes = 0 => CountedDay = Total(tokens, CallsToday)

\* The same of the month's counter.
MonthReturns == crashes = 0 => CountedMonth = Total(tokens, CallsThisMonth)

PInv ==
  /\ TypeOK
  /\ CallsInOrder
  /\ BatchHolds
  /\ RowCovers
  /\ DayHolds
  /\ MonthHolds
  /\ DayReturns
=============================================================================
