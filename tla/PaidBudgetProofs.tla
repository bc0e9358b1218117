-------------------------- MODULE PaidBudgetProofs --------------------------
(***************************************************************************)
(* PInv is an invariant of PaidBudget, for any routes, batches, limits and *)
(* number of crashes. First the sums over the calls in flight.             *)
(***************************************************************************)
EXTENDS PaidBudget, FiniteSetTheorems, TLAPS

Tokens == [Route -> 0..MaxTokens]

\* A sum is over finitely many tokens.
LEMMA UnitsFinite ==
  ASSUME NEW t, NEW S
  PROVE  IsFiniteSet(Units(t, S)) /\ Total(t, S) \in Nat
<1>1. IsFiniteSet(Route) /\ MaxTokens \in Nat
  BY RouteAssumption, LimitAssumption
<1>2. IsFiniteSet(1..MaxTokens)
  BY <1>1, FS_Interval
<1>3. IsFiniteSet(Route \X (1..MaxTokens))
  BY <1>1, <1>2, FS_Product
<1>4. Units(t, S) \in SUBSET (Route \X (1..MaxTokens))
  BY DEF Units
<1>5. IsFiniteSet(Units(t, S))
  BY <1>3, <1>4, FS_Subset
<1> QED BY <1>5, FS_CardinalityType DEF Total

\* A sum is that of the others and of r.
LEMMA TotalWithout ==
  ASSUME NEW t \in Tokens, NEW S, S \subseteq Route, NEW r \in S
  PROVE  Total(t, S) = Total(t, S \ {r}) + t[r]
<1> DEFINE A == Units(t, S \ {r})
           B == {r} \X (1..t[r])
<1>1. t[r] \in Nat /\ t[r] <= MaxTokens /\ MaxTokens \in Nat
  BY LimitAssumption DEF Tokens
<1>2. Units(t, S) = A \cup B
  <2>1. ASSUME NEW u \in Units(t, S) PROVE u \in A \cup B
    <3>1. u \in Route \X (1..MaxTokens) /\ u[1] \in S /\ u[2] <= t[u[1]]
      BY <2>1 DEF Units
    <3>2. PICK q \in Route, n \in 1..MaxTokens : u = <<q, n>>
      BY <3>1
    <3>3. CASE q = r
      BY <3>1, <3>2, <3>3, <1>1
    <3>4. CASE q # r
      BY <3>1, <3>2, <3>4 DEF Units
    <3> QED BY <3>3, <3>4
  <2>2. ASSUME NEW u \in A PROVE u \in Units(t, S)
    BY <2>2 DEF Units
  <2>3. ASSUME NEW u \in B PROVE u \in Units(t, S)
    <3>1. PICK n \in 1..t[r] : u = <<r, n>>
      BY <2>3
    <3>2. n \in 1..MaxTokens /\ n <= t[r]
      BY <1>1
    <3> QED BY <3>1, <3>2 DEF Units
  <2> QED BY <2>1, <2>2, <2>3
<1>3. A \cap B = {}
  BY DEF Units
<1>4. IsFiniteSet(1..t[r]) /\ Cardinality(1..t[r]) = t[r]
  <2>1. \A n \in Int : IsFiniteSet(1..n) /\ Cardinality(1..n) = IF 1 > n THEN 0 ELSE n - 1 + 1
    BY FS_Interval
  <2>2. \A n \in Nat : IsFiniteSet(1..n) /\ Cardinality(1..n) = n
    BY <2>1
  <2> QED BY <1>1, <2>2
<1>5. IsFiniteSet({r}) /\ Cardinality({r}) = 1
  BY FS_Singleton
<1>6. IsFiniteSet(B) /\ Cardinality(B) = Cardinality({r}) * Cardinality(1..t[r])
  BY <1>4, <1>5, FS_Product
<1>7. Cardinality(B) = t[r]
  BY <1>1, <1>4, <1>5, <1>6
<1>8. IsFiniteSet(A) /\ Cardinality(A) \in Nat
  BY UnitsFinite, FS_CardinalityType
<1>9. Cardinality(A \cup B) = Cardinality(A) + Cardinality(B) - Cardinality(A \cap B)
  BY <1>6, <1>8, FS_Union
<1>10. Cardinality(A \cap B) = 0
  BY <1>3, FS_EmptySet
<1>11. Cardinality(A \cup B) = Cardinality(A) + t[r]
  BY <1>1, <1>7, <1>8, <1>9, <1>10
<1> QED BY <1>2, <1>11 DEF Total

\* A sum depends on what it sums.
LEMMA TotalSame ==
  ASSUME NEW t, NEW u, NEW S, S \subseteq Route, \A q \in S : u[q] = t[q]
  PROVE  Total(u, S) = Total(t, S)
<1>1. \A p \in Route \X (1..MaxTokens) :
        (p[1] \in S /\ p[2] <= u[p[1]]) <=> (p[1] \in S /\ p[2] <= t[p[1]])
  OBVIOUS
<1>2. Units(u, S) = Units(t, S)
  BY <1>1 DEF Units
<1> QED BY <1>2 DEF Total

\* The sum over nothing is 0.
LEMMA TotalNone == \A t : Total(t, {}) = 0
<1>1. \A t : Units(t, {}) = {}
  BY DEF Units
<1> QED BY <1>1, FS_EmptySet DEF Total

\* A call of n tokens joins the others.
LEMMA TotalJoins ==
  ASSUME NEW t \in Tokens, NEW S, S \subseteq Route, NEW r \in Route, r \notin S,
         NEW n \in 0..MaxTokens
  PROVE  Total([t EXCEPT ![r] = n], S \cup {r}) = Total(t, S) + n
<1> DEFINE u == [t EXCEPT ![r] = n]
<1>1. u \in Tokens /\ u[r] = n /\ \A q \in S : u[q] = t[q]
  BY DEF Tokens
<1>2. (S \cup {r}) \ {r} = S
  OBVIOUS
<1>3. S \cup {r} \subseteq Route /\ r \in S \cup {r}
  OBVIOUS
<1> HIDE DEF u
<1>4. Total(u, S \cup {r}) = Total(u, (S \cup {r}) \ {r}) + u[r]
  BY <1>1, <1>3, TotalWithout
<1>5. Total(u, S) = Total(t, S)
  BY <1>1, TotalSame
<1>6. Total(u, S \cup {r}) = Total(t, S) + n
  BY <1>1, <1>2, <1>4, <1>5
<1> QED BY <1>6 DEF u

\* A call leaves the others.
LEMMA TotalLeaves ==
  ASSUME NEW t \in Tokens, NEW S, S \subseteq Route, NEW r \in Route
  PROVE  /\ Total([t EXCEPT ![r] = 0], S \ {r}) = Total(t, S) - (IF r \in S THEN t[r] ELSE 0)
         /\ (IF r \in S THEN t[r] ELSE 0) <= Total(t, S)
<1> DEFINE u == [t EXCEPT ![r] = 0]
<1>1. t[r] \in Nat
  BY LimitAssumption DEF Tokens
<1>2. \A q \in S \ {r} : u[q] = t[q]
  BY DEF Tokens
<1>3. Total(u, S \ {r}) = Total(t, S \ {r})
  <2> HIDE DEF u
  <2> QED BY <1>2, TotalSame
<1>4. Total(t, S \ {r}) \in Nat /\ Total(t, S) \in Nat
  BY UnitsFinite
<1>5. CASE r \in S
  <2>1. Total(t, S) = Total(t, S \ {r}) + t[r]
    BY <1>5, TotalWithout
  <2> QED BY <1>1, <1>3, <1>4, <1>5, <2>1
<1>6. CASE r \notin S
  <2>1. S \ {r} = S
    BY <1>6
  <2>2. Total(u, S \ {r}) = Total(t, S)
    BY <1>3, <2>1
  <2> HIDE DEF u
  <2>3. Total(u, S \ {r}) = Total(t, S) - 0 /\ 0 <= Total(t, S)
    BY <1>4, <2>2
  <2> QED BY <1>6, <2>3 DEF u
<1> QED BY <1>5, <1>6

-----------------------------------------------------------------------------
(* The invariant holds initially *)

LEMMA CallsAreRoutes ==
  /\ CallsToday \subseteq Route /\ CallsThisMonth \subseteq Route
  /\ \A b \in Batch : CallsOf(b) \subseteq Route
BY DEF CallsToday, CallsThisMonth, CallsOf, Calls

LEMMA PaidInit == Init => PInv
<1> SUFFICES ASSUME Init PROVE PInv
  OBVIOUS
<1> USE DEF Init
<1>1. TypeOK
  BY DayAssumption, LimitAssumption DEF TypeOK, Day
<1>2. CallsInOrder
  BY DEF CallsInOrder
<1>3. Calls = {}
  BY DEF Calls
<1>4. CallsToday = {} /\ CallsThisMonth = {} /\ \A b \in Batch : CallsOf(b) = {}
  BY <1>3 DEF CallsToday, CallsThisMonth, CallsOf
<1>5. /\ Total(tokens, CallsToday) = 0
      /\ Total(tokens, CallsThisMonth) = 0
      /\ \A b \in Batch : Total(tokens, CallsOf(b)) = 0
  BY <1>4, TotalNone
<1>6. BatchHolds
  BY <1>5, LimitAssumption DEF BatchHolds
<1>7. CountedDay = 0 /\ CountedMonth = 0
  BY DEF CountedDay, CountedMonth, SameMonth
<1>8. RowCovers /\ DayHolds /\ MonthHolds /\ DayReturns
  BY <1>5, <1>7, LimitAssumption DEF RowCovers, DayHolds, MonthHolds, DayReturns
<1> QED BY <1>1, <1>2, <1>6, <1>8 DEF PInv

-----------------------------------------------------------------------------
(* A call reserves *)

\* The call joins those of its batch, of today and of this month.
LEMMA ReserveJoins ==
  ASSUME PInv, NEW r \in Route, NEW n \in 1..MaxTokens, Reserve(r, n)
  PROVE  /\ CallsToday' = CallsToday \cup {r} /\ r \notin CallsToday
         /\ CallsThisMonth' = CallsThisMonth \cup {r} /\ r \notin CallsThisMonth
         /\ \A b \in Batch : CallsOf(b)' =
              IF b = BatchOf[r] THEN CallsOf(b) \cup {r} ELSE CallsOf(b)
         /\ r \notin Calls
         /\ CountedDay' = CountedDay + n
         /\ CountedMonth' = CountedMonth + n
<1> USE DEF Reserve
<1>1. today \in Day /\ today' = today /\ today # 0
  BY DayAssumption DEF PInv, TypeOK, Day
<1>2. heldOn \in [Route -> {0} \cup Day] /\ heldOn[r] = 0
  BY DEF PInv, TypeOK
<1>3. \A q \in Route : heldOn'[q] = IF q = r THEN today ELSE heldOn[q]
  BY <1>2
<1>4. Calls' = Calls \cup {r} /\ r \notin Calls
  BY <1>1, <1>2, <1>3 DEF Calls
<1>5. CallsToday' = CallsToday \cup {r} /\ r \notin CallsToday
  BY <1>1, <1>2, <1>3, <1>4 DEF CallsToday
<1>6. \A d : SameMonth(d)' <=> SameMonth(d)
  BY <1>1 DEF SameMonth
<1>7. SameMonth(today)
  BY <1>1 DEF SameMonth
<1>8. CallsThisMonth' = {q \in Calls' : SameMonth(heldOn'[q])}
  BY <1>1 DEF CallsThisMonth, SameMonth
<1>9. CallsThisMonth' = CallsThisMonth \cup {r} /\ r \notin CallsThisMonth
  BY <1>3, <1>4, <1>7, <1>8 DEF CallsThisMonth, Calls
<1>10. ASSUME NEW b \in Batch
       PROVE CallsOf(b)' = IF b = BatchOf[r] THEN CallsOf(b) \cup {r} ELSE CallsOf(b)
  BY <1>4 DEF CallsOf, Calls
<1>11. CountedDay' = CountedDay + n
  BY <1>1 DEF CountedDay
<1>12. CountedMonth' = CountedMonth + n
  BY <1>1, <1>7 DEF CountedMonth, SameMonth
<1> QED BY <1>4, <1>5, <1>9, <1>10, <1>11, <1>12

\* The sums grow by what the call reserves.
LEMMA ReserveTotals ==
  ASSUME PInv, NEW r \in Route, NEW n \in 1..MaxTokens, Reserve(r, n)
  PROVE  /\ Total(tokens, CallsToday)' = Total(tokens, CallsToday) + n
         /\ Total(tokens, CallsThisMonth)' = Total(tokens, CallsThisMonth) + n
         /\ \A b \in Batch : Total(tokens, CallsOf(b))' =
              Total(tokens, CallsOf(b)) + (IF b = BatchOf[r] THEN n ELSE 0)
<1>1. tokens \in Tokens /\ tokens' = [tokens EXCEPT ![r] = n]
  BY DEF PInv, TypeOK, Reserve, Tokens
<1>2. n \in 0..MaxTokens
  BY LimitAssumption
<1>3. \A S \in SUBSET Route : r \notin S => Total(tokens', S \cup {r}) = Total(tokens, S) + n
  BY <1>1, <1>2, TotalJoins
<1>4. \A S \in SUBSET Route : r \notin S => Total(tokens', S) = Total(tokens, S)
  <2> TAKE S \in SUBSET Route
  <2> HAVE r \notin S
  <2>1. \A q \in S : tokens'[q] = tokens[q]
    BY <1>1 DEF Tokens
  <2> QED BY <2>1, TotalSame
<1>5. Total(tokens', CallsToday') = Total(tokens, CallsToday) + n
  BY <1>3, ReserveJoins, CallsAreRoutes
<1>6. Total(tokens', CallsThisMonth') = Total(tokens, CallsThisMonth) + n
  BY <1>3, ReserveJoins, CallsAreRoutes
<1>7. ASSUME NEW b \in Batch
      PROVE Total(tokens', CallsOf(b)') = Total(tokens, CallsOf(b)) + (IF b = BatchOf[r] THEN n ELSE 0)
  <2>1. CallsOf(b) \in SUBSET Route /\ r \notin CallsOf(b)
    BY ReserveJoins, CallsAreRoutes DEF CallsOf
  <2>2. Total(tokens, CallsOf(b)) \in Nat
    BY UnitsFinite
  <2>3. CASE b = BatchOf[r]
    BY <1>3, <2>1, <2>3, ReserveJoins
  <2>4. CASE b # BatchOf[r]
    BY <1>4, <2>1, <2>2, <2>4, ReserveJoins
  <2> QED BY <2>3, <2>4
<1> QED BY <1>5, <1>6, <1>7

LEMMA ReserveKeeps ==
  ASSUME PInv, NEW r \in Route, NEW n \in 1..MaxTokens, Reserve(r, n)
  PROVE  PInv'
<1> DEFINE D == Total(tokens, CallsToday)
           M == Total(tokens, CallsThisMonth)
           B(b) == Total(tokens, CallsOf(b))
<1>1. D \in Nat /\ M \in Nat /\ \A b \in Batch : B(b) \in Nat
  BY UnitsFinite
<1>2. D' = D + n /\ M' = M + n /\ \A b \in Batch : B(b)' = B(b) + (IF b = BatchOf[r] THEN n ELSE 0)
  BY ReserveTotals
<1>3. CountedDay' = CountedDay + n /\ CountedMonth' = CountedMonth + n
  BY ReserveJoins
<1>4. CountedDay \in Nat /\ CountedMonth \in Nat
  BY DEF PInv, TypeOK, CountedDay, CountedMonth
<1>5. n \in Nat /\ n \in 0..MaxTokens
  BY LimitAssumption
<1>6. BatchOf[r] \in Batch
  BY RouteAssumption
<1>7. TypeOK'
  BY <1>4, <1>5, <1>6 DEF PInv, TypeOK, Reserve, spentVars, excessVars, Day
<1>8. CallsInOrder'
  <2>1. heldOn \in [Route -> {0} \cup Day] /\ rowDay \in {0} \cup Day /\ today \in Day
    BY DEF PInv, TypeOK
  <2>2. {0} \cup Day \subseteq Int
    BY DayAssumption DEF Day
  <2>3. \A q \in Route : heldOn[q] <= rowDay /\ rowDay <= today
    BY DEF PInv, CallsInOrder
  <2>4. heldOn' = [heldOn EXCEPT ![r] = today] /\ rowDay' = today /\ today' = today
    BY DEF Reserve
  <2>5. ASSUME NEW q \in Route PROVE heldOn'[q] <= today
    <3>1. heldOn[q] \in Int /\ rowDay \in Int /\ today \in Int
      BY <2>1, <2>2
    <3>2. heldOn[q] <= rowDay /\ rowDay <= today
      BY <2>3
    <3>3. heldOn'[q] = IF q = r THEN today ELSE heldOn[q]
      BY <2>1, <2>4
    <3> QED BY <3>1, <3>2, <3>3
  <2>6. today <= today
    BY <2>1, <2>2
  <2> QED BY <2>4, <2>5, <2>6 DEF CallsInOrder
<1>9. ASSUME NEW b \in Batch PROVE used'[b] <= BatchLimit[b] /\ B(b)' <= used'[b]
  <2>1. used[b] \in Nat /\ used[b] <= BatchLimit[b] /\ B(b) <= used[b]
    BY DEF PInv, TypeOK, BatchHolds
  <2>2. used'[b] = used[b] + (IF b = BatchOf[r] THEN n ELSE 0)
    BY <2>1, <1>6 DEF PInv, TypeOK, Reserve
  <2>3. b = BatchOf[r] => used[b] + n <= BatchLimit[b]
    BY DEF Reserve
  <2> HIDE DEF B
  <2> QED BY <1>1, <1>2, <1>5, <2>1, <2>2, <2>3
<1>10. BatchHolds'
  BY <1>9 DEF BatchHolds
<1>11. RowCovers'
  <2>1. D <= CountedDay /\ M <= CountedMonth
    BY DEF PInv, RowCovers
  <2>2. D' <= CountedDay' /\ M' <= CountedMonth'
    <3> HIDE DEF D, M
    <3> QED BY <1>1, <1>2, <1>3, <1>4, <1>5, <2>1
  <2> QED BY <2>2 DEF RowCovers
<1>12. DayHolds'
  <2>1. D <= CountedDay /\ daySpent + CountedDay + n <= DailyLimit
    BY DEF PInv, RowCovers, Reserve
  <2>2. daySpent' = daySpent /\ dayExcess' = dayExcess /\ daySpent \in Nat /\ dayExcess \in Nat
    BY DEF PInv, TypeOK, Reserve, spentVars, excessVars
  <2>3. daySpent' + D' <= DailyLimit + dayExcess'
    <3> HIDE DEF D
    <3> QED BY <1>1, <1>2, <1>4, <1>5, <2>1, <2>2, LimitAssumption
  <2> QED BY <2>3 DEF DayHolds
<1>13. MonthHolds'
  <2>1. M <= CountedMonth /\ monthSpent + CountedMonth + n <= MonthlyLimit
    BY DEF PInv, RowCovers, Reserve
  <2>2. monthSpent' = monthSpent /\ monthExcess' = monthExcess /\ monthSpent \in Nat /\ monthExcess \in Nat
    BY DEF PInv, TypeOK, Reserve, spentVars, excessVars
  <2>3. monthSpent' + M' <= MonthlyLimit + monthExcess'
    <3> HIDE DEF M
    <3> QED BY <1>1, <1>2, <1>4, <1>5, <2>1, <2>2, LimitAssumption
  <2> QED BY <2>3 DEF MonthHolds
<1>14. DayReturns'
  <2>1. crashes = 0 => CountedDay = D
    BY DEF PInv, DayReturns
  <2>2. crashes' = crashes
    BY DEF Reserve
  <2>3. crashes' = 0 => CountedDay' = D'
    <3> HIDE DEF D
    <3> QED BY <1>1, <1>2, <1>3, <1>4, <1>5, <2>1, <2>2
  <2> QED BY <2>3 DEF DayReturns
<1> QED BY <1>7, <1>8, <1>10, <1>11, <1>12, <1>13, <1>14 DEF PInv

-----------------------------------------------------------------------------
(* A call ends *)

\* What Settle and Fail have in common.
Ends(r) ==
  /\ heldOn[r] # 0
  /\ Release(r)
  /\ UNCHANGED <<today, crashes>>

LEMMA SettleEnds == \A r \in Route, billed \in 0..MaxBilled : Settle(r, billed) => Ends(r)
BY DEF Settle, Ends

LEMMA FailEnds == \A r \in Route : Fail(r) => Ends(r)
BY DEF Fail, Ends

\* The call leaves those of its batch, of its day and of its month.
LEMMA EndLeaves ==
  ASSUME PInv, NEW r \in Route, Ends(r)
  PROVE  /\ CallsToday' = CallsToday \ {r}
         /\ CallsThisMonth' = CallsThisMonth \ {r}
         /\ \A b \in Batch : CallsOf(b)' = CallsOf(b) \ {r}
         /\ r \in CallsToday <=> heldOn[r] = today
         /\ r \in CallsThisMonth <=> SameMonth(heldOn[r])
         /\ \A b \in Batch : r \in CallsOf(b) <=> b = BatchOf[r]
<1> USE DEF Ends, Release
<1>1. heldOn \in [Route -> {0} \cup Day]
  BY DEF PInv, TypeOK
<1>2. \A q \in Route : heldOn'[q] = IF q = r THEN 0 ELSE heldOn[q]
  BY <1>1
<1>3. Calls' = Calls \ {r} /\ r \in Calls
  BY <1>2 DEF Calls
<1>4. CallsToday' = CallsToday \ {r}
  BY <1>2, <1>3 DEF CallsToday, Calls
<1>5. CallsThisMonth' = {q \in Calls' : SameMonth(heldOn'[q])}
  BY DEF CallsThisMonth, SameMonth
<1>6. CallsThisMonth' = CallsThisMonth \ {r}
  BY <1>2, <1>3, <1>5 DEF CallsThisMonth, Calls
<1>7. \A b \in Batch : CallsOf(b)' = CallsOf(b) \ {r}
  BY <1>3 DEF CallsOf
<1>8. /\ r \in CallsToday <=> heldOn[r] = today
      /\ r \in CallsThisMonth <=> SameMonth(heldOn[r])
      /\ \A b \in Batch : r \in CallsOf(b) <=> b = BatchOf[r]
  BY <1>3 DEF CallsToday, CallsThisMonth, CallsOf
<1> QED BY <1>4, <1>6, <1>7, <1>8

\* what the call had reserved of today's limit, this month's and a batch's
OfToday(r) == IF heldOn[r] = today THEN tokens[r] ELSE 0
OfMonth(r) == IF SameMonth(heldOn[r]) THEN tokens[r] ELSE 0
OfBatch(r, b) == IF b = BatchOf[r] THEN tokens[r] ELSE 0

LEMMA EndTotals ==
  ASSUME PInv, NEW r \in Route, Ends(r)
  PROVE  /\ Total(tokens, CallsToday)' = Total(tokens, CallsToday) - OfToday(r)
         /\ Total(tokens, CallsThisMonth)' = Total(tokens, CallsThisMonth) - OfMonth(r)
         /\ OfToday(r) <= Total(tokens, CallsToday)
         /\ OfMonth(r) <= Total(tokens, CallsThisMonth)
         /\ \A b \in Batch :
              /\ Total(tokens, CallsOf(b))' = Total(tokens, CallsOf(b)) - OfBatch(r, b)
              /\ OfBatch(r, b) <= Total(tokens, CallsOf(b))
<1>1. tokens \in Tokens /\ tokens' = [tokens EXCEPT ![r] = 0]
  BY DEF PInv, TypeOK, Ends, Release, Tokens
<1>2. \A S \in SUBSET Route :
        /\ Total(tokens', S \ {r}) = Total(tokens, S) - (IF r \in S THEN tokens[r] ELSE 0)
        /\ (IF r \in S THEN tokens[r] ELSE 0) <= Total(tokens, S)
  BY <1>1, TotalLeaves
<1>3. OfToday(r) = (IF r \in CallsToday THEN tokens[r] ELSE 0)
  BY EndLeaves DEF OfToday
<1>4. OfMonth(r) = (IF r \in CallsThisMonth THEN tokens[r] ELSE 0)
  BY EndLeaves DEF OfMonth
<1>5. \A b \in Batch : OfBatch(r, b) = (IF r \in CallsOf(b) THEN tokens[r] ELSE 0)
  BY EndLeaves DEF OfBatch
<1>6. /\ Total(tokens', CallsToday') = Total(tokens, CallsToday) - OfToday(r)
      /\ OfToday(r) <= Total(tokens, CallsToday)
  BY <1>2, <1>3, EndLeaves, CallsAreRoutes
<1>7. /\ Total(tokens', CallsThisMonth') = Total(tokens, CallsThisMonth) - OfMonth(r)
      /\ OfMonth(r) <= Total(tokens, CallsThisMonth)
  BY <1>2, <1>4, EndLeaves, CallsAreRoutes
<1>8. ASSUME NEW b \in Batch
      PROVE /\ Total(tokens', CallsOf(b)') = Total(tokens, CallsOf(b)) - OfBatch(r, b)
            /\ OfBatch(r, b) <= Total(tokens, CallsOf(b))
  BY <1>2, <1>5, EndLeaves, CallsAreRoutes
<1> QED BY <1>6, <1>7, <1>8

\* The row gives back the day's part exactly, and of the month's no more than it.
LEMMA EndCounts ==
  ASSUME PInv, NEW r \in Route, Ends(r)
  PROVE  /\ CountedDay' = CountedDay - OfToday(r)
         /\ CountedMonth' >= CountedMonth - OfMonth(r)
         /\ CountedMonth' \in Nat /\ OfToday(r) \in Nat /\ OfMonth(r) \in Nat
<1>1. /\ heldOn[r] \in Int /\ heldOn[r] # 0 /\ rowDay \in Int /\ today \in Int
      /\ heldOn[r] <= rowDay /\ rowDay <= today
  <2>1. {0} \cup Day \subseteq Int
    BY DayAssumption DEF Day
  <2>2. heldOn[r] \in {0} \cup Day /\ rowDay \in {0} \cup Day /\ today \in Day
    BY DEF PInv, TypeOK
  <2> QED BY <2>1, <2>2 DEF PInv, CallsInOrder, Ends
<1>2. tokens[r] \in Nat /\ dayReserved \in Nat /\ monthReserved \in Nat
  BY LimitAssumption DEF PInv, TypeOK
<1>3. CountedDay \in Nat /\ CountedMonth \in Nat
  BY <1>2 DEF CountedDay, CountedMonth
<1>4. /\ Total(tokens, CallsToday) \in Nat /\ Total(tokens, CallsThisMonth) \in Nat
      /\ Total(tokens, CallsToday) <= CountedDay
      /\ Total(tokens, CallsThisMonth) <= CountedMonth
  BY UnitsFinite DEF PInv, RowCovers
<1>5. OfToday(r) \in Nat /\ OfMonth(r) \in Nat
  BY <1>2 DEF OfToday, OfMonth
<1>6. OfToday(r) <= CountedDay /\ OfMonth(r) <= CountedMonth
  BY <1>3, <1>4, <1>5, EndTotals
<1>7. today' = today /\ rowDay' = rowDay
  BY DEF Ends, Release
<1>8. CountedDay' = CountedDay - OfToday(r)
  <2>1. CASE rowDay = heldOn[r]
    <3>1. dayReserved' = Minus(dayReserved, tokens[r])
      BY <2>1 DEF Ends, Release
    <3>2. CASE rowDay = today
      <4>1. tokens[r] <= dayReserved
        BY <1>6, <2>1, <3>2 DEF OfToday, CountedDay
      <4> QED BY <1>2, <1>7, <2>1, <3>1, <3>2, <4>1 DEF CountedDay, OfToday, Minus
    <3>3. CASE rowDay # today
      BY <1>7, <2>1, <3>3 DEF CountedDay, OfToday
    <3> QED BY <3>2, <3>3
  <2>2. CASE rowDay # heldOn[r]
    <3>1. dayReserved' = dayReserved
      BY <2>2 DEF Ends, Release
    <3>2. heldOn[r] # today
      BY <1>1, <2>2
    <3> QED BY <1>3, <1>7, <3>1, <3>2 DEF CountedDay, OfToday
  <2> QED BY <2>1, <2>2
<1>9. CountedMonth' >= CountedMonth - OfMonth(r) /\ CountedMonth' \in Nat
  <2>1. SameMonth(rowDay)' <=> SameMonth(rowDay)
    BY <1>7 DEF SameMonth
  <2>2. CASE rowDay = heldOn[r]
    <3>1. monthReserved' = Minus(monthReserved, tokens[r])
      BY <2>2 DEF Ends, Release
    <3>2. CASE SameMonth(rowDay)
      <4>1. CountedMonth = monthReserved /\ CountedMonth' = monthReserved' /\ OfMonth(r) = tokens[r]
        BY <2>1, <2>2, <3>2 DEF OfMonth, CountedMonth
      <4>2. tokens[r] <= monthReserved
        BY <1>6, <4>1
      <4> QED BY <1>2, <3>1, <4>1, <4>2 DEF Minus
    <3>3. CASE ~SameMonth(rowDay)
      BY <2>1, <2>2, <3>3 DEF OfMonth, CountedMonth
    <3> QED BY <3>2, <3>3
  <2>3. CASE rowDay # heldOn[r]
    <3>1. monthReserved' = monthReserved
      BY <2>3 DEF Ends, Release
    <3>2. CountedMonth' = CountedMonth
      BY <2>1, <3>1 DEF CountedMonth
    <3> QED BY <1>3, <1>5, <3>2
  <2> QED BY <2>2, <2>3
<1> QED BY <1>5, <1>8, <1>9

\* The call ends with a billed tokens accounted.
EndsWith(r, a) ==
  /\ Ends(r)
  /\ used' = [used EXCEPT ![BatchOf[r]] = @ - tokens[r] + a]
  /\ used[BatchOf[r]] - tokens[r] + a <= BatchLimit[BatchOf[r]]
  /\ daySpent' = daySpent + a
  /\ monthSpent' = monthSpent + a
  /\ dayExcess' = dayExcess + Excess(r, a, heldOn[r] = today)
  /\ monthExcess' = monthExcess + Excess(r, a, SameMonth(heldOn[r]))

LEMMA CallsType ==
  ASSUME PInv, NEW r \in Route
  PROVE  /\ BatchOf[r] \in Batch /\ tokens[r] \in 0..MaxTokens /\ tokens[r] \in Nat
         /\ used[BatchOf[r]] \in Nat /\ BatchLimit[BatchOf[r]] \in Nat
         /\ used[BatchOf[r]] <= BatchLimit[BatchOf[r]]
         /\ dayReserved \in Nat /\ monthReserved \in Nat
         /\ daySpent \in Nat /\ monthSpent \in Nat
         /\ dayExcess \in Nat /\ monthExcess \in Nat
<1>1. BatchOf[r] \in Batch /\ tokens[r] \in 0..MaxTokens
  BY RouteAssumption DEF PInv, TypeOK
<1>2. tokens[r] \in Nat
  BY <1>1, LimitAssumption
<1> QED BY <1>1, <1>2, LimitAssumption DEF PInv, TypeOK, BatchHolds

LEMMA SettleEndsWith ==
  ASSUME PInv, NEW r \in Route, NEW billed \in 0..MaxBilled, Settle(r, billed)
  PROVE  \E a \in Nat : EndsWith(r, a)
<1> DEFINE a == IF Fits(r, billed) THEN billed ELSE 0
<1>1. billed \in Nat
  BY LimitAssumption
<1>2. a \in Nat
  BY <1>1
<1>3. used[BatchOf[r]] - tokens[r] + a <= BatchLimit[BatchOf[r]]
  BY CallsType DEF Fits
<1>4. EndsWith(r, a)
  BY <1>3, SettleEnds DEF Settle, EndsWith
<1> QED BY <1>2, <1>4

LEMMA FailEndsWith ==
  ASSUME PInv, NEW r \in Route, Fail(r)
  PROVE  EndsWith(r, 0)
<1>1. used[BatchOf[r]] - tokens[r] + 0 = used[BatchOf[r]] - tokens[r]
  BY CallsType
<1>2. used' = [used EXCEPT ![BatchOf[r]] = @ - tokens[r] + 0]
  BY <1>1 DEF Fail
<1>3. used[BatchOf[r]] - tokens[r] + 0 <= BatchLimit[BatchOf[r]]
  BY CallsType
<1>4. Excess(r, 0, heldOn[r] = today) = 0 /\ Excess(r, 0, SameMonth(heldOn[r])) = 0
  BY CallsType DEF Excess
<1>5. /\ daySpent' = daySpent + 0 /\ monthSpent' = monthSpent + 0
      /\ dayExcess' = dayExcess + 0 /\ monthExcess' = monthExcess + 0
  BY CallsType DEF Fail, spentVars, excessVars
<1> QED BY <1>2, <1>3, <1>4, <1>5, FailEnds DEF EndsWith

\* What was not reserved for the limit is excess.
LEMMA ExcessCovers ==
  ASSUME PInv, NEW r \in Route, NEW a \in Nat
  PROVE  /\ Excess(r, a, heldOn[r] = today) \in Nat
         /\ a <= OfToday(r) + Excess(r, a, heldOn[r] = today)
         /\ Excess(r, a, SameMonth(heldOn[r])) \in Nat
         /\ a <= OfMonth(r) + Excess(r, a, SameMonth(heldOn[r]))
<1>1. tokens[r] \in Nat
  BY CallsType
<1> QED BY <1>1 DEF Excess, OfToday, OfMonth

LEMMA EndKeeps ==
  ASSUME PInv, NEW r \in Route, NEW a \in Nat, EndsWith(r, a)
  PROVE  PInv'
<1> DEFINE D == Total(tokens, CallsToday)
           M == Total(tokens, CallsThisMonth)
           B(b) == Total(tokens, CallsOf(b))
           xd == Excess(r, a, heldOn[r] = today)
           xm == Excess(r, a, SameMonth(heldOn[r]))
<1>1. Ends(r)
  BY DEF EndsWith
<1>2. D \in Nat /\ M \in Nat /\ \A b \in Batch : B(b) \in Nat
  BY UnitsFinite
<1>3. /\ D' = D - OfToday(r) /\ OfToday(r) <= D
      /\ M' = M - OfMonth(r) /\ OfMonth(r) <= M
      /\ \A b \in Batch : B(b)' = B(b) - OfBatch(r, b) /\ OfBatch(r, b) <= B(b)
  BY <1>1, EndTotals
<1>4. /\ CountedDay' = CountedDay - OfToday(r)
      /\ CountedMonth' >= CountedMonth - OfMonth(r)
      /\ CountedMonth' \in Nat /\ OfToday(r) \in Nat /\ OfMonth(r) \in Nat
  BY <1>1, EndCounts
<1>5. CountedDay \in Nat /\ CountedMonth \in Nat
  BY DEF PInv, TypeOK, CountedDay, CountedMonth
<1>6. xd \in Nat /\ a <= OfToday(r) + xd /\ xm \in Nat /\ a <= OfMonth(r) + xm
  BY ExcessCovers
<1>7. ASSUME NEW b \in Batch
      PROVE used'[b] \in Nat /\ used'[b] <= BatchLimit[b] /\ B(b)' <= used'[b]
  <2>1. used[b] \in Nat /\ used[b] <= BatchLimit[b] /\ B(b) <= used[b] /\ BatchLimit[b] \in Nat
    BY LimitAssumption DEF PInv, TypeOK, BatchHolds
  <2>2. OfBatch(r, b) \in Nat
    BY CallsType DEF OfBatch
  <2>3. used'[b] = IF b = BatchOf[r] THEN used[b] - tokens[r] + a ELSE used[b]
    BY DEF PInv, TypeOK, EndsWith
  <2>4. CASE b = BatchOf[r]
    <3>1. OfBatch(r, b) = tokens[r] /\ used'[b] = used[b] - tokens[r] + a /\ used'[b] <= BatchLimit[b]
      BY <2>3, <2>4 DEF OfBatch, EndsWith
    <3>2. B(b)' = B(b) - OfBatch(r, b) /\ OfBatch(r, b) <= B(b) /\ B(b) \in Nat
      BY <1>2, <1>3
    <3> HIDE DEF B
    <3> QED BY <2>1, <2>2, <3>1, <3>2
  <2>5. CASE b # BatchOf[r]
    <3>1. OfBatch(r, b) = 0 /\ used'[b] = used[b]
      BY <2>3, <2>5 DEF OfBatch
    <3>2. B(b)' = B(b) - OfBatch(r, b) /\ B(b) \in Nat
      BY <1>2, <1>3
    <3> HIDE DEF B
    <3> QED BY <2>1, <3>1, <3>2
  <2> QED BY <2>4, <2>5
<1>8. TypeOK'
  <2>1. used' \in [Batch -> Nat]
    <3>1. used' = [b \in Batch |-> used'[b]]
      BY DEF PInv, TypeOK, EndsWith
    <3> QED BY <1>7, <3>1
  <2>2. tokens' \in [Route -> 0..MaxTokens] /\ heldOn' \in [Route -> {0} \cup Day]
    BY LimitAssumption DEF PInv, TypeOK, EndsWith, Ends, Release
  <2>3. dayReserved' \in Nat /\ monthReserved' \in Nat
    BY CallsType DEF EndsWith, Ends, Release, Minus
  <2>4. daySpent' \in Nat /\ monthSpent' \in Nat /\ dayExcess' \in Nat /\ monthExcess' \in Nat
    <3>1. /\ daySpent' = daySpent + a /\ monthSpent' = monthSpent + a
          /\ dayExcess' = dayExcess + xd /\ monthExcess' = monthExcess + xm
      BY DEF EndsWith
    <3> HIDE DEF xd, xm
    <3> QED BY <1>6, <3>1, CallsType
  <2>5. today' = today /\ rowDay' = rowDay /\ crashes' = crashes
    BY DEF EndsWith, Ends, Release
  <2>6. today \in Day /\ rowDay \in {0} \cup Day /\ crashes \in Nat
    BY DEF PInv, TypeOK
  <2> QED BY <2>1, <2>2, <2>3, <2>4, <2>5, <2>6 DEF TypeOK, Day
<1>9. CallsInOrder'
  <2>1. heldOn' = [heldOn EXCEPT ![r] = 0] /\ rowDay' = rowDay /\ today' = today
    BY DEF EndsWith, Ends, Release
  <2>2. \A q \in Route : heldOn'[q] = IF q = r THEN 0 ELSE heldOn[q]
    BY <2>1 DEF PInv, TypeOK
  <2>3. rowDay \in Nat
    BY DayAssumption DEF PInv, TypeOK, Day
  <2>4. rowDay <= today /\ \A q \in Route : heldOn[q] <= rowDay
    BY DEF PInv, CallsInOrder
  <2> QED BY <2>1, <2>2, <2>3, <2>4 DEF CallsInOrder
<1>10. BatchHolds'
  BY <1>7 DEF BatchHolds
<1>11. RowCovers'
  <2>1. D <= CountedDay /\ M <= CountedMonth
    BY DEF PInv, RowCovers
  <2>2. D' <= CountedDay' /\ M' <= CountedMonth'
    <3> HIDE DEF D, M
    <3> QED BY <1>2, <1>3, <1>4, <1>5, <2>1
  <2> QED BY <2>2 DEF RowCovers
<1>12. DayHolds'
  <2>1. daySpent + D <= DailyLimit + dayExcess
    BY DEF PInv, DayHolds
  <2>2. daySpent' = daySpent + a /\ dayExcess' = dayExcess + xd
    BY DEF EndsWith
  <2>3. daySpent' + D' <= DailyLimit + dayExcess'
    <3> HIDE DEF D, xd
    <3> QED BY <1>2, <1>3, <1>4, <1>6, <2>1, <2>2, CallsType, LimitAssumption
  <2> QED BY <2>3 DEF DayHolds
<1>13. MonthHolds'
  <2>1. monthSpent + M <= MonthlyLimit + monthExcess
    BY DEF PInv, MonthHolds
  <2>2. monthSpent' = monthSpent + a /\ monthExcess' = monthExcess + xm
    BY DEF EndsWith
  <2>3. monthSpent' + M' <= MonthlyLimit + monthExcess'
    <3> HIDE DEF M, xm
    <3> QED BY <1>2, <1>3, <1>4, <1>6, <2>1, <2>2, CallsType, LimitAssumption
  <2> QED BY <2>3 DEF MonthHolds
<1>14. DayReturns'
  <2>1. crashes = 0 => CountedDay = D
    BY DEF PInv, DayReturns
  <2>2. crashes' = crashes
    BY DEF EndsWith, Ends
  <2>3. crashes' = 0 => CountedDay' = D'
    <3> HIDE DEF D
    <3> QED BY <1>3, <1>4, <2>1, <2>2
  <2> QED BY <2>3 DEF DayReturns
<1> QED BY <1>8, <1>9, <1>10, <1>11, <1>12, <1>13, <1>14 DEF PInv

-----------------------------------------------------------------------------
(* Around the calls *)

\* what the parts of PInv say, with the sums as numbers
LEMMA PaidFacts ==
  ASSUME PInv
  PROVE  /\ today \in Day /\ today \in Nat /\ today # 0
         /\ rowDay \in {0} \cup Day /\ rowDay \in Nat /\ rowDay <= today
         /\ \A q \in Route : heldOn[q] \in Nat /\ heldOn[q] <= rowDay /\ heldOn[q] \in {0} \cup Day
         /\ dayReserved \in Nat /\ monthReserved \in Nat
         /\ daySpent \in Nat /\ monthSpent \in Nat
         /\ dayExcess \in Nat /\ monthExcess \in Nat
<1>1. Day \subseteq Nat \ {0}
  BY DayAssumption DEF Day
<1>2. today \in Day /\ rowDay \in {0} \cup Day /\ rowDay <= today
  BY DEF PInv, TypeOK, CallsInOrder
<1>3. ASSUME NEW q \in Route PROVE heldOn[q] \in {0} \cup Day /\ heldOn[q] <= rowDay
  BY DEF PInv, TypeOK, CallsInOrder
<1>4. \A d \in {0} \cup Day : d \in Nat /\ (d \in Day => d # 0)
  BY <1>1
<1>5. /\ dayReserved \in Nat /\ monthReserved \in Nat
      /\ daySpent \in Nat /\ monthSpent \in Nat
      /\ dayExcess \in Nat /\ monthExcess \in Nat
  BY DEF PInv, TypeOK
<1> QED BY <1>2, <1>3, <1>4, <1>5

LEMMA NewBatchKeeps ==
  ASSUME PInv, NEW c \in Batch, NewBatch(c)
  PROVE  PInv'
<1> USE DEF NewBatch, rowVars, spentVars, excessVars
<1>1. TypeOK'
  BY DEF PInv, TypeOK, Day
<1>2. CallsInOrder'
  BY DEF PInv, CallsInOrder
<1>3. /\ CallsToday' = CallsToday /\ CallsThisMonth' = CallsThisMonth
      /\ \A b \in Batch : CallsOf(b)' = CallsOf(b)
      /\ tokens' = tokens
  BY DEF CallsToday, CallsThisMonth, CallsOf, Calls, SameMonth
<1>4. CountedDay' = CountedDay /\ CountedMonth' = CountedMonth
  BY DEF CountedDay, CountedMonth, SameMonth
<1>5. CallsOf(c) = {}
  BY DEF CallsOf, Calls
<1>6. Total(tokens, CallsOf(c)) = 0
  BY <1>5, TotalNone
<1>7. ASSUME NEW b \in Batch
      PROVE used'[b] <= BatchLimit[b] /\ Total(tokens', CallsOf(b)') <= used'[b]
  <2>1. used'[b] = IF b = c THEN 0 ELSE used[b]
    BY DEF PInv, TypeOK
  <2>2. CASE b = c
    BY <1>3, <1>6, <2>1, <2>2, LimitAssumption
  <2>3. CASE b # c
    BY <1>3, <2>1, <2>3 DEF PInv, BatchHolds
  <2> QED BY <2>2, <2>3
<1>8. BatchHolds'
  BY <1>7 DEF BatchHolds
<1>9. RowCovers' /\ DayHolds' /\ MonthHolds' /\ DayReturns'
  BY <1>3, <1>4 DEF PInv, RowCovers, DayHolds, MonthHolds, DayReturns
<1> QED BY <1>1, <1>2, <1>8, <1>9 DEF PInv

LEMMA MidnightKeeps ==
  ASSUME PInv, Midnight
  PROVE  PInv'
<1> USE DEF Midnight, rowVars, callVars
<1>1. today' = today + 1 /\ today' \in Day /\ today < today'
  BY PaidFacts, DayAssumption DEF Day
<1>2. TypeOK'
  <2>1. /\ daySpent' \in Nat /\ dayExcess' \in Nat
        /\ monthSpent' \in Nat /\ monthExcess' \in Nat
    BY PaidFacts
  <2> QED BY <1>1, <2>1 DEF PInv, TypeOK, Day
<1>3. CallsInOrder'
  BY <1>1, PaidFacts DEF CallsInOrder
<1>4. BatchHolds'
  BY DEF PInv, BatchHolds, CallsOf, Calls
<1>5. CallsToday' = {} /\ CountedDay' = 0
  <2>1. \A q \in Route : heldOn'[q] # today'
    BY <1>1, PaidFacts
  <2>2. rowDay' # today'
    BY <1>1, PaidFacts
  <2> QED BY <2>1, <2>2 DEF CallsToday, Calls, CountedDay
<1>6. Total(tokens', CallsToday') = 0
  BY <1>5, TotalNone
<1>7. DayHolds' /\ DayReturns'
  BY <1>5, <1>6, LimitAssumption DEF DayHolds, DayReturns
<1>8. CASE MonthOf[today'] = MonthOf[today]
  <2>1. CallsThisMonth' = CallsThisMonth
    BY <1>8 DEF CallsThisMonth, Calls, SameMonth
  <2>2. CountedMonth' = CountedMonth
    BY <1>8 DEF CountedMonth, SameMonth
  <2>3. RowCovers'
    BY <1>5, <1>6, <2>1, <2>2 DEF PInv, RowCovers
  <2>4. MonthHolds'
    BY <1>8, <2>1 DEF PInv, MonthHolds
  <2> QED BY <1>2, <1>3, <1>4, <1>7, <2>3, <2>4 DEF PInv
<1>9. CASE MonthOf[today'] # MonthOf[today]
  <2>1. MonthOf[today] < MonthOf[today']
    BY <1>1, <1>9, PaidFacts, DayAssumption
  <2>2. \A d \in {0} \cup Day : d <= today => ~(d # 0 /\ MonthOf[d] = MonthOf[today'])
    <3> TAKE d \in {0} \cup Day
    <3> HAVE d <= today
    <3>1. d # 0 => MonthOf[d] <= MonthOf[today] /\ MonthOf[d] \in Nat
      BY PaidFacts, DayAssumption
    <3> QED BY <1>1, <2>1, <3>1, PaidFacts, DayAssumption
  <2>3. ASSUME NEW q \in Route PROVE ~(heldOn[q] # 0 /\ MonthOf[heldOn[q]] = MonthOf[today'])
    <3>1. heldOn[q] <= today
      BY PaidFacts
    <3> QED BY <2>2, <3>1, PaidFacts
  <2>4. CallsThisMonth' = {}
    BY <2>3 DEF CallsThisMonth, Calls, SameMonth
  <2>5. CountedMonth' = 0
    BY <2>2, PaidFacts DEF CountedMonth, SameMonth
  <2>6. Total(tokens', CallsThisMonth') = 0
    BY <2>4, TotalNone
  <2>7. monthSpent' = 0 /\ monthExcess' = 0
    BY <1>9
  <2>8. RowCovers' /\ MonthHolds'
    BY <1>5, <1>6, <2>5, <2>6, <2>7, LimitAssumption DEF RowCovers, MonthHolds
  <2> QED BY <1>2, <1>3, <1>4, <1>7, <2>8 DEF PInv
<1> QED BY <1>8, <1>9

LEMMA CrashKeeps ==
  ASSUME PInv, Crash
  PROVE  PInv'
<1> DEFINE D == Total(tokens, CallsToday)
           M == Total(tokens, CallsThisMonth)
<1> USE DEF Crash, rowVars, spentVars, excessVars
<1>1. TypeOK'
  BY LimitAssumption, CrashAssumption DEF PInv, TypeOK, Day
<1>2. CallsInOrder'
  BY PaidFacts DEF CallsInOrder
<1>3. Calls' = {}
  BY DEF Calls
<1>4. CallsToday' = {} /\ CallsThisMonth' = {} /\ \A b \in Batch : CallsOf(b)' = {}
  BY <1>3 DEF CallsToday, CallsThisMonth, CallsOf
<1>5. /\ Total(tokens', CallsToday') = 0 /\ Total(tokens', CallsThisMonth') = 0
      /\ \A b \in Batch : Total(tokens', CallsOf(b)') = 0
  BY <1>4, TotalNone
<1>6. BatchHolds'
  BY <1>5, LimitAssumption DEF BatchHolds
<1>7. CountedDay' \in Nat /\ CountedMonth' \in Nat
  BY PaidFacts DEF CountedDay, CountedMonth
<1>8. RowCovers'
  BY <1>5, <1>7 DEF RowCovers
<1>9. D \in Nat /\ M \in Nat
  BY UnitsFinite
<1>10. daySpent + D <= DailyLimit + dayExcess /\ monthSpent + M <= MonthlyLimit + monthExcess
  BY DEF PInv, DayHolds, MonthHolds
<1>11. daySpent + 0 <= DailyLimit + dayExcess /\ monthSpent + 0 <= MonthlyLimit + monthExcess
  <2> HIDE DEF D, M
  <2> QED BY <1>9, <1>10, PaidFacts, LimitAssumption
<1>12. DayHolds' /\ MonthHolds'
  BY <1>5, <1>11 DEF DayHolds, MonthHolds
<1>13. crashes' # 0
  BY DEF PInv, TypeOK
<1>14. DayReturns'
  BY <1>13 DEF DayReturns
<1> QED BY <1>1, <1>2, <1>6, <1>8, <1>12, <1>14 DEF PInv

LEMMA PaidNext == PInv /\ [Next]_vars => PInv'
<1> SUFFICES ASSUME PInv, [Next]_vars PROVE PInv'
  OBVIOUS
<1>1. ASSUME NEW r \in Route, NEW n \in 1..MaxTokens, Reserve(r, n) PROVE PInv'
  BY <1>1, ReserveKeeps
<1>2. ASSUME NEW r \in Route, NEW billed \in 0..MaxBilled, Settle(r, billed) PROVE PInv'
  BY <1>2, SettleEndsWith, EndKeeps
<1>3. ASSUME NEW r \in Route, Fail(r) PROVE PInv'
  BY <1>3, FailEndsWith, EndKeeps
<1>4. ASSUME NEW b \in Batch, NewBatch(b) PROVE PInv'
  BY <1>4, NewBatchKeeps
<1>5. ASSUME Midnight PROVE PInv'
  BY <1>5, MidnightKeeps
<1>6. ASSUME Crash PROVE PInv'
  BY <1>6, CrashKeeps
<1>7. ASSUME UNCHANGED vars PROVE PInv'
  BY <1>7 DEF vars, callVars, rowVars, spentVars, excessVars, PInv, TypeOK, Day,
    CallsInOrder, BatchHolds, RowCovers, DayHolds, MonthHolds, DayReturns,
    CountedDay, CountedMonth, SameMonth, Calls, CallsOf, CallsToday, CallsThisMonth
<1> QED BY <1>1, <1>2, <1>3, <1>4, <1>5, <1>6, <1>7 DEF Next, CallStep

-----------------------------------------------------------------------------
(* The theorems *)

\* The accounting invariant of paid tokens, for all limits, routes and batches.
THEOREM PaidInvariant == Spec => []PInv
BY PaidInit, PaidNext, PTL DEF Spec

\* No batch, no day and no month is overspent, but for what was not reserved.
THEOREM WithinLimits == Spec => []LimitsHold
<1>1. PInv => LimitsHold
  BY DEF PInv, LimitsHold
<1> QED BY <1>1, PaidInvariant, PTL

\* No call in flight is lost from the row's counters, through midnights and crashes.
THEOREM RowCoversCalls == Spec => []RowCovers
<1>1. PInv => RowCovers
  BY DEF PInv
<1> QED BY <1>1, PaidInvariant, PTL

\* However a call ends, the day's counter gets its reservation back.
THEOREM DayGetsBack == Spec => []DayReturns
<1>1. PInv => DayReturns
  BY DEF PInv
<1> QED BY <1>1, PaidInvariant, PTL
=============================================================================
