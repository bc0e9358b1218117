------------------------ MODULE RecordAnalysisProofs ------------------------
(***************************************************************************)
(* Proofs about RecordAnalysis: its inductive invariant, and what an       *)
(* analysis promises, for every graph of fields and any number of          *)
(* analyses and accidents.                                                 *)
(***************************************************************************)
EXTENDS RecordAnalysis, TLAPS

-----------------------------------------------------------------------------
(* Descendants *)

\* The fields started from are among their descendants.
LEMMA DescendantsContain ==
  ASSUME NEW S \in SUBSET Field
  PROVE  S \subseteq Descendants(S)
BY DEF Descendants

\* Descendants are closed under dependence.
LEMMA DescendantsClosed ==
  ASSUME NEW S \in SUBSET Field
  PROVE  Closed(Descendants(S))
<1> SUFFICES ASSUME NEW f \in Field, NEW d \in DependsOn[f], d \in Descendants(S)
             PROVE  f \in Descendants(S)
  BY DEF Closed
<1> SUFFICES ASSUME NEW T \in SUBSET Field, S \subseteq T, Closed(T)
             PROVE  f \in T
  BY DEF Descendants
<1>1. d \in T
  BY DEF Descendants
<1> QED BY <1>1 DEF Closed

\* A descendant is one of the fields started from, or depends on a descendant.
LEMMA DescendantsNeeded ==
  ASSUME NEW S \in SUBSET Field, NEW f \in Descendants(S), f \notin S
  PROVE  DependsOn[f] \cap Descendants(S) # {}
<1> SUFFICES ASSUME DependsOn[f] \cap Descendants(S) = {}
             PROVE  FALSE
  OBVIOUS
<1> DEFINE T == Descendants(S) \ {f}
<1>1. /\ T \in SUBSET Field
      /\ S \subseteq T
  BY DescendantsContain DEF Descendants
<1>2. Closed(T)
  <2> SUFFICES ASSUME NEW g \in Field, DependsOn[g] \cap T # {}
               PROVE  g \in T
    BY DEF Closed
  <2>1. g \in Descendants(S)
    BY DescendantsClosed DEF Closed
  <2>2. g # f
    OBVIOUS
  <2> QED BY <2>1, <2>2
<1>3. f \in T
  BY <1>1, <1>2 DEF Descendants
<1> QED BY <1>3

LEMMA DescendantsType ==
  ASSUME NEW S
  PROVE  Descendants(S) \in SUBSET Field
BY DEF Descendants

-----------------------------------------------------------------------------
(* Type correctness *)

LEMMA BasisType ==
  ASSUME NEW S, NEW inputs, basis \in [Field -> SUBSET Field]
  PROVE  BasisAfter(S, inputs) \in [Field -> SUBSET Field]
BY DependsAssumption DEF BasisAfter

LEMMA RepeatedType == Repeated \in SUBSET Field
BY DescendantsType DEF Repeated

LEMMA TypeInit == Init => TypeOK
BY DEF Init, TypeOK

LEMMA OutcomeTypes ==
  /\ RecordOutcome \in {"completed", "failed", "needs_review"}
  /\ \A runs : FieldOutcome(runs) \in {"pending", "completed", "failed", "needs_review"}
BY DEF RecordOutcome, FieldOutcome

LEMMA TypeNext == (TypeOK /\ [Next]_vars) => TypeOK'
<1> SUFFICES ASSUME TypeOK, [Next]_vars
             PROVE  TypeOK'
  OBVIOUS
<1> USE DEF TypeOK, rowVars, fieldVars, runVars
<1>1. CASE AnalyzeRecord
  BY <1>1, RepeatedType DEF AnalyzeRecord, Begin
<1>2. ASSUME NEW f \in Field, AnalyzeField(f) PROVE TypeOK'
  BY <1>2, DescendantsType DEF AnalyzeField, Begin
<1>3. CASE ImageRead
  BY <1>3 DEF ImageRead
<1>4. CASE ImageUnreadable
  BY <1>4 DEF ImageUnreadable
<1>5. ASSUME NEW f \in Field, SkipField(f) PROVE TypeOK'
  BY <1>5 DEF SkipField
<1>6. ASSUME NEW f \in Field, CallField(f) PROVE TypeOK'
  BY <1>6 DEF CallField
<1>7. ASSUME NEW f \in Field, NEW outcome \in Outcome, FieldDone(f, outcome) PROVE TypeOK'
  BY <1>7, BasisType DEF FieldDone, ContextAfter, Outcome
<1>8. ASSUME NEW f \in Field, FieldThrows(f) PROVE TypeOK'
  BY <1>8 DEF FieldThrows, Outcome
<1>9. CASE Conclude
  <2>1. latest' \in [Field -> Outcome \cup {"none", "skipped"}] /\ basis' \in [Field -> SUBSET Field]
    BY <1>9, BasisType DEF Conclude, WriteSkipped
  <2>2. status' \in {"pending", "processing", "completed", "failed", "needs_review"}
    BY <1>9, OutcomeTypes DEF Conclude
  <2> QED BY <1>9, <2>1, <2>2 DEF Conclude
<1>10. CASE Abort
  BY <1>10 DEF Abort
<1>11. ASSUME NEW S \in SUBSET Field, Crash(S) PROVE TypeOK'
  <2>1. latest' \in [Field -> Outcome \cup {"none", "skipped"}] /\ basis' \in [Field -> SUBSET Field]
    BY <1>11, BasisType DEF Crash, WriteSkipped
  <2> QED BY <1>11, <2>1 DEF Crash
<1>12. CASE ResetFailed
  BY <1>12 DEF ResetFailed
<1>13. CASE ConfirmReview
  BY <1>13 DEF ConfirmReview
<1>14. CASE UNCHANGED vars
  BY <1>14 DEF vars
<1> QED BY <1>1, <1>2, <1>3, <1>4, <1>5, <1>6, <1>7, <1>8, <1>9, <1>10, <1>11, <1>12, <1>13, <1>14
     DEF Next, AnalysisStep, FieldStep

\* Every reachable state is of the stated types.
THEOREM RecordTypes == Spec => []TypeOK
BY TypeInit, TypeNext, PTL DEF Spec

-----------------------------------------------------------------------------
(* The inductive invariant *)

LEMMA AInvInit == Init => AInv
BY TypeInit DEF Init, AInv, CallingIsNext, StatesAreRuns, DependenciesFirst,
  OthersAreKept, SelectedIsClosed, SelectedIsNeeded, ContextIsLatest, BasisIsLatest, SkipsAreCaused, CompletedMeansAll

LEMMA RepeatedFacts ==
  ASSUME TypeOK
  PROVE  /\ Repeated \in SUBSET Field
         /\ Closed(Repeated)
         /\ \A f \in Field \ Repeated : latest[f] = "completed"
         /\ Repeated # Field => \A f \in Repeated : latest[f] = "completed" =>
              DependsOn[f] \cap Repeated # {}
<1> DEFINE U == Unfinished
<1>1. U \in SUBSET Field
  BY DEF Unfinished
<1>2. CASE Repeated = Field
  BY <1>2, DependsAssumption DEF Closed
<1>3. CASE Repeated = Descendants(U)
  <2>1. Closed(Descendants(U)) /\ U \subseteq Descendants(U) /\ Descendants(U) \in SUBSET Field
    BY <1>1, DescendantsClosed, DescendantsContain, DescendantsType
  <2>2. \A f \in Field \ Descendants(U) : latest[f] = "completed"
    BY <2>1 DEF Unfinished
  <2>3. \A f \in Descendants(U) : latest[f] = "completed" => DependsOn[f] \cap Descendants(U) # {}
    BY <1>1, DescendantsNeeded DEF Unfinished
  <2> QED BY <1>3, <2>1, <2>2, <2>3
<1> QED BY <1>2, <1>3 DEF Repeated

\* A new analysis: nothing has a state yet, and what is not selected can be
\* read where it has a usable result.
LEMMA BeginKeeps ==
  ASSUME AInv, NEW kind \in {"record", "field"}, NEW fields \in SUBSET Field,
         NEW inputs \in SUBSET (Field \ fields),
         Begin(kind, fields, inputs),
         Closed(fields),
         \A f \in Field \ fields : latest[f] \in Usable => f \in inputs,
         \A f \in inputs : latest[f] \in Usable,
         kind = "record" => \A f \in Field \ fields : f \in inputs /\ latest[f] = "completed",
         (kind = "record" /\ fields # Field) =>
           \A f \in fields : latest[f] = "completed" => DependsOn[f] \cap fields # {}
  PROVE  AInv'
<1>1. TypeOK'
  BY DEF AInv, TypeOK, Begin, rowVars, fieldVars
<1>2. UNCHANGED <<status, review, latest, basis, calling, accidents>>
  BY DEF Begin, rowVars, fieldVars
<1>3. /\ phase = "idle" /\ phase' = "reading" /\ mode' = kind
      /\ selected' = fields /\ context' = inputs
      /\ \A f \in Field : state'[f] = "none"
  BY DEF Begin
<1>4. calling = None
  BY <1>3 DEF AInv, CallingIsNext
<1>5. CallingIsNext'
  BY <1>2, <1>4 DEF CallingIsNext
<1>6. StatesAreRuns' /\ DependenciesFirst'
  BY <1>3 DEF StatesAreRuns, DependenciesFirst, Usable
<1>7. OthersAreKept'
  BY <1>2, <1>3 DEF OthersAreKept, Usable
<1>8. SelectedIsClosed'
  BY <1>3 DEF SelectedIsClosed, Closed
<1>9. SelectedIsNeeded'
  BY <1>2, <1>3 DEF SelectedIsNeeded, Todo
<1>10. ContextIsLatest'
  BY <1>2, <1>3 DEF ContextIsLatest, Usable
<1>11. BasisIsLatest'
  BY <1>2, <1>3 DEF AInv, BasisIsLatest, Settles
<1>12. SkipsAreCaused'
  BY <1>2, <1>3 DEF AInv, SkipsAreCaused, Settles
<1>13. CompletedMeansAll'
  BY <1>2, <1>3 DEF AInv, CompletedMeansAll
<1> QED BY <1>1, <1>5, <1>6, <1>7, <1>8, <1>9, <1>10, <1>11, <1>12, <1>13 DEF AInv

LEMMA RecordBegins == (AInv /\ AnalyzeRecord) => AInv'
<1> SUFFICES ASSUME AInv, AnalyzeRecord PROVE AInv'
  OBVIOUS
<1>1. /\ Repeated \in SUBSET Field /\ Closed(Repeated)
      /\ \A f \in Field \ Repeated : latest[f] = "completed"
      /\ Repeated # Field => \A f \in Repeated : latest[f] = "completed" =>
           DependsOn[f] \cap Repeated # {}
  BY RepeatedFacts DEF AInv
<1>2. Begin("record", Repeated, Field \ Repeated)
  BY DEF AnalyzeRecord
<1>3. \A f \in Field \ Repeated : latest[f] \in Usable
  BY <1>1 DEF Usable
<1> QED BY <1>1, <1>2, <1>3, BeginKeeps

LEMMA FieldBegins ==
  ASSUME AInv, NEW f \in Field, AnalyzeField(f)
  PROVE  AInv'
<1> DEFINE fields == Descendants({f})
           inputs == {g \in Field \ fields : latest[g] \in Usable}
<1>1. fields \in SUBSET Field /\ Closed(fields)
  BY DescendantsType, DescendantsClosed
<1>2. Begin("field", fields, inputs)
  BY DEF AnalyzeField
<1>3. inputs \in SUBSET (Field \ fields)
  OBVIOUS
<1>4. /\ \A g \in Field \ fields : latest[g] \in Usable => g \in inputs
      /\ \A g \in inputs : latest[g] \in Usable
  OBVIOUS
<1> HIDE DEF fields, inputs
<1> QED BY <1>1, <1>2, <1>3, <1>4, BeginKeeps

\* Leaving the rows of the fields alone and ending an analysis that had not
\* begun to call keeps the invariant.
LEMMA ImageKeeps == (AInv /\ (ImageRead \/ ImageUnreadable)) => AInv'
<1> SUFFICES ASSUME AInv, ImageRead \/ ImageUnreadable PROVE AInv'
  OBVIOUS
<1>1. /\ phase = "reading" /\ phase' \in {"running", "idle"}
      /\ UNCHANGED <<latest, basis, mode, selected, state, context, calling, accidents>>
      /\ calling = None
  BY DEF ImageRead, ImageUnreadable, fieldVars, AInv, CallingIsNext
<1>2. TypeOK'
  BY TypeNext DEF AInv, Next, AnalysisStep
<1>3. CallingIsNext'
  BY <1>1 DEF CallingIsNext
<1>4. StatesAreRuns' /\ DependenciesFirst' /\ OthersAreKept' /\ SelectedIsClosed'
      /\ SelectedIsNeeded' /\ ContextIsLatest'
  BY <1>1 DEF AInv, StatesAreRuns, DependenciesFirst, OthersAreKept, SelectedIsClosed, SelectedIsNeeded,
    ContextIsLatest, DependencyFailed, Closed, Todo
<1>5. BasisIsLatest'
  BY <1>1 DEF AInv, BasisIsLatest, Settles
<1>6. SkipsAreCaused'
  BY <1>1 DEF AInv, SkipsAreCaused, Settles
<1>7. CompletedMeansAll'
  BY <1>1 DEF AInv, CompletedMeansAll, ImageRead, ImageUnreadable, rowVars
<1> QED BY <1>2, <1>3, <1>4, <1>5, <1>6, <1>7 DEF AInv

LEMMA CallKeeps ==
  ASSUME AInv, NEW f \in Field, CallField(f)
  PROVE  AInv'
<1>1. /\ IsNext(f) /\ ~DependencyFailed(f) /\ calling' = f
      /\ UNCHANGED <<status, review, latest, basis, phase, mode, selected, state, context, accidents>>
  BY DEF CallField, rowVars, fieldVars
<1>2. TypeOK'
  BY TypeNext DEF AInv, Next, AnalysisStep, FieldStep
<1>3. CallingIsNext'
  BY <1>1 DEF CallingIsNext, IsNext, DependencyFailed, Todo
<1>4. StatesAreRuns' /\ DependenciesFirst' /\ OthersAreKept' /\ SelectedIsClosed'
      /\ SelectedIsNeeded' /\ ContextIsLatest'
  BY <1>1 DEF AInv, StatesAreRuns, DependenciesFirst, OthersAreKept, SelectedIsClosed, SelectedIsNeeded,
    ContextIsLatest, DependencyFailed, Closed, Todo
<1>5. BasisIsLatest' /\ SkipsAreCaused' /\ CompletedMeansAll'
  BY <1>1 DEF AInv, BasisIsLatest, SkipsAreCaused, CompletedMeansAll, Settles
<1> QED BY <1>2, <1>3, <1>4, <1>5 DEF AInv

\* A field that is skipped, or fails without a run.
LEMMA UnwrittenKeeps ==
  ASSUME AInv, NEW f \in Field, SkipField(f) \/ FieldThrows(f)
  PROVE  AInv'
<1>1. /\ phase = "running" /\ f \in Todo /\ calling' = None
      /\ UNCHANGED <<status, review, latest, basis, phase, mode, selected, context>>
      /\ \A g \in Field : g # f => state'[g] = state[g]
      /\ \/ state'[f] = "skipped" /\ DependencyFailed(f) /\ accidents' = accidents
         \/ state'[f] = "failed" /\ accidents' # 0
      /\ accidents' = 0 => accidents = 0
  <2>1. TypeOK /\ CallingIsNext
    BY DEF AInv
  <2>2. CASE SkipField(f)
    BY <2>1, <2>2 DEF SkipField, IsNext, TypeOK, rowVars, fieldVars
  <2>3. CASE FieldThrows(f)
    <3>1. calling # None
      BY <2>3, RowlessAssumption DEF FieldThrows
    <3>2. accidents' # 0 /\ accidents' \in Nat
      BY <2>1, <2>3 DEF FieldThrows, TypeOK
    <3>3. phase = "running" /\ f \in Todo
      BY <2>1, <2>3, <3>1 DEF CallingIsNext, FieldThrows
    <3> QED BY <2>1, <2>3, <3>2, <3>3 DEF FieldThrows, TypeOK, rowVars, fieldVars
  <2> QED BY <2>2, <2>3
<1>2. f \in selected /\ state[f] = "none"
  BY <1>1 DEF Todo
<1>3. \A g \in Field : DependencyFailed(g) => DependencyFailed(g)'
  BY <1>1, <1>2, DependsAssumption DEF DependencyFailed
<1>4. TypeOK'
  BY TypeNext DEF AInv, Next, AnalysisStep, FieldStep
<1>5. CallingIsNext'
  BY <1>1 DEF CallingIsNext
<1>6. StatesAreRuns'
  <2> SUFFICES ASSUME NEW g \in Field
               PROVE  /\ state'[g] # "none" => g \in selected'
                      /\ g \in selected' => (g \in context' <=> state'[g] \in Usable)
                      /\ state'[g] \in Usable => latest'[g] = state'[g]
                      /\ (state'[g] = "failed" /\ accidents' = 0) => latest'[g] = "failed"
                      /\ state'[g] = "skipped" => DependencyFailed(g)'
    BY DEF StatesAreRuns
  <2>0. f \notin context
    BY <1>1, <1>2 DEF AInv, StatesAreRuns, Usable
  <2>1. CASE g = f
    BY <1>1, <1>2, <1>3, <2>0, <2>1 DEF Usable
  <2>2. CASE g # f
    BY <1>1, <1>3, <2>2 DEF AInv, StatesAreRuns
  <2> QED BY <2>1, <2>2
<1>7. DependenciesFirst'
  <2>1. Todo' = Todo \ {f}
    BY <1>1, <1>2 DEF Todo, AInv, TypeOK
  <2>2. DependsOn[f] \cap Todo = {}
    BY RowlessAssumption DEF AInv, CallingIsNext, SkipField, FieldThrows, IsNext
  <2> QED BY <1>1, <2>1, <2>2 DEF AInv, DependenciesFirst
<1>71. OthersAreKept' /\ SelectedIsClosed' /\ ContextIsLatest'
  BY <1>1 DEF AInv, OthersAreKept, SelectedIsClosed, ContextIsLatest, Closed
<1>8. SelectedIsNeeded'
  <2>1. Todo' \subseteq Todo
    BY <1>1, <1>2 DEF Todo, AInv, TypeOK
  <2> QED BY <1>1, <2>1 DEF AInv, SelectedIsNeeded
<1>9. accidents' = 0 => \A g \in Field : g # f => (Settles(g)' <=> Settles(g))
  BY <1>1 DEF Settles
<1>10. accidents' = 0 => ~Settles(f)'
  BY <1>1, <1>2 DEF Settles, Outcome
<1>11. BasisIsLatest' /\ SkipsAreCaused'
  BY <1>1, <1>9, <1>10 DEF AInv, BasisIsLatest, SkipsAreCaused
<1>12. CompletedMeansAll'
  BY <1>1 DEF AInv, CompletedMeansAll
<1> QED BY <1>4, <1>5, <1>6, <1>7, <1>71, <1>8, <1>11, <1>12 DEF AInv

\* The handler of f returns: f has a new run, whatever read the earlier one has
\* not been settled, since it is selected and comes after f.
LEMMA DoneKeeps ==
  ASSUME AInv, NEW f \in Field, NEW outcome \in Outcome, FieldDone(f, outcome)
  PROVE  AInv'
<1>1. /\ calling = f /\ calling' = None
      /\ UNCHANGED <<status, review, phase, mode, selected, accidents>>
      /\ latest'[f] = outcome /\ state'[f] = outcome
      /\ \A g \in Field : g # f => (latest'[g] = latest[g] /\ state'[g] = state[g])
      /\ basis'[f] = (DependsOn[f] \cap context) \ {f}
      /\ \A g \in Field : g # f => basis'[g] = basis[g] \ {f}
      /\ context' = IF outcome \in Usable THEN context \cup {f} ELSE context
  BY DEF FieldDone, AInv, TypeOK, rowVars, BasisAfter, ContextAfter
<1>2. /\ phase = "running" /\ f \in selected /\ state[f] = "none"
      /\ DependsOn[f] \cap Todo = {} /\ ~DependencyFailed(f)
  BY <1>1, RowlessAssumption DEF AInv, CallingIsNext, Todo
<1>3. f \notin DependsOn[f]
  BY <1>2 DEF Todo
<1>4. TypeOK'
  BY TypeNext DEF AInv, Next, AnalysisStep, FieldStep
<1>5. CallingIsNext'
  BY <1>1 DEF CallingIsNext
<1>6. StatesAreRuns'
  <2> SUFFICES ASSUME NEW g \in Field
               PROVE  /\ state'[g] # "none" => g \in selected'
                      /\ g \in selected' => (g \in context' <=> state'[g] \in Usable)
                      /\ state'[g] \in Usable => latest'[g] = state'[g]
                      /\ (state'[g] = "failed" /\ accidents' = 0) => latest'[g] = "failed"
                      /\ state'[g] = "skipped" => DependencyFailed(g)'
    BY DEF StatesAreRuns
  <2>0. f \notin context
    BY <1>2 DEF AInv, StatesAreRuns, Usable
  <2>1. CASE g = f
    BY <1>1, <1>2, <2>0, <2>1 DEF Outcome
  <2>2. CASE g # f
    <3>1. /\ state[g] # "none" => g \in selected
          /\ g \in selected => (g \in context <=> state[g] \in Usable)
          /\ state[g] \in Usable => latest[g] = state[g]
          /\ (state[g] = "failed" /\ accidents = 0) => latest[g] = "failed"
          /\ state[g] = "skipped" => DependencyFailed(g)
      BY <1>2 DEF AInv, StatesAreRuns
    <3>2. DependencyFailed(g) => DependencyFailed(g)'
      BY <1>1, <1>2, DependsAssumption DEF DependencyFailed
    <3> QED BY <1>1, <2>2, <3>1, <3>2
  <2> QED BY <2>1, <2>2
<1>7. OthersAreKept'
  BY <1>1, <1>2 DEF AInv, OthersAreKept
<1>8. SelectedIsClosed'
  BY <1>1 DEF AInv, SelectedIsClosed, Closed
<1>9. Todo' = Todo \ {f} /\ Todo \subseteq Field
  BY <1>1, <1>2 DEF Todo, Outcome, AInv, TypeOK
<1>10. DependenciesFirst'
  BY <1>1, <1>2, <1>9 DEF AInv, DependenciesFirst
<1>11. SelectedIsNeeded'
  <2> SUFFICES ASSUME mode = "record", selected # Field, NEW g \in Todo', latest'[g] = "completed"
               PROVE  DependsOn[g] \cap selected # {}
    BY <1>1 DEF SelectedIsNeeded
  <2>1. g \in Todo /\ g # f /\ g \in Field
    BY <1>9
  <2> QED BY <1>1, <1>2, <2>1 DEF AInv, SelectedIsNeeded
<1>12. ContextIsLatest'
  <2> SUFFICES ASSUME NEW g \in context'
               PROVE  latest'[g] \in Usable
    BY DEF ContextIsLatest
  <2>1. context \subseteq Field
    BY DEF AInv, TypeOK
  <2>2. CASE g = f /\ outcome \in Usable
    BY <1>1, <2>2
  <2>3. CASE g \in context /\ g # f
    BY <1>1, <1>2, <2>1, <2>3 DEF AInv, ContextIsLatest
  <2>4. f \notin context
    BY <1>2 DEF AInv, StatesAreRuns, Usable
  <2> QED BY <1>1, <2>2, <2>3, <2>4
<1>13. \A g \in Field : (g # f /\ Settles(g)') => (Settles(g) /\ f \notin DependsOn[g])
  <2> SUFFICES ASSUME NEW g \in Field, g # f, Settles(g)'
               PROVE  Settles(g) /\ f \notin DependsOn[g]
    OBVIOUS
  <2>1. Settles(g)
    BY <1>1 DEF Settles
  <2>2. CASE g \notin selected
    BY <1>2, <2>1, <2>2 DEF AInv, SelectedIsClosed, Closed
  <2>3. CASE state[g] \in Outcome
    <3>1. DependsOn[g] \cap Todo = {}
      BY <1>2, <2>3 DEF AInv, DependenciesFirst, Outcome
    <3>2. f \in Todo
      BY <1>2 DEF Todo
    <3> QED BY <2>1, <3>1, <3>2
  <2> QED BY <1>2, <2>1, <2>2, <2>3 DEF Settles
<1>14. accidents = 0 => \A d \in DependsOn[f] : latest[d] = "completed" => d \in context
  <2> SUFFICES ASSUME accidents = 0, NEW d \in DependsOn[f], latest[d] = "completed"
               PROVE  d \in context
    OBVIOUS
  <2>0. d \in Field
    BY DependsAssumption
  <2>1. CASE d \notin selected
    BY <1>2, <2>0, <2>1 DEF AInv, OthersAreKept, Usable
  <2>2. CASE d \in selected
    <3>1. state[d] \notin {"none", "failed", "skipped"}
      BY <1>2, <2>2 DEF Todo, DependencyFailed
    <3>2. state[d] \in Usable
      BY <2>0, <3>1 DEF AInv, TypeOK, Outcome, Usable
    <3> QED BY <1>2, <2>0, <2>2, <3>2 DEF AInv, StatesAreRuns
  <2> QED BY <2>1, <2>2
<1>15. BasisIsLatest'
  <2> SUFFICES ASSUME accidents' = 0, NEW g \in Field, Settles(g)', latest'[g] = "completed",
                      NEW d \in DependsOn[g], latest'[d] = "completed"
               PROVE  d \in basis'[g]
    BY DEF BasisIsLatest
  <2>0. d \in Field
    BY DependsAssumption
  <2>1. CASE g = f
    BY <1>1, <1>3, <1>14, <2>0, <2>1
  <2>2. CASE g # f
    <3>1. Settles(g) /\ d # f
      BY <1>13, <2>2
    <3>2. d \in basis[g]
      BY <1>1, <2>0, <2>2, <3>1 DEF AInv, BasisIsLatest
    <3> QED BY <1>1, <2>2, <3>1, <3>2
  <2> QED BY <2>1, <2>2
<1>16. SkipsAreCaused'
  <2> SUFFICES ASSUME accidents' = 0, NEW g \in Field, Settles(g)', latest'[g] = "skipped"
               PROVE  \E d \in DependsOn[g] : latest'[d] \in {"failed", "skipped"}
    BY DEF SkipsAreCaused
  <2>1. g # f
    BY <1>1 DEF Outcome
  <2>2. Settles(g) /\ f \notin DependsOn[g]
    BY <1>13, <2>1
  <2>3. PICK d \in DependsOn[g] : latest[d] \in {"failed", "skipped"}
    BY <1>1, <2>1, <2>2 DEF AInv, SkipsAreCaused
  <2>4. d \in Field /\ d # f
    BY <2>2, DependsAssumption
  <2> QED BY <1>1, <2>3, <2>4
<1>17. CompletedMeansAll'
  BY <1>1, <1>2 DEF CompletedMeansAll
<1> QED BY <1>4, <1>5, <1>6, <1>7, <1>8, <1>10, <1>11, <1>12, <1>15, <1>16, <1>17 DEF AInv

\* Whatever ends an analysis with an accident keeps what is said without one.
LEMMA DisturbedKeeps ==
  ASSUME TypeOK', phase' = "idle", calling' = None, accidents' # 0
  PROVE  AInv'
BY DEF AInv, CallingIsNext, StatesAreRuns, DependenciesFirst, OthersAreKept, SelectedIsClosed,
  SelectedIsNeeded, ContextIsLatest, BasisIsLatest, SkipsAreCaused, CompletedMeansAll

LEMMA AccidentKeeps ==
  ASSUME AInv, NEW S \in SUBSET Field, Abort \/ Crash(S)
  PROVE  AInv'
<1>1. TypeOK'
  BY TypeNext DEF AInv, Next
<1>2. phase' = "idle" /\ calling' = None /\ accidents' = accidents + 1
  BY DEF Abort, Crash
<1>3. accidents' # 0
  BY <1>2 DEF AInv, TypeOK
<1> QED BY <1>1, <1>2, <1>3, DisturbedKeeps

\* The end of an analysis: every selected field is done or was skipped.
LEMMA ConcludeEffect ==
  ASSUME AInv, Conclude
  PROVE  /\ phase = "running" /\ phase' = "idle" /\ calling = None /\ calling' = None
         /\ UNCHANGED <<mode, selected, state, context, accidents>>
         /\ \A f \in selected : state[f] \in Outcome \/ f \in Skipped
         /\ \A f \in Skipped : latest'[f] = "skipped" /\ f \in selected /\ DependencyFailed(f)
         /\ \A f \in Field \ Skipped :
              /\ Settles(f)
              /\ latest'[f] = latest[f]
              /\ basis'[f] = basis[f] \ Skipped
         /\ status' = IF mode = "record" THEN RecordOutcome ELSE FieldOutcome(latest')
         /\ review' = IF status' \in {"failed", "needs_review"} THEN "needs_review" ELSE "pending"
<1>1. /\ phase = "running" /\ phase' = "idle" /\ calling = None /\ calling' = None
      /\ UNCHANGED <<mode, selected, state, context, accidents>>
      /\ Todo = {} /\ WriteSkipped(Skipped)
      /\ status' = IF mode = "record" THEN RecordOutcome ELSE FieldOutcome(latest')
      /\ review' = IF status' \in {"failed", "needs_review"} THEN "needs_review" ELSE "pending"
  BY DEF Conclude
<1>2. \A f \in selected : state[f] \in Outcome \/ f \in Skipped
  BY <1>1 DEF AInv, TypeOK, Todo, Skipped
<1>3. \A f \in Skipped : latest'[f] = "skipped" /\ f \in selected /\ DependencyFailed(f)
  BY <1>1 DEF AInv, TypeOK, WriteSkipped, Skipped, StatesAreRuns
<1>4. \A f \in Field \ Skipped : Settles(f)
  BY <1>2 DEF Settles
<1>5. \A f \in Field \ Skipped : latest'[f] = latest[f] /\ basis'[f] = basis[f] \ Skipped
  BY <1>1 DEF WriteSkipped, BasisAfter
<1> QED BY <1>1, <1>2, <1>3, <1>4, <1>5

\* Then a record that ends as completed has nothing but completed runs.
LEMMA ConcludeCompletes == (AInv /\ [Next]_vars) => ConcludesAsCompleted
<1> SUFFICES ASSUME AInv, [Next]_vars, Concludes, status' = "completed",
                    NEW f \in Field
             PROVE  latest'[f] = "completed"
  BY DEF ConcludesAsCompleted
<1>1. Conclude
  <2>1. accidents \in Nat /\ accidents' = accidents /\ phase = "running" /\ phase' = "idle"
    BY DEF AInv, TypeOK, Concludes
  <2> QED BY <2>1 DEF Next, AnalysisStep, FieldStep, vars, rowVars, fieldVars, runVars, AnalyzeRecord,
    AnalyzeField, Begin, ImageRead, ImageUnreadable, SkipField, CallField, FieldDone, FieldThrows,
    Abort, Crash, ResetFailed, ConfirmReview
<1>2. CASE mode = "record"
  <2>1. RecordOutcome = "completed"
    BY <1>1, <1>2, ConcludeEffect
  <2>2. \A g \in selected : state[g] \notin {"failed", "needs_review", "skipped"}
    BY <2>1 DEF RecordOutcome
  <2>3. Skipped = {}
    BY <2>2 DEF Skipped
  <2>4. latest'[f] = latest[f] /\ phase = "running"
    BY <1>1, <2>3, ConcludeEffect
  <2>5. CASE f \in selected
    <3>1. state[f] = "completed"
      BY <1>1, <2>2, <2>3, <2>5, ConcludeEffect DEF Outcome
    <3> QED BY <2>4, <3>1 DEF AInv, StatesAreRuns, Usable
  <2>6. CASE f \notin selected
    BY <1>2, <2>4, <2>6 DEF AInv, OthersAreKept
  <2> QED BY <2>5, <2>6
<1>3. CASE mode # "record"
  <2>1. FieldOutcome(latest') = "completed"
    BY <1>1, <1>3, ConcludeEffect
  <2>2. latest'[f] \notin {"failed", "needs_review", "skipped", "none"}
    BY <2>1 DEF FieldOutcome
  <2>3. latest' \in [Field -> Outcome \cup {"none", "skipped"}]
    BY TypeNext DEF AInv, TypeOK
  <2> QED BY <2>2, <2>3 DEF Outcome
<1> QED BY <1>2, <1>3

LEMMA ConcludeKeeps ==
  ASSUME AInv, Conclude
  PROVE  AInv'
<1>1. /\ phase = "running" /\ phase' = "idle" /\ calling' = None
      /\ UNCHANGED <<selected, state, accidents>>
      /\ \A f \in Skipped : latest'[f] = "skipped" /\ f \in selected /\ DependencyFailed(f)
      /\ \A f \in Field \ Skipped : Settles(f) /\ latest'[f] = latest[f] /\ basis'[f] = basis[f] \ Skipped
  BY ConcludeEffect
<1>2. TypeOK'
  BY TypeNext DEF AInv, Next, AnalysisStep
<1>3. /\ CallingIsNext' /\ StatesAreRuns' /\ DependenciesFirst' /\ OthersAreKept'
      /\ SelectedIsClosed' /\ SelectedIsNeeded' /\ ContextIsLatest'
  BY <1>1 DEF CallingIsNext, StatesAreRuns, DependenciesFirst, OthersAreKept, SelectedIsClosed,
    SelectedIsNeeded, ContextIsLatest
<1>4. BasisIsLatest'
  <2> SUFFICES ASSUME accidents = 0, NEW f \in Field, latest'[f] = "completed",
                      NEW d \in DependsOn[f], latest'[d] = "completed"
               PROVE  d \in basis'[f]
    BY <1>1 DEF BasisIsLatest
  <2>1. d \in Field /\ d \notin Skipped /\ f \notin Skipped
    BY <1>1, DependsAssumption
  <2> QED BY <1>1, <2>1 DEF AInv, BasisIsLatest
<1>5. SkipsAreCaused'
  <2> SUFFICES ASSUME accidents = 0, NEW f \in Field, latest'[f] = "skipped"
               PROVE  \E d \in DependsOn[f] : latest'[d] \in {"failed", "skipped"}
    BY <1>1 DEF SkipsAreCaused
  <2>1. CASE f \in Skipped
    <3>1. PICK d \in DependsOn[f] : state[d] \in {"failed", "skipped"}
      BY <1>1, <2>1 DEF DependencyFailed
    <3>2. d \in Field /\ d \in selected
      BY <1>1, <3>1, DependsAssumption DEF AInv, StatesAreRuns
    <3>3. CASE state[d] = "skipped"
      BY <1>1, <3>2, <3>3 DEF Skipped
    <3>4. CASE state[d] = "failed"
      <4>1. latest[d] = "failed" /\ d \notin Skipped
        BY <1>1, <3>2, <3>4 DEF AInv, StatesAreRuns, Skipped
      <4> QED BY <1>1, <3>2, <4>1
    <3> QED BY <3>1, <3>3, <3>4
  <2>2. CASE f \notin Skipped
    <3>1. PICK d \in DependsOn[f] : latest[d] \in {"failed", "skipped"}
      BY <1>1, <2>2 DEF AInv, SkipsAreCaused
    <3>2. d \in Field
      BY DependsAssumption
    <3> QED BY <1>1, <3>1, <3>2
  <2> QED BY <2>1, <2>2
<1>6. CompletedMeansAll'
  <2>1. ConcludesAsCompleted
    BY ConcludeCompletes DEF Next, AnalysisStep
  <2> QED BY <1>1, <2>1 DEF ConcludesAsCompleted, Concludes, CompletedMeansAll
<1> QED BY <1>2, <1>3, <1>4, <1>5, <1>6 DEF AInv

LEMMA RequestKeeps == (AInv /\ (ResetFailed \/ ConfirmReview)) => AInv'
<1> SUFFICES ASSUME AInv, ResetFailed \/ ConfirmReview PROVE AInv'
  OBVIOUS
<1>1. /\ phase = "idle" /\ phase' = "idle" /\ calling' = calling
      /\ UNCHANGED <<latest, basis, accidents>>
      /\ ~(status' = "completed" /\ review' # "confirmed")
  BY DEF ResetFailed, ConfirmReview, fieldVars, runVars
<1>2. calling = None
  BY <1>1 DEF AInv, CallingIsNext
<1>3. TypeOK'
  BY TypeNext DEF AInv, Next
<1>4. /\ CallingIsNext' /\ StatesAreRuns' /\ DependenciesFirst' /\ OthersAreKept'
      /\ SelectedIsClosed' /\ SelectedIsNeeded' /\ ContextIsLatest'
  BY <1>1, <1>2 DEF CallingIsNext, StatesAreRuns, DependenciesFirst, OthersAreKept, SelectedIsClosed,
    SelectedIsNeeded, ContextIsLatest
<1>5. BasisIsLatest' /\ SkipsAreCaused' /\ CompletedMeansAll'
  BY <1>1 DEF AInv, BasisIsLatest, SkipsAreCaused, CompletedMeansAll, Settles
<1> QED BY <1>3, <1>4, <1>5 DEF AInv

LEMMA StutterKeeps == (AInv /\ UNCHANGED vars) => AInv'
<1> SUFFICES ASSUME AInv, UNCHANGED vars PROVE AInv'
  OBVIOUS
<1>1. TypeOK'
  BY TypeNext DEF AInv
<1> USE DEF vars, rowVars, fieldVars, runVars
<1>2. CallingIsNext' /\ StatesAreRuns' /\ DependenciesFirst' /\ OthersAreKept'
  BY DEF AInv, CallingIsNext, StatesAreRuns, DependenciesFirst, OthersAreKept, Todo, DependencyFailed
<1>3. SelectedIsClosed' /\ SelectedIsNeeded' /\ ContextIsLatest'
  BY DEF AInv, SelectedIsClosed, SelectedIsNeeded, ContextIsLatest, Todo, Closed
<1>4. BasisIsLatest' /\ SkipsAreCaused' /\ CompletedMeansAll'
  BY DEF AInv, BasisIsLatest, SkipsAreCaused, CompletedMeansAll, Settles
<1> QED BY <1>1, <1>2, <1>3, <1>4 DEF AInv

LEMMA AInvNext == (AInv /\ [Next]_vars) => AInv'
<1> SUFFICES ASSUME AInv, [Next]_vars PROVE AInv'
  OBVIOUS
<1> QED BY RecordBegins, FieldBegins, ImageKeeps, CallKeeps, UnwrittenKeeps, DoneKeeps, ConcludeKeeps,
     AccidentKeeps, RequestKeeps, StutterKeeps DEF Next, AnalysisStep, FieldStep

\* What the analysis knows of its fields holds throughout, see AInv.
THEOREM AnalysisInvariant == Spec => []AInv
BY AInvInit, AInvNext, PTL DEF Spec

-----------------------------------------------------------------------------
(* What an analysis promises *)

\* The analysis of a record calls a field only with all its inputs.
THEOREM CallsHaveInputs == Spec => []InputsComplete
<1>1. AInv => InputsComplete
  <2> SUFFICES ASSUME AInv, mode = "record", calling # None, NEW d \in DependsOn[calling]
               PROVE  d \in context
    BY DEF InputsComplete
  <2>1. /\ phase = "running" /\ calling \in Field
        /\ d \notin Todo /\ state[d] \notin {"failed", "skipped"} /\ d \in Field
    BY DependsAssumption DEF AInv, TypeOK, CallingIsNext, DependencyFailed
  <2>2. CASE d \in selected
    <3>1. state[d] \in Usable
      BY <2>1, <2>2 DEF AInv, TypeOK, Todo, Outcome, Usable
    <3> QED BY <2>1, <2>2, <3>1 DEF AInv, StatesAreRuns
  <2>3. CASE d \notin selected
    BY <2>1, <2>3 DEF AInv, OthersAreKept
  <2> QED BY <2>2, <2>3
<1> QED BY <1>1, AnalysisInvariant, PTL

\* Undisturbed, a completed record is consistent.
THEOREM UndisturbedConsistent == Spec => []UndisturbedIsConsistent
<1>1. AInv => UndisturbedIsConsistent
  <2> SUFFICES ASSUME AInv, accidents = 0, phase = "idle", status = "completed", review # "confirmed",
                      NEW f \in Field, NEW d \in DependsOn[f]
               PROVE  d \in basis[f]
    BY DEF UndisturbedIsConsistent, CompletedIsConsistent
  <2>1. d \in Field
    BY DependsAssumption
  <2>2. latest[f] = "completed" /\ latest[d] = "completed"
    BY <2>1 DEF AInv, CompletedMeansAll
  <2> QED BY <2>2 DEF AInv, BasisIsLatest, Settles
<1> QED BY <1>1, AnalysisInvariant, PTL

\* Undisturbed, a skipped field has a dependency to blame.
THEOREM SkippedCaused == Spec => []SkippedHasCause
<1>1. AInv => SkippedHasCause
  BY DEF AInv, SkipsAreCaused, SkippedHasCause, Settles
<1> QED BY <1>1, AnalysisInvariant, PTL

\* An analysis ends as completed only over completed runs.
THEOREM CompletedAll == Spec => CompletedOnlyIfAllAre
<1>1. (AInv /\ [Next]_vars) => [ConcludesAsCompleted]_vars
  BY ConcludeCompletes
<1> QED BY <1>1, AnalysisInvariant, PTL DEF Spec, CompletedOnlyIfAllAre

\* A resumed analysis repeats a result only for a reason.
THEOREM NothingInVain == Spec => RepeatsNothingInVain
<1>1. (AInv /\ [Next]_vars) => [CallsForCause]_vars
  <2> SUFFICES ASSUME AInv, [Next]_vars, calling = None, calling' # None,
                      mode = "record", selected # Field, latest[calling'] = "completed"
               PROVE  \E d \in DependsOn[calling'] : state[d] # "none"
    BY DEF CallsForCause
  <2>1. PICK f \in Field : CallField(f)
    BY DEF Next, AnalysisStep, FieldStep, vars, rowVars, fieldVars, runVars, AnalyzeRecord,
      AnalyzeField, Begin, ImageRead, ImageUnreadable, SkipField, FieldDone, FieldThrows,
      Conclude, Abort, Crash, ResetFailed, ConfirmReview
  <2>2. calling' = f /\ phase = "running" /\ f \in Todo /\ DependsOn[f] \cap Todo = {}
    BY <2>1 DEF CallField, IsNext
  <2>3. PICK d \in DependsOn[f] : d \in selected
    BY <2>2 DEF AInv, SelectedIsNeeded
  <2> QED BY <2>2, <2>3 DEF Todo
<1> QED BY <1>1, AnalysisInvariant, PTL DEF Spec, RepeatsNothingInVain
=============================================================================
