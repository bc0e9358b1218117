--------------------------- MODULE ReceptionReport ---------------------------
(***************************************************************************)
(* One conversation on its way through the quality check of a reception:   *)
(* what the screenshots say of it, the judgement of a model under one of   *)
(* the three protocols a version may bind, the cells derived from it for   *)
(* the screen, and the row of the workbook, which the export computes anew *)
(* from the issues and the rules of the version.                           *)
(*                                                                         *)
(* Rules have distinct names and identifiers, as every published version   *)
(* has, and stand for both.  How a finding is proved is the subject of     *)
(* ReceptionQuality: here the strict protocols hand over the findings they *)
(* kept and whether they left a doubt.                                     *)
(***************************************************************************)
EXTENDS Naturals, FiniteSets, Sequences, Functions

CONSTANTS Catalogue,   \* the rules of the version, in their order
          HeadOf,      \* HeadOf[r]: "preSale" or "afterSale"
          PointsOf,    \* PointsOf[r]: the deduction
          ForcesD,     \* the rules whose violation is grade D at once
          PriorityOf,  \* PriorityOf[r]: smaller is reported first
          TopScore,
          AtLeast,     \* AtLeast[g]: the score grade g starts at
          RankOf,      \* RankOf[g]: its place in the list of the thresholds
          Dialogue,    \* the dialogues a screenshot may show
          Snapshot,    \* sizes of the knowledge bases a version may freeze
          ContextLimit,  \* the characters of knowledge a question may hold
          Unknown

Heading == {"preSale", "afterSale"}
SceneOf == Heading \cup {"mixed", "unclear"}
Grades == {"A", "B", "C", "D"}
AllRules == Range(Catalogue)
MaxShown == 3    \* issues the legacy protocol puts on show

\* A time is of a day, and of a year too where it is full.
Moment == [full : BOOLEAN, day : Nat, clock : Nat]
Speech == [speaker : {"customer", "agent", "robot"}, time : Moment \cup {Unknown}]

\* A version is published with one threshold for each grade, in any order: two
\* may be equal, and one may lie above the top score.
ASSUME ReportAssumption ==
  /\ Catalogue \in Seq(AllRules) /\ IsInjective(Catalogue)
  /\ Dialogue \subseteq Seq(Speech) /\ Unknown \notin Moment \cup BOOLEAN
  /\ HeadOf \in [AllRules -> Heading] /\ PointsOf \in [AllRules -> Nat]
  /\ PriorityOf \in [AllRules -> Nat] /\ ForcesD \subseteq AllRules
  /\ AtLeast \in [Grades -> Nat] /\ TopScore \in Nat
  /\ RankOf \in [Grades -> Nat] /\ IsInjective(RankOf)

VARIABLES talk,     \* the dialogue on the screenshots, until its facts are extracted
          facts,    \* the facts derived from it
          quality,  \* the stored judgement
          screen,   \* the derived cells
          row       \* the row of the workbook
reportVars == <<talk, facts, quality, screen, row>>

----------------------------------------------------------------------------
(* The facts. *)

\* A round is a question of the customer that a person answered.
Heard(s, t) ==
  CASE t.speaker = "customer" -> [s EXCEPT !.waiting = TRUE]
    [] t.speaker = "agent" /\ s.waiting -> [waiting |-> FALSE, n |-> s.n + 1]
    [] OTHER -> s
Rounds(turns) ==
  LET After[n \in 0 .. Len(turns)] ==
        IF n = 0 THEN [waiting |-> FALSE, n |-> 0] ELSE Heard(After[n - 1], turns[n])
  IN After[Len(turns)].n

Before(s, t) == s.day < t.day \/ (s.day = t.day /\ s.clock < t.clock)
First(times) == CHOOSE s \in times : \A t \in times : ~Before(t, s)

\* Times with their year, and times that lack it.
Times(turns, full) == {turns[i].time : i \in {k \in DOMAIN turns : turns[k].time # Unknown
                                                           /\ turns[k].time.full = full}}

\* The time of the sheet, else the earliest complete time of the chat, else
\* the earliest one the business date completes, unless one contradicts it.
StartOf(turns, sheet, day) ==
  CASE sheet -> [from |-> "sheet"]
    [] ~sheet /\ Times(turns, TRUE) # {} -> [from |-> "chat", at |-> First(Times(turns, TRUE))]
    [] ~sheet /\ Times(turns, TRUE) = {} /\ day # Unknown /\ Times(turns, FALSE) # {}
         /\ (\A t \in Times(turns, FALSE) : t.day = day) ->
         [from |-> "completed", at |-> First(Times(turns, FALSE))]
    [] OTHER -> [from |-> "nowhere"]

\* What the screenshots show, what the sheet and the task say of the day.
Upload ==
  /\ talk = Unknown /\ facts = Unknown
  /\ \E turns \in Dialogue, sheet \in BOOLEAN, day \in {1, Unknown}, hints \in SUBSET Heading :
       talk' = [turns |-> turns, sheet |-> sheet, day |-> day, hints |-> hints]
  /\ UNCHANGED <<facts, quality, screen, row>>

\* An answer that breaks its schema or numbers two turns alike leaves no facts.
Extract ==
  /\ talk # Unknown
  /\ facts' = [start |-> StartOf(talk.turns, talk.sheet, talk.day),
               rounds |-> Rounds(talk.turns), hints |-> talk.hints]
  /\ talk' = Unknown
  /\ UNCHANGED <<quality, screen, row>>

----------------------------------------------------------------------------
(* The judgement. *)

Total(points) ==
  LET Upto[n \in 0 .. Len(points)] == IF n = 0 THEN 0 ELSE Upto[n - 1] + points[n]
  IN Upto[Len(points)]
Sum(rules) == Total([i \in DOMAIN rules |-> PointsOf[rules[i]]])
ScoreOf(total) == IF total < TopScore THEN TopScore - total ELSE 0
\* The highest threshold the score meets, the first listed of equal ones.
GradeOf(total, forced) ==
  LET met == {g \in Grades : AtLeast[g] <= ScoreOf(total)}
      best == {g \in met : \A h \in met : AtLeast[h] <= AtLeast[g]}
  IN IF forced \/ met = {} THEN "D" ELSE CHOOSE g \in best : \A h \in best : RankOf[g] <= RankOf[h]

\* Put before the first rule of a lower priority.
Least(S) == CHOOSE m \in S : \A k \in S : m <= k
ByPriority(rules, r) ==
  LET p == Least({i \in DOMAIN rules : PriorityOf[rules[i]] > PriorityOf[r]} \cup {Len(rules) + 1})
  IN [i \in 1 .. Len(rules) + 1 |-> CASE i < p -> rules[i] [] i = p -> r [] i > p -> rules[i - 1]]
InOrder(rules) ==
  LET Upto[n \in 0 .. Len(rules)] == IF n = 0 THEN <<>> ELSE ByPriority(Upto[n - 1], rules[n])
  IN Upto[Len(rules)]

\* The rules that are in a set, in their order.
Kept(rules, r, S) == IF r \in S THEN Append(rules, r) ELSE rules
Only(rules, S) ==
  LET Upto[n \in 0 .. Len(rules)] == IF n = 0 THEN <<>> ELSE Kept(Upto[n - 1], rules[n], S)
  IN Upto[Len(rules)]

Due(scene) == {r \in AllRules : scene \in {"mixed", "unclear"} \/ scene = HeadOf[r]}

\* The headings of the only hint the facts give, else both.
PromptedScopes(hints) == IF Cardinality(hints) = 1 THEN hints ELSE Heading

\* The rules the question shows; the newest protocol always shows all.
Shown(protocol, hints) ==
  {r \in AllRules : protocol = "v2" \/ HeadOf[r] \in PromptedScopes(hints)}

\* Bases are added while they fit; one that does not is left out alone.
Fitted(sum, size) == IF sum + size <= ContextLimit THEN sum + size ELSE sum
Fitting(sizes) ==
  LET Upto[n \in 0 .. Len(sizes)] == IF n = 0 THEN 0 ELSE Fitted(Upto[n - 1], sizes[n])
  IN Upto[Len(sizes)]
Whole(sizes) == Fitting(sizes) = Total(sizes)

\* What is stored of the findings under the two headings.
Judgement(protocol, pre, after, review, f) ==
  LET all == InOrder(pre \o after)
      named == IF protocol = "legacy" THEN SubSeq(all, 1, Least({Len(all), MaxShown})) ELSE all
      forced == \E i \in DOMAIN all : all[i] \in ForcesD
  IN [protocol |-> protocol, pre |-> pre, after |-> after, review |-> review,
      names |-> named, points |-> [i \in DOMAIN named |-> PointsOf[named[i]]],
      total |-> Sum(all), forced |-> forced, grade |-> GradeOf(Sum(all), forced),
      start |-> IF protocol = "legacy" THEN [from |-> "nowhere"] ELSE f.start,
      rounds |-> IF protocol = "legacy" THEN 0 ELSE f.rounds]

\* A model names some rules, each once.
Findable(rules) == UNION {Injection(1 .. n, rules) : n \in 0 .. Cardinality(rules)}
Under(head) == {r \in AllRules : HeadOf[r] = head}
Misplaced(scene, pre, after) == \/ scene = "preSale" /\ after # <<>>
                                \/ scene = "afterSale" /\ pre # <<>>

\* The first protocol: rules listed as checked are optional, and nothing is
\* asked of the facts.
JudgeLegacy(a, f) ==
  Judgement("legacy", a.pre, a.after,
            \/ a.scene = "unclear" \/ a.doubts \/ Misplaced(a.scene, a.pre, a.after)
            \/ a.listed # Unknown /\ ~(Due(a.scene) \subseteq a.listed), f)

\* The strict protocol: every rule that is due is listed, and the facts have
\* a start.
JudgeStrict(a, f) ==
  Judgement("strict", a.pre, a.after,
            \/ a.scene = "unclear" \/ a.doubts \/ Misplaced(a.scene, a.pre, a.after)
            \/ a.listed # Due(a.scene) \/ f.start.from = "nowhere", f)

\* The newest protocol takes the findings in the order of the rules, those of
\* rules that are due and only if all of these are listed, and doubts a
\* judgement made with a part of the knowledge.
JudgeV2(a, f) ==
  LET kept == {r \in (Range(a.pre) \cup Range(a.after)) \cap Due(a.scene) : a.listed = Due(a.scene)}
      ordered == InOrder(Only(Catalogue, kept))
  IN Judgement("v2", Only(ordered, Under("preSale")), Only(ordered, Under("afterSale")),
               \/ a.scene = "unclear" \/ a.doubts \/ Misplaced(a.scene, a.pre, a.after)
               \/ a.listed # Due(a.scene) \/ f.start.from = "nowhere" \/ ~a.whole, f)

JudgeBy(protocol, a, f) == CASE protocol = "legacy" -> JudgeLegacy(a, f)
                           [] protocol = "strict" -> JudgeStrict(a, f)
                           [] protocol = "v2" -> JudgeV2(a, f)

\* What must be so of a judgement no person has to look at, kept beside it:
\* the model was shown all it answered for.
Informed(protocol, a, f) ==
  /\ Due(a.scene) \subseteq Shown(protocol, f.hints)
  /\ protocol = "v2" => a.whole

\* The version decides the protocol.  A model names the rules it is shown;
\* an answer that lists a rule that is not due is refused.
Judge ==
  /\ facts # Unknown /\ quality = Unknown
  /\ \E protocol \in {"legacy", "strict", "v2"}, scene \in SceneOf, doubts \in BOOLEAN, s \in Snapshot :
     \E pre \in Findable(Under("preSale") \cap Shown(protocol, facts.hints)),
        after \in Findable(Under("afterSale") \cap Shown(protocol, facts.hints)),
        listed \in {Due(scene) \cap Shown(protocol, facts.hints), {}}
                     \cup (IF protocol = "legacy" THEN {Unknown} ELSE {}) :
       LET a == [scene |-> scene, doubts |-> doubts, pre |-> pre, after |-> after,
                 listed |-> listed, whole |-> Whole(s)]
       IN quality' = [stored |-> JudgeBy(protocol, a, facts), informed |-> Informed(protocol, a, facts)]
  /\ UNCHANGED <<talk, facts, screen, row>>

----------------------------------------------------------------------------
(* The cells. *)

\* The issue each name is matched with: the first of that name not yet taken.
FirstFree(m, name, issues) ==
  LET free == {i \in DOMAIN issues \ Range(m) : issues[i] = name}
  IN IF free = {} THEN 0 ELSE Least(free)
Matched(m, name, issues) == Append(m, FirstFree(m, name, issues))
MatchedIssues(names, issues) ==
  LET Upto[n \in 0 .. Len(names)] == IF n = 0 THEN <<>> ELSE Matched(Upto[n - 1], names[n], issues)
  IN Upto[Len(names)]

\* (mutant) issues beyond the names are overlooked
MisalignedNames(q, issues) ==
  LET m == MatchedIssues(q.names, issues)
  IN \E i \in DOMAIN m : m[i] = 0 \/ PointsOf[issues[m[i]]] # q.points[i]
\* Names, deductions and issues are not one for one.
Misaligned(q, issues) ==
  LET m == MatchedIssues(q.names, issues)
  IN \/ Len(q.names) # Len(q.points) \/ Len(q.names) # Len(issues)
     \/ Range(m) # DOMAIN issues
     \/ \E i \in DOMAIN m : m[i] = 0 \/ PointsOf[issues[m[i]]] # q.points[i]

LevelCell(q, forced) == IF q.names = <<>> THEN Unknown ELSE forced

\* The derived cells repeat what the judgement says.
DeriveCells ==
  /\ quality # Unknown /\ screen = Unknown
  /\ LET q == quality.stored IN
     screen' = [names |-> q.names, points |-> q.points, total |-> q.total, grade |-> q.grade,
                level |-> LevelCell(q, q.forced), start |-> q.start, rounds |-> q.rounds,
                review |-> q.review \/ Misaligned(q, q.pre \o q.after)]
  /\ UNCHANGED <<talk, facts, quality, row>>

\* The export counts again.
ExportRow(q) ==
  LET issues == InOrder(q.pre \o q.after)
      byHead == Only(issues, Under("preSale")) \o Only(issues, Under("afterSale"))
      forced == \E i \in DOMAIN issues : issues[i] \in ForcesD
  IN [names |-> q.names, points |-> q.points, total |-> Sum(issues),
      grade |-> IF issues = <<>> /\ ~q.review THEN "A" ELSE GradeOf(Sum(issues), forced),
      level |-> LevelCell(q, forced), start |-> q.start, rounds |-> q.rounds,
      review |-> q.review \/ Misaligned(q, byHead)]

ExportReport ==
  /\ screen # Unknown /\ row = Unknown
  /\ row' = ExportRow(quality.stored)
  /\ UNCHANGED <<talk, facts, quality, screen>>

ReportInit == /\ talk = Unknown /\ facts = Unknown /\ quality = Unknown
              /\ screen = Unknown /\ row = Unknown
ReportNext == Upload \/ Extract \/ Judge \/ DeriveCells \/ ExportReport
ReportSpec == ReportInit /\ [][ReportNext]_reportVars

----------------------------------------------------------------------------

\* An agent's turn answers when the last to speak of the two was the customer.
IsAnswer(turns, i) ==
  /\ turns[i].speaker = "agent"
  /\ \E k \in 1 .. i - 1 : /\ turns[k].speaker = "customer"
                           /\ \A l \in k + 1 .. i - 1 : turns[l].speaker # "agent"

\* A start taken from the chat is said in it, no complete time is earlier, and
\* one completed by the business date is contradicted by no turn.
StartIsRead(turns, sheet, day, start) ==
  /\ sheet <=> start.from = "sheet"
  /\ start.from \in {"chat", "completed"} =>
       /\ \E i \in DOMAIN turns : turns[i].time = start.at
       /\ \A i \in DOMAIN turns :
            LET t == turns[i].time IN
            t # Unknown => IF start.from = "chat" THEN t.full => ~Before(t, start.at)
                           ELSE ~t.full /\ t.day = day /\ ~Before(t, start.at)

\* Cells no person has to look at name every issue once and in order, their
\* deductions add up to their total, their grade follows from them, and the
\* model that found the issues was shown every rule it answered for.
AddsUp(r, q) ==
  /\ Len(r.names) = Len(q.pre) + Len(q.after)
  /\ Range(r.names) = Range(q.pre) \cup Range(q.after)
  /\ \A i, j \in DOMAIN r.names :
       i < j => PriorityOf[r.names[i]] <= PriorityOf[r.names[j]]
  /\ r.total = Total(r.points)
  /\ IF r.level = TRUE THEN r.grade = "D"
     ELSE \A g \in Grades : ScoreOf(r.total) >= AtLeast[g] => AtLeast[g] <= AtLeast[r.grade]
  /\ q.protocol # "legacy" => r.start.from # "nowhere" /\ quality.informed

\* The thresholds give a score without any deduction an A, as the shipped ones
\* do; nothing at publication asks for it.
TopIsA == /\ AtLeast["A"] <= TopScore
          /\ \A g \in Grades \ {"A"} : AtLeast[g] <= TopScore => AtLeast[g] < AtLeast["A"]

\* Nothing was found and nothing is in doubt: the export writes an A without
\* looking at the thresholds.
Spotless(q) == q.pre \o q.after = <<>> /\ ~q.review

\* What is said of a conversation is read from it; the workbook says of it
\* what the screen says, but for the grade of a spotless one where TopIsA does
\* not hold; and what stands without a person adds up.
ReportStands ==
  [][/\ (facts' # facts) =>
          /\ facts'.rounds = Cardinality({i \in DOMAIN talk.turns : IsAnswer(talk.turns, i)})
          /\ StartIsRead(talk.turns, talk.sheet, talk.day, facts'.start)
     /\ (row' # row) =>
          /\ row' = IF TopIsA \/ ~Spotless(quality.stored) THEN screen
                    ELSE [screen EXCEPT !.grade = "A"]
          /\ ~screen.review => AddsUp(screen, quality.stored)]_reportVars
=============================================================================
