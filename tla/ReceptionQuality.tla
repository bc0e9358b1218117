-------------------------- MODULE ReceptionQuality --------------------------
(***************************************************************************)
(* What the answer of a model to the quality check of a reception is worth *)
(* on its own.  The answer names, for the rules of the section, what it    *)
(* found and the evidence for it; the code follows every reference, leaves *)
(* out the findings it cannot prove, and asks for a person's review when   *)
(* the answer is not complete.                                             *)
(*                                                                         *)
(* A reference is represented by the source it names and by whether the    *)
(* text it quotes is there.  An answer that names a rule outside the       *)
(* section or the same rule twice is refused before any of this, and is    *)
(* not represented.                                                        *)
(***************************************************************************)
EXTENDS Naturals, FiniteSets, FiniteSetsExt

CONSTANTS Rule,
          Scope,      \* Scope[r]: "preSale" or "afterSale"
          Declared,   \* Declared[r]: the sources of evidence the rule asks for
          Deduction,  \* Deduction[r]
          ScoreBase,
          Material,   \* what may be at hand of a conversation, and of the knowledge
          MaxEvidence,  \* bound on the references of one answer
          Missing

Scene == {"preSale", "afterSale", "mixed", "unclear"}
Source == {"dialogue", "source_field", "knowledge", "backend_record"}

ASSUME ReceptionAssumption ==
  /\ Scope \in [Rule -> {"preSale", "afterSale"}]
  /\ Declared \in [Rule -> (SUBSET Source) \ {{}}]
  /\ Material \subseteq [present : SUBSET {"dialogue", "source_field"},
                           knowledge : {"none", "cut", "complete"}]
  /\ Deduction \in [Rule -> Nat] /\ {ScoreBase, MaxEvidence} \subseteq Nat

VARIABLES answer, result
qualityVars == <<answer, result>>

Applicable(scene, r) == scene \in {"mixed", "unclear"} \/ scene = Scope[r]
Expected(scene) == {r \in Rule : Applicable(scene, r)}

\* (mutant) the rules listed as checked are not compared
CoverageOfChecks(a) == \A r \in Rule : a.checks[r] # Missing
\* Every rule is answered, and those listed as checked are those that apply.
Coverage(a) == /\ \A r \in Rule : a.checks[r] # Missing
               /\ a.listed = Expected(a.scene)

----------------------------------------------------------------------------
(* The protocol with evidence of several sources (v2). *)

Cited(check) == {ref.source : ref \in {e \in check.evidence : e.found}}
InvalidRef(check) == \E e \in check.evidence : e.source # "backend_record" /\ ~e.found
HasBackendRef(check) == \E e \in check.evidence : e.source = "backend_record"

\* What is at hand to follow references into; knowledge that had to be cut
\* does not count.
AtHand(a, source) == CASE source = "knowledge" -> a.knowledge = "complete"
                       [] source = "backend_record" -> FALSE
                       [] OTHER -> source \in a.present

Unproven(a, r) ==
  \E s \in Declared[r] : ~AtHand(a, s) \/ s \notin Cited(a.checks[r])

\* What is said of one rule keeps the answer from standing on its own.
Blocks(a, r) ==
  LET c == a.checks[r] IN
  /\ c # Missing
  /\ \/ Applicable(a.scene, r) # (c.status # "not_applicable")
     \/ /\ Applicable(a.scene, r)
        /\ \/ InvalidRef(c) \/ Unproven(a, r) \/ HasBackendRef(c)
           \/ c.status = "needs_review"
           \/ c.status = "violation" /\ "dialogue" \notin Cited(c)

Counts(a, r) ==
  LET c == a.checks[r] IN
  /\ c # Missing /\ Applicable(a.scene, r) /\ c.status = "violation" /\ Coverage(a)
  /\ ~InvalidRef(c) /\ ~Unproven(a, r) /\ ~HasBackendRef(c) /\ "dialogue" \in Cited(c)

Score(issues) ==
  LET total == FoldSet(LAMBDA r, s : s + Deduction[r], 0, issues)
  IN IF total < ScoreBase THEN ScoreBase - total ELSE 0

Judged(issues, review) ==
  [st |-> "parsed", issues |-> issues, score |-> Score(issues), review |-> review]

ParseV2(a) ==
  Judged({r \in Rule : Counts(a, r)},
         \/ a.scene = "unclear" \/ a.doubts \/ ~Coverage(a)
         \/ a.knowledge = "cut"
         \/ \E r \in Rule : Blocks(a, r))

----------------------------------------------------------------------------
(* The strict protocol: two lists of findings, quoted from the dialogue. *)

Findings(a) == {r \in Rule : a.checks[r] # Missing}

\* A finding under the wrong heading, or a rule listed that does not apply.
Malformed(a) == \/ \E r \in Findings(a) : a.checks[r].heading # Scope[r]
                \/ a.listed \ Expected(a.scene) # {}

Traceable(a, r) == \A e \in a.checks[r].evidence : e.found

ParseStrict(a) ==
  IF Malformed(a) THEN [st |-> "refused"]
  ELSE LET issues == {r \in Findings(a) : Traceable(a, r)} IN
       Judged(issues,
              \/ a.scene = "unclear" \/ a.doubts
              \/ a.listed # Expected(a.scene)
              \/ issues # Findings(a)
              \/ ~(issues \subseteq Expected(a.scene)))

----------------------------------------------------------------------------

References == [source : Source, found : BOOLEAN]
\* A reference is only found in what is at hand, and none in the back office.
Possible(present, knowledge) ==
  {e \in References :
     e.found => \/ e.source \in present
                \/ e.source = "knowledge" /\ knowledge # "none"}
Few(S) == {T \in SUBSET S : Cardinality(T) <= MaxEvidence}

Answer(v2, scene, present, knowledge) ==
  [v2 : {v2}, scene : {scene}, present : {present}, knowledge : {knowledge},
   doubts : BOOLEAN, listed : SUBSET Rule,
   checks : [Rule -> {Missing} \cup
     IF v2 THEN [status : {"violation", "compliant", "needs_review", "not_applicable"},
                 evidence : Few(Possible(present, knowledge))]
     ELSE [heading : {"preSale", "afterSale"},
           evidence : Few({e \in Possible(present, knowledge) : e.source = "dialogue"}) \ {{}}]]]

QualityInit == answer = Missing /\ result = [st |-> "asked"]

\* The model answers, and the answer is judged.
Parse ==
  /\ answer = Missing
  /\ \E v2 \in BOOLEAN, scene \in Scene, m \in Material :
       answer' \in Answer(v2, scene, m.present, m.knowledge)
  /\ result' = IF answer'.v2 THEN ParseV2(answer') ELSE ParseStrict(answer')

QualityNext == Parse
QualitySpec == QualityInit /\ [][QualityNext]_qualityVars

----------------------------------------------------------------------------

Reported == IF answer.v2 THEN {r \in Rule : /\ answer.checks[r] # Missing
                                            /\ answer.checks[r].status = "violation"}
                         ELSE Findings(answer)

\* A result no person has to look at answers every rule that applies, proves
\* each answer from every source the rule asks for, and counts exactly the
\* violations that were reported.
AloneIsComplete ==
  (result.st = "parsed" /\ ~result.review) =>
    /\ answer.scene # "unclear" /\ ~answer.doubts
    /\ answer.listed = Expected(answer.scene)
    /\ result.issues = Reported
    /\ \A r \in Expected(answer.scene) :
         answer.v2 => /\ answer.checks[r].status \in {"violation", "compliant"}
                      /\ Declared[r] \subseteq Cited(answer.checks[r])
                      /\ \A e \in answer.checks[r].evidence : e.found

\* A deduction is only made for a violation of a rule that is proved by the
\* dialogue, without a reference that leads nowhere, whether or not a person
\* looks at the result.
DeductionsAreProven ==
  result.st = "parsed" =>
    \A r \in result.issues :
      LET c == answer.checks[r] IN
      /\ r \in Reported
      /\ \E e \in c.evidence : e.source = "dialogue" /\ e.found
      /\ \A e \in c.evidence : e.found
      /\ answer.v2 => Declared[r] \subseteq Cited(c)

\* What the parsing of a model's answer makes of it can be relied upon: it is
\* complete where nobody looks at it, and its deductions are proved everywhere
\* (parseReceptionQualityAnalysis, parseReceptionQualityAnalysisV2).
JudgementStands == AloneIsComplete /\ DeductionsAreProven
=============================================================================
