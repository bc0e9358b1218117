--------------------------- MODULE KnowledgeMatch ---------------------------
(***************************************************************************)
(* The choice of a knowledge item for a record.  A record's field is       *)
(* matched against the knowledge snapshot of the configuration version its *)
(* job is bound to: the best candidates are offered to a model, whose      *)
(* choice is remembered for a quarter of an hour under the field, the      *)
(* base, the question and the candidates' ids and scores, and every match  *)
(* stores a copy of the chosen item.  Extracting fields read that copy.    *)
(* Operators edit the base and publish versions meanwhile, and analyses    *)
(* are cancelled.                                                          *)
(*                                                                         *)
(* Items are numbers, so that equal scores have an order.  The text of an  *)
(* item stands for its values, Points for the score of a text against a    *)
(* question.  A base that the version holds is used whether it is switched *)
(* on or not, so its switch is left out.                                   *)
(***************************************************************************)
EXTENDS Naturals, FiniteSets, Sequences

CONSTANTS MRecord, MItem, Text, Query,
          Points,          \* Points[text][query]
          CandidateLimit,  \* candidates that a field offers
          MaxTouches,      \* bound on edits and publications
          MaxMatches,      \* bound on the matches of a record
          NoText

ASSUME MatchAssumption ==
  /\ MItem \subseteq Nat /\ {CandidateLimit, MaxTouches, MaxMatches} \subseteq Nat
  /\ Points \in [Text -> [Query -> Nat]]

VARIABLES
  stock,     \* stock[i]: the item of the base, [text, on], or NoText
  snapshots, \* the knowledge snapshots of the versions, in their order
  bound,     \* bound[r]: the version of its job, 0 before it has one
  call,      \* call[m]: a match of a record, [at, query, offer]
  called,    \* called[r]: the matches begun
  cancelled, \* matches whose analysis was cancelled
  cache,     \* remembered choices: [key, item, fresh], and (history) the
             \* candidates the model was shown, seen
  copies,    \* copies[r]: knowledge_match_snapshots of the record, [item, text]
  result,    \* result[r]: the newest run of the field, [st, item], and (history)
             \* the question and the candidates its choice was made from
  extract,   \* extract[r]: what the extracting field read, [item, text]
  touches

matchVars == <<stock, snapshots, bound, call, called, cancelled, cache, copies, result,
               extract, touches>>

Matching == MRecord \X (1 .. MaxMatches)
NoCall == [at |-> "idle", query |-> NoText, offer |-> {}]
NoMatch == [st |-> "none", item |-> 0, query |-> NoText, seen |-> {}]

MatchInit ==
  /\ \E text \in Text : stock = [i \in MItem |-> [text |-> text, on |-> TRUE]]
  /\ snapshots = <<stock>>
  /\ bound = [r \in MRecord |-> 0]
  /\ call = [m \in Matching |-> NoCall]
  /\ called = [r \in MRecord |-> 0]
  /\ cancelled = {}
  /\ cache = {}
  /\ copies = [r \in MRecord |-> <<>>]
  /\ result = [r \in MRecord |-> NoMatch]
  /\ extract = [r \in MRecord |-> [item |-> 0, text |-> NoText]]
  /\ touches = 0

----------------------------------------------------------------------------
(* The base and its versions. *)

Touch == /\ touches < MaxTouches /\ touches' = touches + 1
         /\ UNCHANGED <<bound, call, called, cancelled, cache, copies, result, extract>>

SaveItem(i, text, on) == /\ Touch /\ stock[i] # [text |-> text, on |-> on]
                         /\ stock' = [stock EXCEPT ![i] = [text |-> text, on |-> on]]
                         /\ UNCHANGED snapshots

DropItem(i) == /\ Touch /\ stock[i] # NoText
               /\ stock' = [stock EXCEPT ![i] = NoText]
               /\ UNCHANGED snapshots

\* A draft takes the base of now; published, it is the version of new jobs.
\* (One that changes nothing is left out.)
PublishKnowledge == /\ Touch /\ stock # snapshots[Len(snapshots)]
                    /\ snapshots' = Append(snapshots, stock)
                    /\ UNCHANGED stock

----------------------------------------------------------------------------
(* The candidates. *)

Enabled(snap) == {i \in MItem : snap[i] # NoText /\ snap[i].on}

Score(snap, query, i) == Points[snap[i].text][query]

\* Items are ranked by their scores, equal ones by their ids, and the first are
\* offered; the ids and the scores tell their order.
Best(snap, query) ==
  LET score(i) == Score(snap, query, i)
      before(i) == {k \in Enabled(snap) : score(k) > score(i) \/ (score(k) = score(i) /\ k < i)}
  IN  {[item |-> i, text |-> snap[i].text, score |-> score(i)] :
         i \in {k \in Enabled(snap) : Cardinality(before(k)) < CandidateLimit}}

\* What of candidates a remembered choice depends on; their texts are not in it.
Ranked(offer) == {<<c.item, c.score>> : c \in offer}

\* (mutant) a choice is remembered for the items, whatever they score
KeyOfItems(query, offer) == <<query, {<<c.item, 0>> : c \in offer}>>

Key(query, offer) == <<query, Ranked(offer)>>

Remembered(key) == {c \in cache : c.key = key}
Hits(query, offer) == {c \in Remembered(Key(query, offer)) : c.fresh}

Concludes(r, st) == result' = [result EXCEPT ![r] = [NoMatch EXCEPT !.st = st]]

\* The values of the chosen candidate are kept.
Matched(r, c, query, seen) ==
  /\ copies' = [copies EXCEPT ![r] = Append(@, [item |-> c.item, text |-> c.text])]
  /\ result' = [result EXCEPT ![r] =
                  [st |-> "completed", item |-> c.item, query |-> query, seen |-> seen]]

----------------------------------------------------------------------------
(* A match. *)

\* The record's next analysis: without candidates it ends in a review, with a
\* remembered choice at once, and otherwise the model is asked.
BeginMatch(r) ==
  LET m == <<r, called[r] + 1>>
      v == IF bound[r] = 0 THEN Len(snapshots) ELSE bound[r]
  IN
  /\ called[r] < MaxMatches
  /\ \A k \in 1 .. called[r] : call[<<r, k>>].at = "asking" => <<r, k>> \in cancelled
  /\ called' = [called EXCEPT ![r] = @ + 1]
  /\ bound' = [bound EXCEPT ![r] = v]
  /\ \E query \in Query :
       LET offer == Best(snapshots[v], query) IN
       \/ /\ offer = {}
          /\ Concludes(r, "needs_review")
          /\ UNCHANGED <<call, cache, copies>>
       \/ /\ offer # {}
          /\ \E hit \in Hits(query, offer), c \in offer :
               c.item = hit.item /\ Matched(r, c, query, hit.seen)
          /\ UNCHANGED <<call, cache>>
       \/ /\ offer # {} /\ Hits(query, offer) = {}
          /\ cache' = cache \ Remembered(Key(query, offer))
          /\ call' = [call EXCEPT ![m] = [at |-> "asking", query |-> query, offer |-> offer]]
          /\ UNCHANGED <<copies, result>>
  /\ UNCHANGED <<stock, snapshots, cancelled, extract, touches>>

Ends(m) == call' = [call EXCEPT ![m] = [NoCall EXCEPT !.at = "ended"]]

CancelMatch(m) ==
  /\ call[m].at = "asking" /\ m \notin cancelled
  /\ cancelled' = cancelled \cup {m}
  /\ UNCHANGED <<stock, snapshots, bound, call, called, cache, copies, result, extract, touches>>

\* A choice among the candidates; the pool accepts no other answer.
Choose(m) ==
  LET r == m[1] query == call[m].query offer == call[m].offer IN
  /\ call[m].at = "asking" /\ m \notin cancelled
  /\ \E c \in offer :
       /\ cache' = (cache \ Remembered(Key(query, offer)))
                     \cup {[key |-> Key(query, offer), item |-> c.item, fresh |-> TRUE,
                             seen |-> offer]}
       /\ Matched(r, c, query, offer)
  /\ Ends(m)
  /\ UNCHANGED <<stock, snapshots, bound, called, cancelled, extract, touches>>

\* The model finds none, or the call fails.
NoChoice(m, st) ==
  /\ call[m].at = "asking" /\ m \notin cancelled
  /\ Concludes(m[1], st)
  /\ Ends(m)
  /\ UNCHANGED <<stock, snapshots, bound, called, cancelled, cache, copies, extract, touches>>

\* A late answer is thrown away.
DropLate(m) ==
  /\ call[m].at = "asking" /\ m \in cancelled
  /\ Ends(m)
  /\ UNCHANGED <<stock, snapshots, bound, called, cancelled, cache, copies, result, extract,
                 touches>>

\* Remembered choices expire and are lost with the process.
Forget == \E c \in cache :
  /\ c.fresh
  /\ \/ cache' = (cache \ {c}) \cup {[c EXCEPT !.fresh = FALSE]}
     \/ cache' = {}
  /\ UNCHANGED <<stock, snapshots, bound, call, called, cancelled, copies, result, extract,
                 touches>>

\* The extracting field of the record's current result: the newest copy of
\* the item; nothing for an empty result.
ExtractValue(r) ==
  /\ result[r].st \in {"completed", "needs_review"}
  /\ LET found == {n \in 1 .. Len(copies[r]) : copies[r][n].item = result[r].item}
     IN  extract' = [extract EXCEPT ![r] =
           IF found = {} THEN [item |-> 0, text |-> NoText]
           ELSE copies[r][CHOOSE n \in found : \A k \in found : k <= n]]
  /\ UNCHANGED <<stock, snapshots, bound, call, called, cancelled, cache, copies, result, touches>>

MatchNext ==
  \/ \E i \in MItem : DropItem(i) \/ \E t \in Text, on \in BOOLEAN : SaveItem(i, t, on)
  \/ PublishKnowledge
  \/ \E r \in MRecord : BeginMatch(r) \/ ExtractValue(r)
  \/ \E m \in Matching : \/ CancelMatch(m) \/ Choose(m) \/ DropLate(m)
                         \/ \E st \in {"needs_review", "failed"} : NoChoice(m, st)
  \/ Forget

MatchSpec == MatchInit /\ [][MatchNext]_matchVars

----------------------------------------------------------------------------

MatchTypeOK ==
  /\ \A i \in MItem : stock[i] # NoText => stock[i] \in [text : Text, on : BOOLEAN]
  /\ bound \in [MRecord -> 0 .. Len(snapshots)]
  /\ \A c \in cache : c.item \in MItem /\ c.fresh \in BOOLEAN
  /\ \A r \in MRecord : result[r].item \in MItem \cup {0}

\* However the base is edited and published while models answer, and
\* whichever record's answer a choice is remembered from: the item of a
\* record is among the best of the version of its own job for its question;
\* the candidates it was chosen from were those of that version by item and
\* score, so that a choice is not used again where an edit changed which items
\* are offered or what they score; and what is stored of it, and read of it by
\* the extracting field, is the text of that version (matchKnowledgeItem,
\* buildCacheKey).  The texts the model chose from may be older ones: an edit
\* that leaves every score as it was, or a switch of version between such
\* texts, does not keep a remembered choice from being used.
MatchStands ==
  /\ MatchTypeOK
  /\ \A r \in MRecord :
       LET snap == snapshots[bound[r]]
           best == Best(snap, result[r].query)
       IN
       /\ result[r].st = "completed" =>
            /\ bound[r] > 0 /\ result[r].query \in Query
            /\ \E c \in best : c.item = result[r].item
            /\ Ranked(result[r].seen) = Ranked(best)
            /\ \E n \in 1 .. Len(copies[r]) : copies[r][n].item = result[r].item
       /\ \A n \in 1 .. Len(copies[r]) : copies[r][n].text = snap[copies[r][n].item].text
       /\ extract[r].item # 0 => extract[r].text = snap[extract[r].item].text
=============================================================================
