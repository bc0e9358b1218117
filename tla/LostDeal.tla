------------------------------ MODULE LostDeal ------------------------------
(***************************************************************************)
(* The attribution of a lost deal.  A summary of the screenshots is made;  *)
(* from it and the reasons of the configuration version a model names the  *)
(* customer's and the service's reasons with their evidence; the answer is *)
(* checked, and the field run and the record's links to the reasons, which *)
(* the knowledge pages count, are written in one transaction.  Other       *)
(* fields derive their values from the attribution.                        *)
(*                                                                         *)
(* A reason stands for its item and its name.  What one answer says beside *)
(* its reasons (demands, overall evidence and confidence) is one word.     *)
(***************************************************************************)
EXTENDS Naturals, FiniteSets, Sequences

CONSTANTS Deal,            \* records
          CustomerReason, ServiceReason,
          Summary,         \* texts of summaries
          RawAnswer,       \* answers: [customer, service: Seq(raw), rest]
          MaxAttributions, \* bound on the attributions of a record
          NoReason

Reason == CustomerReason \cup ServiceReason

ASSUME DealAssumption == NoReason \notin Reason /\ MaxAttributions \in Nat

VARIABLES
  settings, \* of the version: [customer, service: the enabled reasons; padded; sync]
  summary,  \* summary[d]: the newest run of the summary, or "none"
  attempt,  \* attempt[t]: [at, text], an attribution in its course
  begun,    \* begun[d]: the attributions begun
  stopped,  \* attributions whose analysis was cancelled
  runs,     \* runs[d]: the runs of the attribution, [st, text, reasons]
  links,    \* links[d]: lost_deal_record_reasons, [reason, type, ev]
  derived   \* derived[d]: the newest derived values, [from, names, advised]

dealVars == <<settings, summary, attempt, begun, stopped, runs, links, derived>>

Attribution == Deal \X (1 .. MaxAttributions)

DealInit ==
  /\ \E c \in SUBSET CustomerReason, s \in SUBSET ServiceReason, sync \in BOOLEAN :
       \E padded \in SUBSET c :
         settings = [customer |-> c, service |-> s, padded |-> padded, sync |-> sync]
  /\ summary = [d \in Deal |-> "none"]
  /\ attempt = [t \in Attribution |-> [at |-> "idle", text |-> "none"]]
  /\ begun = [d \in Deal |-> 0]
  /\ stopped = {}
  /\ runs = [d \in Deal |-> <<>>]
  /\ links = [d \in Deal |-> {}]
  /\ derived = [d \in Deal |-> [from |-> 0, names |-> {}, advised |-> {}]]

----------------------------------------------------------------------------
(* The check of an answer. *)

\* Evidence is a passage of the summary or of the source fields.
Grounded(text, ev) == ev \in {text, "source"}

\* By its item, or by its name when the item is unknown.
Selected(raw, offered) ==
  IF raw.id \in offered THEN raw.id ELSE IF raw.name \in offered THEN raw.name ELSE NoReason

Proven(raw, text) == raw.ev # "" /\ Grounded(text, raw.ev) /\ raw.sure = "high"

\* A new name, or a reason without proof, is left to a person.
ReasonOf(raw, offered, text) ==
  LET item == Selected(raw, offered)
  IN  [item |-> item, ev |-> raw.ev,
       name |-> IF item # NoReason /\ Proven(raw, text) THEN item ELSE "review"]

Doubtful(raw, offered, text) ==
  ~Proven(raw, text) \/ (Selected(raw, offered) = NoReason /\ raw.name # "review")

Elements(s) == {s[i] : i \in DOMAIN s}
Reasons(list, offered, text) == [i \in DOMAIN list |-> ReasonOf(list[i], offered, text)]

\* At most two of a kind, none with an item that was not offered.
ListParses(list, offered) ==
  /\ Len(list) <= 2
  /\ \A raw \in Elements(list) :
       raw.sure # "invalid" /\ (raw.id # NoReason => Selected(raw, offered) # NoReason)

RestParses(a) == a.rest # "invalid"

Parses(a) == /\ ListParses(a.customer, settings.customer)
             /\ ListParses(a.service, settings.service)
             /\ RestParses(a)

Review(a, text) ==
  \/ \E raw \in Elements(a.customer) : Doubtful(raw, settings.customer, text)
  \/ \E raw \in Elements(a.service) : Doubtful(raw, settings.service, text)
  \/ a.customer = <<>> /\ a.service = <<>>
  \/ a.rest = "weak"

Attributed(a, text) ==
  [st |-> IF Review(a, text) THEN "needs_review" ELSE "completed", text |-> text,
   customer |-> Reasons(a.customer, settings.customer, text),
   service |-> Reasons(a.service, settings.service, text)]

FailedRun(text) == [st |-> "failed", text |-> text, customer |-> <<>>, service |-> <<>>]

----------------------------------------------------------------------------
(* The links. *)

Linkable(e) == e.item # NoReason /\ e.name # "review" /\ e.ev # ""

Captured(list, type) ==
  {[reason |-> e.item, type |-> type, ev |-> e.ev] : e \in {f \in Elements(list) : Linkable(f)}}
LinksOf(run) == Captured(run.customer, "customer") \cup Captured(run.service, "service")

Captures(run) == settings.sync /\ run.st = "completed"

\* The stored name must be the item's to the letter, and a record has one
\* link to an item.
Conflicts(run) ==
  \/ \E l \in LinksOf(run) : l.reason \in settings.padded
  \/ \E list \in {run.customer, run.service} : \E i, k \in DOMAIN list :
       i # k /\ Linkable(list[i]) /\ Linkable(list[k]) /\ list[i].item = list[k].item

Writes(d, run) == runs' = [runs EXCEPT ![d] = Append(@, run)]

\* (mutant) the old links are removed before the transaction
Lost(d) == links' = [links EXCEPT ![d] = {}]
\* A transaction that fails leaves the links as they were.
RolledBack(d) == UNCHANGED links

----------------------------------------------------------------------------
(* The fields of a record. *)

Busy(d) == \E k \in 1 .. begun[d] : attempt[<<d, k>>].at = "asked" /\ <<d, k>> \notin stopped

\* The screenshots are summarised by a plain model call, whose run needs a
\* review when its fields do not fit and fails when the call does.
Summarise(d) ==
  /\ ~Busy(d) /\ begun[d] < MaxAttributions
  /\ \E text \in Summary \cup {"none"} :
       summary[d] # text /\ summary' = [summary EXCEPT ![d] = text]
  /\ UNCHANGED <<settings, attempt, begun, stopped, runs, links, derived>>

\* The reasons of both kinds must be there before the model is asked.
BeginAttribution(d) ==
  /\ ~Busy(d) /\ begun[d] < MaxAttributions /\ summary[d] # "none"
  /\ begun' = [begun EXCEPT ![d] = @ + 1]
  /\ IF settings.customer = {} \/ settings.service = {}
       THEN Writes(d, FailedRun(summary[d])) /\ UNCHANGED attempt
       ELSE /\ attempt' = [attempt EXCEPT ![<<d, begun'[d]>>] =
                             [at |-> "asked", text |-> summary[d]]]
            /\ UNCHANGED runs
  /\ UNCHANGED <<settings, summary, stopped, links, derived>>

EndsAttempt(t) == attempt' = [attempt EXCEPT ![t].at = "ended"]

\* The pool passes on an answer only if it parses.
Attribute(t, a) ==
  LET d == t[1] run == Attributed(a, attempt[t].text) IN
  /\ attempt[t].at = "asked" /\ t \notin stopped /\ Parses(a)
  /\ EndsAttempt(t)
  /\ IF Captures(run) /\ Conflicts(run)
       THEN Writes(d, FailedRun(attempt[t].text)) /\ RolledBack(d)
       ELSE /\ Writes(d, run)
            /\ links' = [links EXCEPT ![d] = IF Captures(run) THEN LinksOf(run) ELSE {}]
  /\ UNCHANGED <<settings, summary, begun, stopped, derived>>

\* No model gives an answer that parses.
AttributionFails(t) ==
  /\ attempt[t].at = "asked" /\ t \notin stopped
  /\ EndsAttempt(t)
  /\ Writes(t[1], FailedRun(attempt[t].text))
  /\ UNCHANGED <<settings, summary, begun, stopped, links, derived>>

StopAttribution(t) ==
  /\ attempt[t].at = "asked" /\ t \notin stopped
  /\ stopped' = stopped \cup {t}
  /\ UNCHANGED <<settings, summary, attempt, begun, runs, links, derived>>

\* An answer that comes after the stop is thrown away, a failure too.
LateAttribution(t) ==
  /\ attempt[t].at = "asked" /\ t \in stopped
  /\ EndsAttempt(t)
  /\ UNCHANGED <<settings, summary, begun, stopped, runs, links, derived>>

NamesIn(list) == {e.name : e \in Elements(list)}

\* The names go to the fields of the reasons, and to the advice without those
\* left to a person.  The newest run of the attribution must not have failed.
Derive(d) ==
  /\ ~Busy(d) /\ runs[d] # <<>>
  /\ LET run == runs[d][Len(runs[d])]
         names == NamesIn(run.customer) \cup NamesIn(run.service)
     IN  /\ run.st # "failed"
         /\ derived' = [derived EXCEPT ![d] =
              [from |-> Len(runs[d]), names |-> names, advised |-> names \ {"review"}]]
  /\ UNCHANGED <<settings, summary, attempt, begun, stopped, runs, links>>

DealNext ==
  \/ \E d \in Deal : Summarise(d) \/ BeginAttribution(d) \/ Derive(d)
  \/ \E t \in Attribution : \/ AttributionFails(t) \/ StopAttribution(t) \/ LateAttribution(t)
                            \/ \E a \in RawAnswer : Attribute(t, a)

DealSpec == DealInit /\ [][DealNext]_dealVars

----------------------------------------------------------------------------

DealTypeOK ==
  /\ summary \in [Deal -> Summary \cup {"none"}]
  /\ begun \in [Deal -> 0 .. MaxAttributions] /\ stopped \subseteq Attribution
  /\ \A d \in Deal : \A l \in links[d] : l.reason \in Reason

Standing(d) == {n \in DOMAIN runs[d] : runs[d][n].st # "failed"}

\* However analyses are repeated, cancelled and fail: the links of a record
\* are the reasons of its newest attribution that did not fail, enabled in its
\* version and proven by the summary which that run has read, and there are
\* none while that attribution waits for a person; what was derived from an
\* attribution names its linked reasons, and advises on no other.  A reason that
\* is called as what is left to a person is taken for that, and has no link.
LinksStand ==
  /\ DealTypeOK
  /\ \A d \in Deal :
       /\ Standing(d) = {} => links[d] = {}
       /\ \A n \in Standing(d) : (\A k \in Standing(d) : k <= n) =>
            LET run == runs[d][n] IN
            /\ (links[d] # {}) => run.st = "completed"
            /\ run.st = "completed" /\ settings.sync =>
                 {l.reason : l \in links[d]} =
                   {e.item : e \in Elements(run.customer) \cup Elements(run.service)} \ {NoReason, "review"}
            /\ \A l \in links[d] :
                 /\ l.reason \in settings[l.type] \ settings.padded
                 /\ Grounded(run.text, l.ev)
            /\ derived[d].from = n /\ run.st = "completed" /\ settings.sync =>
                 derived[d].advised = {l.reason : l \in links[d]}
=============================================================================
