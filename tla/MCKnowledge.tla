----------------------------- MODULE MCKnowledge -----------------------------
(* Knowledge in small instances for TLC: the snapshot kept beside the code,   *)
(* the questions captured from records, the bases edited and imported, the    *)
(* page on which a person does so, and the items matched.  The parts have no  *)
(* variable in common and are checked side by side: a behaviour is one of one *)
(* part.                                                                      *)
EXTENDS KnowledgeSync, HotTopic, KnowledgeImport, KnowledgeMatch, KnowledgeDesk, TLC

CONSTANTS item, field, ta, tb, tc, k1, k2

VARIABLE part

\* a new database knows the field and not the item
Seeds == [e \in Entry |-> IF e = field THEN "enabled" ELSE "absent"]

\* a base whose first column is the result; workbooks of the same headers, in
\* which two lines may have one key, and one of other headers and a line that
\* lacks its parent value
Columns == [head |-> "h", keyed |-> TRUE]
L(key, text) == [key |-> key, text |-> text]
Workbooks == {[head |-> "h", lines |-> <<L("k", 1), L("k", 2)>>, bad |-> FALSE],
              [head |-> "h", lines |-> <<L("k", 1)>>, bad |-> FALSE],
              [head |-> "g", lines |-> <<L("l", 1)>>, bad |-> TRUE]}
Mappings == {Columns}

\* two texts of one score and a text of a better one
Scores == [t \in Text |-> [q \in Query |-> IF t = tc THEN 2 ELSE 1]]

\* a base of two items and a base of one
ItemBase == (1 :> k1) @@ (2 :> k1) @@ (3 :> k2)

\* A part that does not take part starts in one way only.
Init == /\ part \in {"sync", "hot", "import", "match", "desk"}
        /\ SyncInit /\ HotInit /\ KnowledgeInit /\ MatchInit /\ KbInit
        /\ part # "sync" => file = Nil
        /\ part # "hot" => ~snap.hot /\ snap.items = {}
        /\ kb[CHOOSE b \in KBase : TRUE] # Unused
        /\ part # "import" => \A b \in KBase : kb[b] # Unused => kb[b].on
        /\ \A i \in MItem : stock[i].text = ta
        /\ part # "desk" => kbs = KbBase

Next ==
  /\ UNCHANGED part
  /\ \/ part = "sync" /\ SyncNext /\ UNCHANGED <<hotVars, importVars, matchVars, deskVars>>
     \/ part = "hot" /\ HotNext /\ UNCHANGED <<syncVars, importVars, matchVars, deskVars>>
     \/ part = "import" /\ ImportNext /\ UNCHANGED <<syncVars, hotVars, matchVars, deskVars>>
     \/ part = "match" /\ MatchNext /\ UNCHANGED <<syncVars, hotVars, importVars, deskVars>>
     \/ part = "desk" /\ KbNext /\ UNCHANGED <<syncVars, hotVars, importVars, matchVars>>

Spec == Init /\ [][Next]_<<part, syncVars, hotVars, importVars, matchVars, deskVars>>

\* The bases hold their items, and the page of a person who keeps them shows
\* one base and what is under way in it.
BasesStand == WorkbooksStand /\ DeskHolds
=============================================================================
