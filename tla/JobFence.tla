------------------------------ MODULE JobFence ------------------------------
(***************************************************************************)
(* What the run lock promises, without saying how. A run has records in    *)
(* hand; it takes one up, and writes what it found, only while it is the   *)
(* holder of the record's job itself. A run whose job was taken from it    *)
(* may only drop what it has in hand. Everybody else writes results of     *)
(* jobs that no run holds, or takes the job away with the same step.       *)
(* JobRun implements this specification.                                   *)
(***************************************************************************)
CONSTANTS
  Job, Record, JobOf, Run, None,
  Result          \* what a record row may say

VARIABLES
  holder,         \* the run that may write a job's records, or None
  spent,          \* runs that were started, now or before
  doing,          \* how far each run is with each record
  result          \* the records' results

vars == <<holder, spent, doing, result>>

Stage == {"none", "claimed", "analyzing"}

Init ==
  /\ holder = [j \in Job |-> None]
  /\ spent = {}
  /\ doing = [x \in Run |-> [r \in Record |-> "none"]]
  /\ result \in [Record -> Result]

\* The results of the records of other jobs than those of J stay.
Confined(J) ==
  /\ result' \in [Record -> Result]
  /\ \A r \in Record : JobOf[r] \notin J => result'[r] = result[r]

\* Only run x moves, and only with record r.
Moves(x, r) ==
  \E s \in Stage : s # doing[x][r] /\ doing' = [doing EXCEPT ![x][r] = s]

\* A fresh run takes a free job, may reset results as it does, and may begin
\* with one of its records.
Take(x, j) ==
  /\ holder[j] = None
  /\ x \notin spent
  /\ holder' = [holder EXCEPT ![j] = x]
  /\ spent' = spent \cup {x}
  /\ \/ UNCHANGED doing
     \/ \E r \in Record : JobOf[r] = j /\ Moves(x, r)
  /\ Confined({j})

\* The holder takes up a record, goes on with it or ends it, and may write its
\* result as it does.
Write(x, r) ==
  /\ holder[JobOf[r]] = x
  /\ Moves(x, r)
  /\ \E v \in Result : result' = [result EXCEPT ![r] = v]
  /\ UNCHANGED <<holder, spent>>

\* Any run may drop a record, and then writes nothing.
Drop(x, r) ==
  /\ doing[x][r] # "none"
  /\ doing' = [doing EXCEPT ![x][r] = "none"]
  /\ UNCHANGED <<holder, spent, result>>

\* The holder gives the lock back with nothing in hand, and no result changes.
GiveBack(x, j) ==
  /\ holder[j] = x
  /\ \A r \in Record : doing[x][r] = "none"
  /\ holder' = [holder EXCEPT ![j] = None]
  /\ UNCHANGED <<spent, doing, result>>

\* Recovery or deletion frees jobs whatever their holder is doing.
Revoke(J) ==
  /\ holder' = [j \in Job |-> IF j \in J THEN None ELSE holder[j]]
  /\ Confined(J)
  /\ UNCHANGED <<spent, doing>>

\* A person decides about a record, or the import brings the records, of a job
\* that no run holds.
Decide(j) ==
  /\ holder[j] = None
  /\ Confined({j})
  /\ UNCHANGED <<holder, spent, doing>>

\* The process dies: what the runs had in hand is lost and nothing is written.
Die ==
  /\ doing' = [x \in Run |-> [r \in Record |-> "none"]]
  /\ UNCHANGED <<holder, spent, result>>

Next ==
  \/ \E x \in Run, j \in Job : Take(x, j) \/ GiveBack(x, j)
  \/ \E x \in Run, r \in Record : Write(x, r) \/ Drop(x, r)
  \/ \E j \in Job : Decide(j)
  \/ \E J \in SUBSET Job : Revoke(J)
  \/ Die

Spec == Init /\ [][Next]_vars
=============================================================================
