------------------------------ MODULE MCJobRun ------------------------------
(* Small instances of JobRun for TLC. *)
EXTENDS JobRun, TLC

CONSTANT j1

OneJob == {j1}

\* its three records, or two
ThreeRecords == 1 .. 3
AllOfOne == [r \in ThreeRecords |-> j1]
TwoRecords == 1 .. 2
BothOfOne == [r \in TwoRecords |-> j1]

Tokens == Permutations(Run)
=============================================================================
