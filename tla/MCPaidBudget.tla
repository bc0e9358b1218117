---------------------------- MODULE MCPaidBudget ----------------------------
(* Two batches, the first with two routes, over the end of a month. *)
EXTENDS PaidBudget

RouteBatch == [r \in Route |-> IF r = "r3" THEN "b2" ELSE "b1"]
Limits == [b \in Batch |-> IF b = "b1" THEN 4 ELSE 3]
Months == [d \in Day |-> IF d = LastDay THEN 2 ELSE 1]
=============================================================================
