--------------------------- MODULE MCConfiguration ---------------------------
(* What the analyses run with, in small instances for TLC: the routing of     *)
(* calls over the model pool, the catalogue of the pool, the budget of paid   *)
(* tokens, the versions of a section and the upgrades that publish some, and  *)
(* the accounts and sessions of those who configure.  They have no variable   *)
(* in common and are checked side by side: a behaviour is one of one part.    *)
EXTENDS ModelRouting, ModelCatalog, MCPaidBudget, SectionVersions, Upgrades, Identity, TLC

CONSTANTS p1, qa, qb, f1, f2, k1, k2

VARIABLE part

\* routing: three members, two of one provider and a legacy one
Members == 1 .. 3
Shared == [m \in Members |-> IF m = 3 THEN None ELSE p1]
Ranking == [m \in Members |-> IF m = 1 THEN 1 ELSE 2]

\* the catalogue of a provider: a text and a vision model
Models == {qa, qb}
Kinds == (qa :> "text") @@ (qb :> "vision")

\* the baseline of a section
OneField == f1 :> [key |-> k1, on |-> TRUE, deps |-> {}]

ConfInit ==
  /\ part \in {"routing", "catalog", "budget", "versions", "upgrades", "identity"}
  /\ RouteInit /\ CatInit /\ Init /\ VerInit /\ UpgradeInit /\ IdInit
  /\ part # "upgrades" => ~store.section

ConfNext ==
  /\ UNCHANGED part
  /\ \/ part = "routing" /\ RouteNext /\ UNCHANGED <<catVars, vars, verVars, upgradeVars, idVars>>
     \/ part = "catalog" /\ CatNext /\ UNCHANGED <<routeVars, vars, verVars, upgradeVars, idVars>>
     \/ part = "budget" /\ Next /\ UNCHANGED <<routeVars, catVars, verVars, upgradeVars, idVars>>
     \/ part = "versions" /\ VerNext /\ UNCHANGED <<routeVars, catVars, vars, upgradeVars, idVars>>
     \/ part = "upgrades" /\ UpgradeNext /\ UNCHANGED <<routeVars, catVars, vars, verVars, idVars>>
     \/ part = "identity" /\ IdNext
          /\ UNCHANGED <<routeVars, catVars, vars, verVars, upgradeVars>>

ConfSpec == ConfInit /\ [][ConfNext]_<<part, routeVars, catVars, vars, verVars, upgradeVars, idVars>>
=============================================================================
