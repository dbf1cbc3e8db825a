----------------------------- MODULE MCIsolation -----------------------------
(* The instances of Isolation that TLC checks: a signup lot that matures,  *)
(* the lot of an order, and a lot another order may bring.                 *)
EXTENDS Isolation

CONSTANTS r1, r2, c1, c2, e1, e2, paid, adj, rec

MCKind == [t \in Txn |-> CASE t \in {r1, r2} -> "redeem"
                           [] t \in {c1, c2} -> "clawback"
                           [] t \in {e1, e2} -> "expire"
                           [] t = paid -> "earn"
                           [] t = adj -> "adjust"
                           [] OTHER -> "reconcile"]

MCOriginal == [i \in Lot |-> 4 - i]

MCDesired == [t \in Txn |-> IF t = c1 THEN 2 ELSE 1]

MCSpent == [w \in {"before", "after"} |-> IF w = "before" THEN 20000 ELSE 40000]

MCScenario ==
    {{r1, r2}, {r1, c1, e1}, {c1, c2}, {rec, paid}, {rec, r1, paid}, {rec, adj},
     {rec, c1, e1}, {rec, r1, e1}, {rec, e1, e2}}

(* A refund, two scans and a reconciliation, for what is not kept.         *)
MCBesideScans == {{rec, c1, e1, e2}}
=============================================================================
