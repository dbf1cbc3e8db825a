------------------------------ MODULE MCDueWork ------------------------------
(* Two jobs, and two lots: one that expires within the window, one past it. *)
EXTENDS DueWork

CONSTANTS expiry, reconcile, p1, p2, h1, h2

MCLife == [l \in Lot |-> IF l = 1 THEN 2 ELSE 5]
MCPoints == [l \in Lot |-> 1]
=============================================================================
