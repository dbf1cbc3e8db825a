----------------------------- MODULE Settlement -----------------------------
(***************************************************************************)
(* What a redemption promises its customer: the points are spent once, and *)
(* then either a discount code is handed over or the points come back.     *)
(* Only a job handler that outlived its delivery (late) may add the other  *)
(* outcome to the one already reached.                                     *)
(***************************************************************************)
VARIABLES
    spent,      \* the cost has been debited
    coded,      \* a code has been handed over
    returned,   \* the cost has been credited back
    late        \* a handler has outlived its delivery

vars == <<spent, coded, returned, late>>

Init == ~spent /\ ~coded /\ ~returned /\ ~late

Spend ==
    /\ ~spent
    /\ spent' = TRUE
    /\ UNCHANGED <<coded, returned, late>>

HandOver ==
    /\ spent
    /\ returned => late
    /\ coded' = TRUE
    /\ UNCHANGED <<spent, returned, late>>

GiveBack ==
    /\ spent
    /\ coded => late
    /\ returned' = TRUE
    /\ UNCHANGED <<spent, coded, late>>

Outlive ==
    /\ late' = TRUE
    /\ UNCHANGED <<spent, coded, returned>>

Next == Spend \/ HandOver \/ GiveBack \/ Outlive

Spec == Init /\ [][Next]_vars
=============================================================================
