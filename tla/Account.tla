------------------------------ MODULE Account ------------------------------
(***************************************************************************)
(* What the ledger promises its members about points.  A member has a      *)
(* balance, and a purse of points that a debit can take.  Both move alike, *)
(* by exactly what the movement is about: an order earns once and gives    *)
(* back at most what it earned, a redemption is paid out of the purse and  *)
(* repaid at most once and in full, points lapse, and only an operator     *)
(* takes from a balance what stays in the purse.                           *)
(***************************************************************************)
EXTENDS Integers

CONSTANTS
    Member,         \* those who collect points
    Order,          \* what they buy
    Payer,          \* who bought it
    Key,            \* the names of a member's redemptions
    AllowNegative   \* a return is taken from the balance if the purse is short

VARIABLES
    balance,    \* of each member
    purse,      \* what a debit can take of it
    earned,     \* the points an order has brought its payer
    returned,   \* the points an order has given back
    paid,       \* what each redemption cost, 0 before it
    repaid      \* whether it was given back

accounts == <<balance, purse>>
orders == <<earned, returned>>
redemptions == <<paid, repaid>>
vars == <<accounts, orders, redemptions>>

Init ==
    /\ balance = [m \in Member |-> 0]
    /\ purse = [m \in Member |-> 0]
    /\ earned = [o \in Order |-> 0]
    /\ returned = [o \in Order |-> 0]
    /\ paid = [m \in Member |-> [k \in Key |-> 0]]
    /\ repaid = [m \in Member |-> [k \in Key |-> FALSE]]

(* Balance and purse of m move by the same amount, up or down.             *)
Alike(m) == balance'[m] - balance[m] = purse'[m] - purse[m]

Gains(m) == purse'[m] >= purse[m] /\ Alike(m)
Loses(m) == purse'[m] \in 0..purse[m] /\ Alike(m)

(* Only m has n points more, or less if n is negative.                     *)
Moves(m, n) ==
    /\ balance' = [balance EXCEPT ![m] = @ + n]
    /\ purse' = [purse EXCEPT ![m] = @ + n]

(* A bonus, a migrated balance, an operator's gift.                        *)
Receive ==
    /\ UNCHANGED <<orders, redemptions>>
    /\ \A m \in Member : Gains(m)

(* An order is paid: its payer gains what it earns, and others may gain.   *)
Earn(o) ==
    /\ UNCHANGED <<returned, redemptions>>
    /\ earned[o] = 0
    /\ earned' = [earned EXCEPT ![o] = purse'[Payer[o]] - purse[Payer[o]]]
    /\ earned'[o] > 0
    /\ \A m \in Member : Gains(m)

GiveBack(o) ==
    LET more == returned'[o] - returned[o]
    IN  /\ UNCHANGED <<earned, redemptions>>
        /\ more \in 1..(earned[o] - returned[o])
        /\ returned' = [returned EXCEPT ![o] = @ + more]
        /\ IF AllowNegative
           THEN /\ balance' = [balance EXCEPT ![Payer[o]] = @ - more]
                /\ purse' = [purse EXCEPT ![Payer[o]] = purse'[Payer[o]]]
                /\ purse'[Payer[o]] \in 0..purse[Payer[o]]
           ELSE purse[Payer[o]] >= more /\ Moves(Payer[o], -more)

Redeem(m, k) ==
    LET cost == paid'[m][k]
    IN  /\ UNCHANGED <<orders, repaid>>
        /\ paid[m][k] = 0
        /\ cost \in 1..purse[m]
        /\ paid' = [paid EXCEPT ![m][k] = cost]
        /\ Moves(m, -cost)

Repay(m, k) ==
    /\ UNCHANGED <<orders, paid>>
    /\ paid[m][k] > 0
    /\ ~repaid[m][k]
    /\ repaid' = [repaid EXCEPT ![m][k] = TRUE]
    /\ Moves(m, paid[m][k])

Lapse ==
    /\ UNCHANGED <<orders, redemptions>>
    /\ \A m \in Member : Loses(m)

(* An operator takes points; the purse is not asked for them.              *)
Withdraw(m) ==
    /\ UNCHANGED <<purse, orders, redemptions>>
    /\ balance' = [balance EXCEPT ![m] = balance'[m]]
    /\ balance'[m] < balance[m]

Next ==
    \/ Receive
    \/ Lapse
    \/ \E o \in Order : Earn(o) \/ GiveBack(o)
    \/ \E m \in Member : Withdraw(m)
    \/ \E m \in Member, k \in Key : Redeem(m, k) \/ Repay(m, k)

Spec == Init /\ [][Next]_vars
=============================================================================
