------------------------------ MODULE MCLedger ------------------------------
(* The instance of Ledger that TLC checks: a member and the friend she     *)
(* referred, with an order that skips a tier, one worth less than a point  *)
(* until that tier is reached, and one worth nothing.                      *)
EXTENDS Ledger, TLC

CONSTANTS friend, referrer, big, small, free, ev1, ev2, k1

MCCustomer == {friend, referrer}
MCOrder == {big, small, free}
MCOrderOwner == [o \in MCOrder |-> IF o = free THEN referrer ELSE friend]
MCOrderTotal == [o \in MCOrder |->
                   CASE o = big -> 75000
                     [] o = small -> 50
                     [] OTHER -> 0]
MCEvent == {ev1, ev2}
MCRefundAmount == {30000, 75000}
MCKey == {k1}
MCRewardCost == {500}
MCAdjustment == {-50}
MCLegacy == [c \in {referrer} |-> [points |-> 84, spend |-> 3375]]

(* The webhook ids are interchangeable.                                    *)
EventSymmetry == Permutations(MCEvent)
=============================================================================
