-------------------------------- MODULE Tier --------------------------------
(***************************************************************************)
(* Membership tiers of the loyalty service: the pure rules every other     *)
(* module relies on.  Money is counted in pence, a tier is its rank        *)
(* (0 bronze, 1 silver, 2 gold, 3 royal_vip), and a multiplier is counted  *)
(* in halves, so that silver's 1.5 is an integer.                          *)
(***************************************************************************)
EXTENDS Integers

TierRank == 0..3

(* The inclusive lower bound of lifetime spend for each tier.              *)
Threshold == [t \in TierRank |->
                CASE t = 0 -> 0
                  [] t = 1 -> 30000
                  [] t = 2 -> 75000
                  [] OTHER -> 150000]

(* Twice the earning multiplier of each tier.                              *)
HalfMultiplier == [t \in TierRank |->
                     CASE t = 0 -> 2
                       [] t = 1 -> 3
                       [] t = 2 -> 4
                       [] OTHER -> 6]

(* The highest tier whose threshold the spend meets.                       *)
DeriveTier(spend) ==
    CHOOSE t \in TierRank :
        /\ Threshold[t] <= spend
        /\ \A u \in TierRank : Threshold[u] <= spend => u <= t

(* Fault: an order promotes by one tier at most.                           *)
AdvanceTierByOne(tier, spend) ==
    IF DeriveTier(spend) > tier THEN tier + 1 ELSE tier

(* A paid order never lowers a retained tier.                              *)
AdvanceTier(tier, spend) ==
    IF DeriveTier(spend) >= tier THEN DeriveTier(spend) ELSE tier

(* floor(total * multiplier): the total is in pence and the multiplier in  *)
(* halves, so the product is divided by 200.                               *)
OrderPoints(total, tier) == (total * HalfMultiplier[tier]) \div 200

(* Whole pounds owed back for a refund at earn rate 1, halves rounded up.  *)
RefundPoints(refund) == (refund + 50) \div 100
=============================================================================
