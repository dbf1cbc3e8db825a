------------------------------ MODULE MCWebhook ------------------------------
(* The instances of Webhook that TLC checks: an order paid, the same order *)
(* under another webhook id, its refund, and an order worth no point.      *)
EXTENDS Webhook

CONSTANTS paid, again, refund, tiny

MCKind == [e \in Event |-> CASE e \in {paid, again} -> "earn"
                             [] e = refund -> "clawback"
                             [] e = tiny -> "trifle"]

MCSubject == [e \in Event |-> IF e = tiny THEN "small order" ELSE "order"]

(* Every event once, but the order is sent twice under its first id.       *)
TwiceUnderOneId == [e \in Event |-> IF e = paid THEN 2 ELSE 1]

(* What races: two copies of one event, two events about one order, an     *)
(* order and its refund; and an order worth no point, by itself.           *)
Pairs ==
    {{<<paid, 1>>, <<paid, 2>>}, {<<paid, 1>>, <<again, 1>>},
     {<<paid, 1>>, <<refund, 1>>}, {<<tiny, 1>>}}

PaidTwice == {{<<paid, 1>>, <<paid, 2>>}}
=============================================================================
