---------------------------- MODULE MCRedemption ----------------------------
(* The instance of Redemption that TLC checks: a request and its retry.    *)
EXTENDS Redemption

CONSTANTS first, retry

MCRequest == {first, retry}
=============================================================================
