---------------------------- MODULE MCMetafields ----------------------------
(* Two changes that ask for a refresh and the expiry scan's, which does not. *)
EXTENDS Metafields

CONSTANTS paid, adjusted, expired, worker, daily
=============================================================================
