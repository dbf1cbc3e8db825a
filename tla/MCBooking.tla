------------------------------ MODULE MCBooking ------------------------------
(* Three requests with one key across the window's end, two operators. *)
EXTENDS Booking, TLC

CONSTANTS h1, h2, h3, s1, s2

Interchangeable == Permutations({h1, h2, h3}) \cup Permutations({s1, s2})
==============================================================================
