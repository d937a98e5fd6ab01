--------------------------- MODULE MCWaiterQueue ---------------------------
(***************************************************************************)
(* Senders, two workers that sleep and one that polls, for TLC.            *)
(***************************************************************************)
EXTENDS WaiterQueue, TLC

CONSTANTS c1, c2, w1, w2, p1
=============================================================================
