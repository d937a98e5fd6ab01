---------------------------- MODULE MCMultiLoop ----------------------------
(***************************************************************************)
(* Three transfers that compete for one connection, for TLC.               *)
(***************************************************************************)
EXTENDS MultiLoop, TLC
=============================================================================
