--------------------------- MODULE MCHttpsStream ---------------------------
(***************************************************************************)
(* A body of a few bytes, for TLC.                                         *)
(***************************************************************************)
EXTENDS HttpsStream, TLC
=============================================================================
