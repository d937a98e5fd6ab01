----------------------------- MODULE MCMinHeap -----------------------------
(***************************************************************************)
(* A retry queue of six envelopes whose times lie around 0.                *)
(***************************************************************************)
EXTENDS MinHeap, TLC

CONSTANTS e1, e2, e3, e4, e5, e6

SmallTimes == -3 .. 2

EnvelopeSymmetry == Permutations(Envelopes)
============================================================================
