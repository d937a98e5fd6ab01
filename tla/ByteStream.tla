----------------------------- MODULE ByteStream -----------------------------
(***************************************************************************)
(* What a stream promises its reader: the bytes of a source that is still  *)
(* growing, each once and no more than the reader asks for, and the end of *)
(* it only when the source has ended and everything was handed out.  There *)
(* is no buffer.  A stream may break; nothing is promised from then on.    *)
(***************************************************************************)
EXTENDS Naturals

VARIABLES
  available, \* how many bytes the source has given
  ended,     \* whether it will give no more
  taken,     \* how many of them the reader has been given
  asked,     \* how many it asks for, 0 when it does not read
  eof,       \* whether the reader was told of the end
  broken

vars == <<available, ended, taken, asked, eof, broken>>

Init ==
  /\ available = 0 /\ ended = FALSE
  /\ taken = 0 /\ asked = 0 /\ eof = FALSE /\ broken = FALSE

Grow ==
  /\ ~ended
  /\ available' \in Nat /\ available' > available
  /\ UNCHANGED <<ended, taken, asked, eof>>

End == ~ended /\ ended' = TRUE /\ UNCHANGED <<available, taken, asked, eof>>

Ask ==
  /\ asked = 0
  /\ asked' \in Nat
  /\ UNCHANGED <<available, ended, taken, eof>>

Take ==
  /\ asked > 0
  /\ taken' \in taken + 1 .. available
  /\ taken' - taken <= asked
  /\ asked' = 0
  /\ UNCHANGED <<available, ended, eof>>

TellEnd ==
  /\ asked > 0 /\ ended /\ taken = available
  /\ eof' = TRUE
  /\ asked' = 0
  /\ UNCHANGED <<available, ended, taken>>

\* The read fails.
GiveUp == asked > 0 /\ asked' = 0 /\ UNCHANGED <<available, ended, taken, eof>>

\* A read that asks for nothing gets nothing, and takes that for the end.
ReadNothing ==
  /\ asked = 0
  /\ eof' = TRUE
  /\ UNCHANGED <<available, ended, taken, asked>>

Works ==
  /\ ~broken /\ UNCHANGED broken
  /\ Grow \/ End \/ Ask \/ Take \/ TellEnd \/ GiveUp \/ ReadNothing

Next == Works \/ broken' = TRUE

Spec == Init /\ [][Next]_vars
=============================================================================
