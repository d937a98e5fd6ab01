--------------------------- MODULE TransferStack ---------------------------
(***************************************************************************)
(* What the client of http.bmx takes for granted of curl's multi stack:    *)
(* each transfer that is put on it ends, its end is reported once, and     *)
(* nothing is reported of a transfer that was taken off.  There are no     *)
(* connections, no limits and no sets to move a transfer between.          *)
(***************************************************************************)
EXTENDS Naturals

CONSTANT Transfers

VARIABLES status, reports

vars == <<status, reports>>

Init ==
  /\ status = [t \in Transfers |-> "off"]
  /\ reports = [t \in Transfers |-> 0]

Goes(t, from, to) ==
  /\ status[t] \in from
  /\ status' = [status EXCEPT ![t] = to]

Add(t)    == Goes(t, {"off"}, "running") /\ UNCHANGED reports
End(t)    == Goes(t, {"running"}, "ended") /\ UNCHANGED reports
Remove(t) == Goes(t, {"running", "ended", "reported"}, "removed") /\ UNCHANGED reports

Report(t) ==
  /\ Goes(t, {"ended"}, "reported")
  /\ reports' = [reports EXCEPT ![t] = 1]

Next == \E t \in Transfers : Add(t) \/ End(t) \/ Report(t) \/ Remove(t)

Spec == Init /\ [][Next]_vars
=============================================================================
