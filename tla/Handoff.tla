------------------------------ MODULE Handoff ------------------------------
(***************************************************************************)
(* What TConcurrentQueue and TWaiter of http.bmx promise together: calls   *)
(* are taken in the order they were accepted, each by one thread; one that *)
(* is answered is answered once, and returns only then.  There are no      *)
(* locks, no signals and nobody sleeps.                                    *)
(***************************************************************************)
EXTENDS Naturals, Sequences

CONSTANT Calls

VARIABLES queue, closed, status

vars == <<queue, closed, status>>

Init ==
  /\ queue = <<>>
  /\ closed = FALSE
  /\ status = [c \in Calls |-> "idle"]

Accept(c) ==
  /\ status[c] = "idle" /\ ~closed
  /\ queue' = Append(queue, c)
  /\ status' = [status EXCEPT ![c] = "queued"]
  /\ UNCHANGED closed

Refuse(c) ==
  /\ status[c] = "idle" /\ closed
  /\ status' = [status EXCEPT ![c] = "refused"]
  /\ UNCHANGED <<queue, closed>>

Take(c) ==
  /\ queue # <<>> /\ c = Head(queue)
  /\ queue' = Tail(queue)
  /\ status' = [status EXCEPT ![c] = "taken"]
  /\ UNCHANGED closed

Answer(c) ==
  /\ status[c] = "taken"
  /\ status' = [status EXCEPT ![c] = "answered"]
  /\ UNCHANGED <<queue, closed>>

Return(c) ==
  /\ status[c] = "answered"
  /\ status' = [status EXCEPT ![c] = "returned"]
  /\ UNCHANGED <<queue, closed>>

Close ==
  /\ closed' = TRUE
  /\ UNCHANGED <<queue, status>>

Next ==
  \/ \E c \in Calls : Accept(c) \/ Refuse(c) \/ Take(c) \/ Answer(c) \/ Return(c)
  \/ Close

Spec == Init /\ [][Next]_vars
=============================================================================
