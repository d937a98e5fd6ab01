----------------------------- MODULE MultiLoop -----------------------------
(***************************************************************************)
(* The loop of THttpClient.Run (http.bmx) around libcurl's multi interface *)
(* (CurlMulti) and the threads that submit to it: what the loop does with  *)
(* one transfer at a time, from the submission queue to curl and back, and *)
(* whether it can sleep over work.  Retries are transfers of their own.    *)
(* An application of TCurlMulti's may also take an unfinished transfer off *)
(* the stack; the client never does.                                       *)
(***************************************************************************)
EXTENDS CurlMulti

CONSTANT Cancellable \* transfers an application may take off unfinished

ASSUME CancellableAssumption == Cancellable \subseteq 1 .. N

VARIABLES
  pc,       \* where the loop is
  cur,      \* the transfer whose message was read, or 0
  inQueue,  \* what was submitted and not drained
  caller,   \* where the thread that submits a transfer is
  reports   \* how many messages were read for a transfer

loopVars == <<pc, cur, inQueue, caller, reports>>
vars == <<multiVars, loopVars>>

TypeOK ==
  /\ MultiTypeOK
  /\ pc \in {"drain", "perform", "poll", "info", "remove"}
  /\ cur \in 0 .. N
  /\ inQueue \in Seq(Transfers)
  /\ caller \in [Transfers -> {"idle", "waking", "returned"}]
  /\ reports \in [Transfers -> Nat]

Init ==
  /\ MultiInit
  /\ pc = "drain" /\ cur = 0 /\ inQueue = <<>>
  /\ caller = [t \in Transfers |-> "idle"]
  /\ reports = [t \in Transfers |-> 0]

----------------------------------------------------------------------------
\* Submit on the thread of a user: the push, and then the wake-up.
Submit(t) ==
  /\ caller[t] = "idle"
  /\ caller' = [caller EXCEPT ![t] = "waking"]
  /\ inQueue' = Append(inQueue, t)
  /\ UNCHANGED <<multiVars, pc, cur, reports>>

SubmitWakes(t) ==
  /\ caller[t] = "waking"
  /\ caller' = [caller EXCEPT ![t] = "returned"]
  /\ Wakeup
  /\ UNCHANGED <<pc, cur, inQueue, reports>>

----------------------------------------------------------------------------
\* The loop: the queue is drained onto the stack, ...
DrainQueue ==
  /\ pc = "drain" /\ inQueue # <<>>
  /\ AddHandle(Head(inQueue))
  /\ inQueue' = Tail(inQueue)
  /\ UNCHANGED <<pc, cur, caller, reports>>

Cancel(t) ==
  /\ pc \in {"drain", "info"} /\ t \in Cancellable
  /\ RemoveHandle(t)
  /\ UNCHANGED loopVars

QueueDrained ==
  /\ pc = "drain" /\ inQueue = <<>>
  /\ PerformBegin
  /\ pc' = "perform"
  /\ UNCHANGED <<cur, inQueue, caller, reports>>

\* ... multiPerform ...
MultiPerform == PerformStep /\ UNCHANGED loopVars

MultiPerformReturns ==
  /\ PerformEnd
  /\ pc' = "poll"
  /\ UNCHANGED <<cur, inQueue, caller, reports>>

\* ... multiPoll ...
MultiPoll ==
  /\ pc = "poll"
  /\ \/ PollBegin
     \/ PollReturns
     \/ DrainEnd
  /\ pc' = IF phase' = "app" THEN "info" ELSE "poll"
  /\ UNCHANGED <<cur, inQueue, caller, reports>>

MultiPollWoken == (PollWoken \/ DrainRead) /\ UNCHANGED loopVars

\* ... and the messages, each with the removal of its handle.
MultiInfoRead ==
  /\ pc = "info" /\ msglist # <<>>
  /\ LET t == Head(msglist) IN
       /\ InfoRead(t)
       /\ cur' = t
       /\ reports' = [reports EXCEPT ![t] = @ + 1]
  /\ pc' = "remove"
  /\ UNCHANGED <<inQueue, caller>>

MultiRemove ==
  /\ pc = "remove"
  /\ RemoveHandle(cur)
  /\ pc' = "info" /\ cur' = 0
  /\ UNCHANGED <<inQueue, caller, reports>>

MessagesRead ==
  /\ pc = "info" /\ msglist = <<>>
  /\ pc' = "drain"
  /\ UNCHANGED <<multiVars, cur, inQueue, caller, reports>>

Run ==
  \/ DrainQueue \/ QueueDrained \/ MultiPerform \/ MultiPerformReturns
  \/ MultiPoll \/ MultiPollWoken \/ MultiInfoRead \/ MultiRemove \/ MessagesRead

Next ==
  \/ \E t \in Transfers : Submit(t) \/ SubmitWakes(t) \/ Cancel(t)
  \/ Run

Spec == Init /\ [][Next]_vars

\* The loop goes on and a submitting thread finishes.  A transfer that is run
\* again and again in a state leaves it, for the next one or with an error: its
\* server answers or its time limit passes, and curl follows a bounded number of
\* redirects.
Advances(A, t, state) == A /\ mstate'[t] # state /\ UNCHANGED loopVars

Fairness ==
  /\ WF_vars(Run)
  /\ \A t \in Transfers :
       /\ WF_vars(SubmitWakes(t))
       /\ SF_vars(Advances(Connecting(t), t, "CONNECTING"))
       /\ SF_vars(Advances(Performing(t), t, "PERFORMING"))

FairSpec == Spec /\ Fairness

----------------------------------------------------------------------------
(* Properties.                                                             *)

\* The loop never sleeps over work: while it sleeps in multiPoll with nothing
\* to wake it, whatever is in the submission queue has its wake-up on the way,
\* and no transfer waits for a connection that is free.
NoSleepOverWork ==
  phase = "asleep" /\ bytes = 0 =>
    /\ \A i \in 1 .. Len(inQueue) : caller[inQueue[i]] = "waking"
    /\ pending # {} => ~ConnectionAvailable
    /\ dirty = {}

Status(t) ==
  IF mstate[t] = "off"
  THEN IF caller[t] # "idle" /\ \A i \in 1 .. Len(inQueue) : inQueue[i] # t
       THEN "removed" ELSE "off"
  ELSE IF reports[t] > 0 THEN "reported"
  ELSE IF mstate[t] = "MSGSENT" THEN "ended" ELSE "running"

Stack == INSTANCE TransferStack WITH
  status <- [t \in Transfers |-> Status(t)]

\* The loop and libcurl together give the client the stack it relies on.
ImplementsStack == Stack!Spec

\* Whatever was submitted is reported or taken off in the end, also when it has
\* to wait for a connection: again and again nothing is left to be done.
EverySubmissionReported ==
  []<>(\A t \in Transfers :
         caller[t] = "idle" \/ Status(t) \in {"reported", "removed"})
=============================================================================
