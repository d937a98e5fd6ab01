----------------------------- MODULE CurlMulti -----------------------------
(***************************************************************************)
(* The multi interface of libcurl (multi.c) as net.mod uses it: the sets a *)
(* transfer moves between, the connections transfers wait for when their   *)
(* number is limited, the completion messages, the sleep in                *)
(* curl_multi_poll and the wake-ups other threads send it.                 *)
(*                                                                         *)
(* A transfer is named by its mid, its key in multi->xfers; new transfers  *)
(* may get any free one.  Connections are HTTP/1's, which serve one        *)
(* transfer at a time.  Between the calls of the thread that owns the      *)
(* multi handle phase is "app"; inside curl_multi_perform one turn of the  *)
(* loop of multi_runsingle is one step.                                    *)
(***************************************************************************)
EXTENDS Naturals, Sequences, FiniteSets

CONSTANTS N,            \* mids are 1 .. N
          Limit,        \* max_total_connections, 0 for none
          PairCapacity, \* bytes the wakeup socket pair holds
          ReadSize      \* bytes the poll reads from it at a time

ASSUME SizesAssumption ==
  N \in Nat /\ Limit \in Nat /\ PairCapacity \in Nat \ {0} /\ ReadSize \in Nat \ {0}

Transfers == 1 .. N

VARIABLES
  mstate,  \* data->mstate, "off" for an easy handle not on the stack
  process, pending, dirty, msgsent, \* sets of mids
  alive,   \* multi->xfers_alive
  msglist, \* the messages curl_multi_info_read has not returned
  conn,    \* the transfers with a connection attached (data->conn)
  late,    \* the transfers whose time limit has passed
  phase,   \* where the thread that owns the multi handle is
  cursor,  \* the mid curl_multi_perform runs or has just run
  bytes    \* what is in the wakeup socket pair

setVars   == <<process, pending, dirty, msgsent, alive>>
multiVars == <<mstate, setVars, msglist, conn, late, phase, cursor, bytes>>

\* CONNECTING stands for all states from RESOLVING to DID, in which the
\* connection is made and the request sent, PERFORMING for RATELIMITING too.
MStates == {"off", "INIT", "PENDING", "SETUP", "CONNECT", "CONNECTING",
            "PERFORMING", "DONE", "MSGSENT"}

OnStack == {t \in Transfers : mstate[t] # "off"}

MultiTypeOK ==
  /\ mstate \in [Transfers -> MStates]
  /\ process \subseteq Transfers /\ pending \subseteq Transfers
  /\ dirty \subseteq Transfers /\ msgsent \subseteq Transfers
  /\ alive \in Nat
  /\ msglist \in Seq(Transfers)
  /\ conn \subseteq Transfers /\ late \subseteq Transfers
  /\ phase \in {"app", "walk", "run", "asleep", "drain"}
  /\ cursor \in 0 .. N
  /\ phase = "run" => cursor \in Transfers
  /\ bytes \in 0 .. PairCapacity

MultiInit ==
  /\ mstate = [t \in Transfers |-> "off"]
  /\ process = {} /\ pending = {} /\ dirty = {} /\ msgsent = {}
  /\ alive = 0 /\ msglist = <<>>
  /\ conn = {} /\ late = {}
  /\ phase = "app" /\ cursor = 0 /\ bytes = 0

----------------------------------------------------------------------------
(* Connections.                                                            *)

\* Curl_cpool_check_limits: idle connections are closed to make room, so only
\* those in use count.
ConnectionAvailable == Limit = 0 \/ Cardinality(conn) < Limit

\* The transfers k calls of process_pending_handles move out of p: each moves
\* the one with the lowest mid.
Woken(p, k) == {t \in p : Cardinality({u \in p : u < t}) < k}

\* move_pending_to_connect for the transfers in w, while t (0: nobody) changes to
\* state s.
WokenAnd(w, t, s) ==
  [u \in Transfers |-> IF u = t THEN s ELSE IF u \in w THEN "CONNECT" ELSE mstate[u]]

----------------------------------------------------------------------------
(* The calls of the application.                                           *)

\* curl_multi_add_handle.
AddHandle(t) ==
  /\ phase = "app" /\ mstate[t] = "off"
  /\ mstate' = [mstate EXCEPT ![t] = "INIT"]
  /\ process' = process \cup {t}
  /\ dirty' = dirty \cup {t}
  /\ alive' = alive + 1
  /\ UNCHANGED <<pending, msgsent, msglist, conn, late, phase, cursor, bytes>>

\* msglist without the first message of t, after which the code stops looking.
Unlisted(t) ==
  LET first == {i \in 1 .. Len(msglist) :
                  msglist[i] = t /\ \A j \in 1 .. i - 1 : msglist[j] # t}
  IN  IF first = {} THEN msglist
      ELSE [j \in 1 .. Len(msglist) - 1 |->
              IF \E i \in first : j < i THEN msglist[j] ELSE msglist[j + 1]]

\* Mutants: the count is taken down for a transfer that is over; the message of
\* the handle stays in the list; the pending transfers are not looked at after
\* the handle has gone.
RemoveDeductsTwice(t) ==
  /\ phase = "app" /\ t \in OnStack
  /\ \E k \in IF t \in conn THEN {1, 2} ELSE {1} :
       LET w == Woken(pending \ {t}, k) IN
         /\ mstate' = WokenAnd(w, t, "off")
         /\ process' = (process \cup w) \ {t}
         /\ dirty' = (dirty \cup w) \ {t}
         /\ pending' = pending \ (w \cup {t})
  /\ msgsent' = msgsent \ {t}
  /\ alive' = alive - 1
  /\ msglist' = Unlisted(t)
  /\ conn' = conn \ {t} /\ late' = late \ {t}
  /\ UNCHANGED <<phase, cursor, bytes>>

RemoveKeepsMessage(t) ==
  /\ phase = "app" /\ t \in OnStack
  /\ \E k \in IF t \in conn THEN {1, 2} ELSE {1} :
       LET w == Woken(pending \ {t}, k) IN
         /\ mstate' = WokenAnd(w, t, "off")
         /\ process' = (process \cup w) \ {t}
         /\ dirty' = (dirty \cup w) \ {t}
         /\ pending' = pending \ (w \cup {t})
  /\ msgsent' = msgsent \ {t}
  /\ alive' = IF t \in msgsent THEN alive ELSE alive - 1
  /\ conn' = conn \ {t} /\ late' = late \ {t}
  /\ UNCHANGED <<msglist, phase, cursor, bytes>>

RemoveWakesNobody(t) ==
  /\ phase = "app" /\ t \in OnStack
  /\ mstate' = [mstate EXCEPT ![t] = "off"]
  /\ process' = process \ {t} /\ dirty' = dirty \ {t}
  /\ pending' = pending \ {t} /\ msgsent' = msgsent \ {t}
  /\ alive' = IF t \in msgsent THEN alive ELSE alive - 1
  /\ msglist' = Unlisted(t)
  /\ conn' = conn \ {t} /\ late' = late \ {t}
  /\ UNCHANGED <<phase, cursor, bytes>>

\* curl_multi_remove_handle.  A transfer with a connection goes through
\* multi_done, which looks at the pending transfers too, unless it was called
\* before.
RemoveHandle(t) ==
  /\ phase = "app" /\ t \in OnStack
  /\ \E k \in IF t \in conn THEN {1, 2} ELSE {1} :
       LET w == Woken(pending \ {t}, k) IN
         /\ mstate' = WokenAnd(w, t, "off")
         /\ process' = (process \cup w) \ {t}
         /\ dirty' = (dirty \cup w) \ {t}
         /\ pending' = pending \ (w \cup {t})
  /\ msgsent' = msgsent \ {t}
  /\ alive' = IF t \in msgsent THEN alive ELSE alive - 1
  /\ msglist' = Unlisted(t)
  /\ conn' = conn \ {t} /\ late' = late \ {t}
  /\ UNCHANGED <<phase, cursor, bytes>>

\* curl_multi_info_read, which returns the message of t.
InfoRead(t) ==
  /\ phase = "app" /\ msglist # <<>> /\ t = Head(msglist)
  /\ msglist' = Tail(msglist)
  /\ UNCHANGED <<mstate, setVars, conn, late, phase, cursor, bytes>>

----------------------------------------------------------------------------
(* curl_multi_perform: the walk over the process set.                      *)

PerformBegin ==
  /\ phase = "app"
  /\ phase' = "walk" /\ cursor' = 0
  /\ UNCHANGED <<mstate, setVars, msglist, conn, late, bytes>>

Ahead == {t \in process : t > cursor}

\* multi_runsingle is entered for the next transfer of the process set.
RunBegin ==
  /\ phase = "walk" /\ Ahead # {}
  /\ \E t \in Ahead :
       /\ \A u \in Ahead : t <= u
       /\ cursor' = t
       /\ dirty' = dirty \ {t}
  /\ phase' = "run"
  /\ UNCHANGED <<mstate, process, pending, msgsent, alive, msglist, conn, late, bytes>>

\* A connection was closed, and the next turn of a loop or the end of the walk
\* finds multi_ischanged true.
ConnChanged ==
  /\ phase \in {"walk", "run"} /\ pending # {}
  /\ LET w == Woken(pending, 1) IN
       /\ mstate' = WokenAnd(w, 0, "off")
       /\ process' = process \cup w
       /\ dirty' = dirty \cup w
       /\ pending' = pending \ w
  /\ UNCHANGED <<msgsent, alive, msglist, conn, late, phase, cursor, bytes>>

\* The walk is over.  A pending transfer whose time is up goes back to CONNECT,
\* where it will time out.
PerformEnd ==
  /\ phase = "walk" /\ Ahead = {}
  /\ LET w == pending \cap late IN
       /\ mstate' = WokenAnd(w, 0, "off")
       /\ process' = process \cup w
       /\ dirty' = dirty \cup w
       /\ pending' = pending \ w
  /\ phase' = "app" /\ cursor' = 0
  /\ UNCHANGED <<msgsent, alive, msglist, conn, late, bytes>>

----------------------------------------------------------------------------
(* multi_runsingle: one turn of its loop for the transfer t.               *)

Runs(t, states) == phase = "run" /\ cursor = t /\ mstate[t] \in states

TimedStates == {"CONNECT", "CONNECTING", "PERFORMING"}

\* The turn comes to the state's own code: the time limit has not passed.
InTime(t, states) == Runs(t, states) /\ t \notin late

\* Mutant: the transfer stays among the running ones.
NotDeducted(t, k) ==
  LET w == Woken(pending, k) IN
    /\ mstate' = WokenAnd(w, t, "MSGSENT")
    /\ process' = (process \cup w) \ {t}
    /\ dirty' = (dirty \cup w) \ {t}
    /\ pending' = pending \ w
    /\ msgsent' = msgsent \cup {t}
    /\ msglist' = Append(msglist, t)
    /\ conn' = conn \ {t}
    /\ phase' = "walk"
    /\ UNCHANGED <<alive, late, cursor, bytes>>

\* The transfer is COMPLETED, after process_pending_handles was called k
\* times: it has no connection any more, its message goes into the list, and
\* it becomes MSGSENT.
Complete(t, k) ==
  LET w == Woken(pending, k) IN
    /\ mstate' = WokenAnd(w, t, "MSGSENT")
    /\ process' = (process \cup w) \ {t}
    /\ dirty' = (dirty \cup w) \ {t}
    /\ pending' = pending \ w
    /\ msgsent' = msgsent \cup {t}
    /\ alive' = alive - 1
    /\ msglist' = Append(msglist, t)
    /\ conn' = conn \ {t}
    /\ phase' = "walk"
    /\ UNCHANGED <<late, cursor, bytes>>

\* An error: multi_done, for a transfer with a connection and unless it was
\* called before, and then the error handling at the end of the turn both look
\* at the pending transfers.
Fails(t) == \E k \in IF t \in conn THEN {1, 2} ELSE {1} : Complete(t, k)

\* multi_handle_timeout.
TimesOut(t) == Runs(t, TimedStates) /\ t \in late /\ Fails(t)

\* The transfer goes to state s, keeping its connection if it has one, and
\* runs on or waits for the next curl_multi_perform.
GoesTo(t, s, next) ==
  /\ mstate' = [mstate EXCEPT ![t] = s]
  /\ phase' = next
  /\ UNCHANGED <<setVars, msglist, conn, late, cursor, bytes>>

\* MSTATE_INIT: Curl_pretransfer fails, or the transfer is set up.
PretransferFails(t) == Runs(t, {"INIT"}) /\ Complete(t, 1)

SetUp(t) == Runs(t, {"INIT", "SETUP"}) /\ GoesTo(t, "CONNECT", "run")

\* state_connect: no connection is available, and the turn is over.  (When a
\* connection changed in it the code may wake the transfer and turn once more;
\* here ConnChanged wakes it, and it runs in the next curl_multi_perform.) ...
GoesPending(t) ==
  /\ InTime(t, {"CONNECT"}) /\ ~ConnectionAvailable
  /\ mstate' = [mstate EXCEPT ![t] = "PENDING"]
  /\ process' = process \ {t}
  /\ dirty' = dirty \ {t}
  /\ pending' = pending \cup {t}
  /\ phase' = "walk"
  /\ UNCHANGED <<msgsent, alive, msglist, conn, late, cursor, bytes>>

\* ... or there is one, and the name is looked up next; another pending
\* transfer may try its luck ...
Connects(t) ==
  /\ InTime(t, {"CONNECT"}) /\ ConnectionAvailable
  /\ LET w == Woken(pending, 1) IN
       /\ mstate' = WokenAnd(w, t, "CONNECTING")
       /\ process' = process \cup w
       /\ dirty' = dirty \cup w
       /\ pending' = pending \ w
  /\ conn' = conn \cup {t}
  /\ phase' \in {"run", "walk"}
  /\ UNCHANGED <<msgsent, alive, msglist, late, cursor, bytes>>

\* ... or Curl_connect fails, before or after the limit is looked at.
ConnectFails(t) == InTime(t, {"CONNECT"}) /\ Complete(t, 2)

\* The connection is made and the request sent: not yet, done, or an error.
Connecting(t) ==
  /\ InTime(t, {"CONNECTING"})
  /\ GoesTo(t, "CONNECTING", "walk") \/ GoesTo(t, "PERFORMING", "run") \/ Fails(t)

\* Another request is needed, for a redirect or because a connection that was
\* reused turned out to be dead: multi_done, and back to SETUP.
Again(t) ==
  /\ InTime(t, {"CONNECTING", "PERFORMING"})
  /\ LET w == Woken(pending, 1) IN
       /\ mstate' = WokenAnd(w, t, "SETUP")
       /\ process' = process \cup w
       /\ dirty' = dirty \cup w
       /\ pending' = pending \ w
  /\ conn' = conn \ {t}
  /\ UNCHANGED <<msgsent, alive, msglist, late, phase, cursor, bytes>>

\* state_performing: more to come, all done, or an error.
Performing(t) ==
  /\ InTime(t, {"PERFORMING"})
  /\ GoesTo(t, "PERFORMING", "walk") \/ GoesTo(t, "DONE", "run") \/ Fails(t)

\* MSTATE_DONE: multi_done.
Done(t) == Runs(t, {"DONE"}) /\ Complete(t, 1)

RunSingle(t) ==
  \/ PretransferFails(t) \/ SetUp(t) \/ TimesOut(t)
  \/ GoesPending(t) \/ Connects(t) \/ ConnectFails(t)
  \/ Connecting(t) \/ Again(t) \/ Performing(t) \/ Done(t)

\* Curl's own steps inside curl_multi_perform, but for the last.
PerformStep == RunBegin \/ ConnChanged \/ \E t \in Transfers : RunSingle(t)

----------------------------------------------------------------------------
(* curl_multi_poll and curl_multi_wakeup.                                  *)

\* multi_wait, up to the wait: with a byte in the pair it goes on to read it,
\* and it does not wait when a dirty transfer is to be run (multi_timeout).
PollBegin ==
  /\ phase = "app"
  /\ dirty' = dirty \cap process
  /\ phase' = IF bytes > 0 THEN "drain"
              ELSE IF dirty \cap process # {} THEN "app" ELSE "asleep"
  /\ UNCHANGED <<mstate, process, pending, msgsent, alive, msglist, conn, late,
                 cursor, bytes>>

\* A byte has come.
PollWoken ==
  /\ phase = "asleep" /\ bytes > 0
  /\ phase' = "drain"
  /\ UNCHANGED <<mstate, setVars, msglist, conn, late, cursor, bytes>>

\* A socket is ready or time has passed, with it the limit of some transfers.
PollReturns ==
  /\ phase = "asleep"
  /\ phase' = "app"
  /\ \E ts \in SUBSET {t \in Transfers : mstate[t] \in TimedStates \cup {"PENDING"}} :
       late' = late \cup ts
  /\ UNCHANGED <<mstate, setVars, msglist, conn, cursor, bytes>>

\* The pair is read until it is empty, while others write.
DrainRead ==
  /\ phase = "drain" /\ bytes > 0
  /\ bytes' = IF bytes > ReadSize THEN bytes - ReadSize ELSE 0
  /\ UNCHANGED <<mstate, setVars, msglist, conn, late, phase, cursor>>

DrainEnd ==
  /\ phase = "drain" /\ bytes = 0
  /\ phase' = "app"
  /\ UNCHANGED <<mstate, setVars, msglist, conn, late, cursor, bytes>>

\* Mutant: a write that fails is not made up for.
WriteFails ==
  /\ UNCHANGED bytes
  /\ UNCHANGED <<mstate, setVars, msglist, conn, late, phase, cursor>>

\* curl_multi_wakeup, on another thread.  A full pair is as good as a byte.
Wakeup ==
  /\ bytes' = IF bytes < PairCapacity THEN bytes + 1 ELSE bytes
  /\ UNCHANGED <<mstate, setVars, msglist, conn, late, phase, cursor>>

----------------------------------------------------------------------------
(* Properties.                                                             *)

\* Each transfer on the stack is in one of process, pending and msgsent, the
\* one its state says, dirty ones are to be run, the count of running transfers
\* is right, and transfers in the states that need a connection, and no others,
\* hold one, never more than the limit.
SetsAgree ==
  /\ pending = {t \in Transfers : mstate[t] = "PENDING"}
  /\ msgsent = {t \in Transfers : mstate[t] = "MSGSENT"}
  /\ process = OnStack \ (pending \cup msgsent)
  /\ dirty \subseteq process
  /\ alive = Cardinality(process) + Cardinality(pending)
  /\ conn = {t \in Transfers : mstate[t] \in {"CONNECTING", "PERFORMING", "DONE"}}
  /\ Limit > 0 => Cardinality(conn) <= Limit

\* No pending transfer is forgotten: process_pending_handles moves one
\* transfer at a time, but while some are pending and a connection is free, one
\* that was moved is about to ask for it, and what it does will move the next.
NoStrandedPending ==
  pending # {} /\ ConnectionAvailable =>
    \E t \in process : mstate[t] = "CONNECT" /\ (t \in dirty \/ (phase = "run" /\ cursor = t))

\* A message is of a transfer that is still on the stack and complete, and
\* there is one at most for each.
MessagesValid ==
  /\ \A i \in 1 .. Len(msglist) : msglist[i] \in msgsent
  /\ \A i, j \in 1 .. Len(msglist) : msglist[i] = msglist[j] => i = j
=============================================================================
