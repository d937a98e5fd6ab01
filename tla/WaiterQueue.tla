---------------------------- MODULE WaiterQueue ----------------------------
(***************************************************************************)
(* TConcurrentQueue and TWaiter of http.bmx with their locks and condition *)
(* variables.  A member of Calls is a thread inside Send: it pushes its    *)
(* envelope and waits on a waiter of its own.  Workers take envelopes and  *)
(* deliver results; a member of Pollers takes with TryPop, as Run does,    *)
(* the others with PopWait, until it returns Null.  Closer is the thread   *)
(* in Shutdown: it tells the pollers to stop and calls Close.              *)
(*                                                                         *)
(* A critical section is two steps: the lock is taken; the body runs and   *)
(* the lock is given back.  The monitors of BRL.Threads are external: a    *)
(* waiting thread sleeps, giving its lock back in the same step, until a   *)
(* signal or nothing at all wakes it, and then queues for the lock again.  *)
(***************************************************************************)
EXTENDS Naturals, Sequences, FiniteSets

CONSTANTS Calls, Workers, Pollers, Closer, None

ASSUME ThreadsAssumption ==
  /\ Pollers \subseteq Workers
  /\ Calls \cap Workers = {}
  /\ Closer \notin Calls \cup Workers
  /\ None \notin Calls \cup Workers \cup {Closer}

ASSUME FiniteAssumption == IsFiniteSet(Workers)

VARIABLES
  lock,    \* the thread that holds _lock of the queue
  q,       \* _q
  closed,  \* _closed
  mu,      \* the thread that holds _mu of a call's waiter
  done,    \* _done of a call's waiter
  pc,      \* where a thread is
  held     \* the envelope a worker has taken

vars == <<lock, q, closed, mu, done, pc, held>>

Threads == Calls \cup Workers \cup {Closer}

CallStates   == {"idle", "pushing", "pushed", "testing", "asleep", "woken",
                 "returned", "refused"}
WorkerStates == {"ready", "popping", "asleep", "woken", "deliver", "delivering",
                 "left", "leftHolding"}
CloserStates == {"idle", "stopping", "closing", "over"}

TypeOK ==
  /\ lock \in Threads \cup {None}
  /\ q \in Seq(Calls)
  /\ closed \in BOOLEAN
  /\ mu \in [Calls -> Calls \cup Workers \cup {None}]
  /\ done \in [Calls -> BOOLEAN]
  /\ pc \in [Threads -> CallStates \cup WorkerStates \cup CloserStates]
  /\ \A c \in Calls : pc[c] \in CallStates
  /\ \A w \in Workers : pc[w] \in WorkerStates
  /\ pc[Closer] \in CloserStates
  /\ held \in [Workers -> Calls \cup {None}]

Init ==
  /\ lock = None /\ q = <<>> /\ closed = FALSE
  /\ mu = [c \in Calls |-> None]
  /\ done = [c \in Calls |-> FALSE]
  /\ pc = [t \in Threads |-> IF t \in Workers THEN "ready" ELSE "idle"]
  /\ held = [w \in Workers |-> None]

Sleepers == {w \in Workers : pc[w] = "asleep"}

----------------------------------------------------------------------------
(* TConcurrentQueue.Push.                                                  *)

PushLock(c) ==
  /\ pc[c] = "idle" /\ lock = None
  /\ lock' = c
  /\ pc' = [pc EXCEPT ![c] = "pushing"]
  /\ UNCHANGED <<q, closed, mu, done, held>>

PushThrows(c) ==
  /\ pc[c] = "pushing" /\ closed
  /\ lock' = None
  /\ pc' = [pc EXCEPT ![c] = "refused"]
  /\ UNCHANGED <<q, closed, mu, done, held>>

\* Mutants: only an empty queue is worth a signal; a later envelope goes in
\* front of the earlier ones.
SignalWhenEmpty(c) ==
  /\ pc[c] = "pushing" /\ ~closed
  /\ q' = Append(q, c)
  /\ lock' = None
  /\ IF Sleepers = {} \/ q # <<>>
     THEN pc' = [pc EXCEPT ![c] = "pushed"]
     ELSE \E w \in Sleepers : pc' = [pc EXCEPT ![c] = "pushed", ![w] = "woken"]
  /\ UNCHANGED <<closed, mu, done, held>>

PushInFront(c) ==
  /\ pc[c] = "pushing" /\ ~closed
  /\ q' = <<c>> \o q
  /\ lock' = None
  /\ IF Sleepers = {}
     THEN pc' = [pc EXCEPT ![c] = "pushed"]
     ELSE \E w \in Sleepers : pc' = [pc EXCEPT ![c] = "pushed", ![w] = "woken"]
  /\ UNCHANGED <<closed, mu, done, held>>

\* The envelope is queued and one of the sleeping threads, if any, signalled.
Push(c) ==
  /\ pc[c] = "pushing" /\ ~closed
  /\ q' = Append(q, c)
  /\ lock' = None
  /\ IF Sleepers = {}
     THEN pc' = [pc EXCEPT ![c] = "pushed"]
     ELSE \E w \in Sleepers : pc' = [pc EXCEPT ![c] = "pushed", ![w] = "woken"]
  /\ UNCHANGED <<closed, mu, done, held>>

----------------------------------------------------------------------------
(* TConcurrentQueue.PopWait and TryPop.                                    *)

PopLock(w) ==
  /\ pc[w] \in {"ready", "woken"} /\ lock = None
  /\ lock' = w
  /\ pc' = [pc EXCEPT ![w] = "popping"]
  /\ UNCHANGED <<q, closed, mu, done, held>>

\* Mutant: PopWait does not look whether the queue is closed.
PopWaitsClosed(w) ==
  /\ pc[w] = "popping" /\ w \notin Pollers
  /\ q = <<>>
  /\ lock' = None
  /\ pc' = [pc EXCEPT ![w] = "asleep"]
  /\ UNCHANGED <<q, closed, mu, done, held>>

\* PopWait finds the queue empty and open.
PopWaits(w) ==
  /\ pc[w] = "popping" /\ w \notin Pollers
  /\ q = <<>> /\ ~closed
  /\ lock' = None
  /\ pc' = [pc EXCEPT ![w] = "asleep"]
  /\ UNCHANGED <<q, closed, mu, done, held>>

\* Null: TryPop found the queue empty, PopWait empty and closed.
PopNull(w) ==
  /\ pc[w] = "popping"
  /\ q = <<>>
  /\ w \in Pollers \/ closed
  /\ lock' = None
  /\ pc' = [pc EXCEPT ![w] = IF w \in Pollers THEN "ready" ELSE "left"]
  /\ UNCHANGED <<q, closed, mu, done, held>>

\* Mutant: the first envelope is read but left in the queue.
PopKeeps(w) ==
  /\ pc[w] = "popping"
  /\ q # <<>>
  /\ held' = [held EXCEPT ![w] = Head(q)]
  /\ lock' = None
  /\ pc' = [pc EXCEPT ![w] = "deliver"]
  /\ UNCHANGED <<q, closed, mu, done>>

Pop(w) ==
  /\ pc[w] = "popping"
  /\ q # <<>>
  /\ held' = [held EXCEPT ![w] = Head(q)]
  /\ q' = Tail(q)
  /\ lock' = None
  /\ pc' = [pc EXCEPT ![w] = "deliver"]
  /\ UNCHANGED <<closed, mu, done>>

----------------------------------------------------------------------------
(* Shutdown: _running is cleared, then TConcurrentQueue.Close.              *)

Stop ==
  /\ pc[Closer] = "idle"
  /\ pc' = [pc EXCEPT ![Closer] = "stopping"]
  /\ UNCHANGED <<lock, q, closed, mu, done, held>>

\* A poller finds _running cleared and leaves Run: from between two calls of
\* TryPop, whatever the queue holds, or with an envelope it has taken.
PollerLeaves(w) ==
  /\ w \in Pollers /\ pc[Closer] # "idle"
  /\ \/ pc[w] = "ready" /\ pc' = [pc EXCEPT ![w] = "left"]
     \/ pc[w] = "deliver" /\ pc' = [pc EXCEPT ![w] = "leftHolding"]
  /\ UNCHANGED <<lock, q, closed, mu, done, held>>

CloseLock ==
  /\ pc[Closer] = "stopping" /\ lock = None
  /\ lock' = Closer
  /\ pc' = [pc EXCEPT ![Closer] = "closing"]
  /\ UNCHANGED <<q, closed, mu, done, held>>

Close ==
  /\ pc[Closer] = "closing"
  /\ closed' = TRUE
  /\ lock' = None
  /\ pc' = [t \in Threads |-> IF t = Closer THEN "over"
                              ELSE IF t \in Sleepers THEN "woken" ELSE pc[t]]
  /\ UNCHANGED <<q, mu, done, held>>

----------------------------------------------------------------------------
(* TWaiter.Deliver and Await.                                              *)

DeliverLock(w) ==
  /\ pc[w] = "deliver" /\ mu[held[w]] = None
  /\ mu' = [mu EXCEPT ![held[w]] = w]
  /\ pc' = [pc EXCEPT ![w] = "delivering"]
  /\ UNCHANGED <<lock, q, closed, done, held>>

\* Mutant: the waiting thread is not signalled.
DeliverSilently(w) ==
  /\ pc[w] = "delivering"
  /\ LET c == held[w] IN
       /\ done' = [done EXCEPT ![c] = TRUE]
       /\ mu' = [mu EXCEPT ![c] = None]
  /\ pc' = [pc EXCEPT ![w] = "ready"]
  /\ held' = [held EXCEPT ![w] = None]
  /\ UNCHANGED <<lock, q, closed>>

Deliver(w) ==
  /\ pc[w] = "delivering"
  /\ LET c == held[w] IN
       /\ done' = [done EXCEPT ![c] = TRUE]
       /\ mu' = [mu EXCEPT ![c] = None]
       /\ pc' = IF pc[c] = "asleep"
                THEN [pc EXCEPT ![w] = "ready", ![c] = "woken"]
                ELSE [pc EXCEPT ![w] = "ready"]
  /\ held' = [held EXCEPT ![w] = None]
  /\ UNCHANGED <<lock, q, closed>>

AwaitLock(c) ==
  /\ pc[c] \in {"pushed", "woken"} /\ mu[c] = None
  /\ mu' = [mu EXCEPT ![c] = c]
  /\ pc' = [pc EXCEPT ![c] = "testing"]
  /\ UNCHANGED <<lock, q, closed, done, held>>

AwaitWaits(c) ==
  /\ pc[c] = "testing" /\ ~done[c]
  /\ mu' = [mu EXCEPT ![c] = None]
  /\ pc' = [pc EXCEPT ![c] = "asleep"]
  /\ UNCHANGED <<lock, q, closed, done, held>>

AwaitReturns(c) ==
  /\ pc[c] = "testing" /\ done[c]
  /\ mu' = [mu EXCEPT ![c] = None]
  /\ pc' = [pc EXCEPT ![c] = "returned"]
  /\ UNCHANGED <<lock, q, closed, done, held>>

----------------------------------------------------------------------------
\* A thread may wake up though nobody signalled it.
SpuriousWakeup(t) ==
  /\ pc[t] = "asleep"
  /\ pc' = [pc EXCEPT ![t] = "woken"]
  /\ UNCHANGED <<lock, q, closed, mu, done, held>>

CallNext(c) ==
  PushLock(c) \/ PushThrows(c) \/ Push(c)
  \/ AwaitLock(c) \/ AwaitWaits(c) \/ AwaitReturns(c)

WorkerNext(w) ==
  PopLock(w) \/ PopWaits(w) \/ PopNull(w) \/ Pop(w) \/ DeliverLock(w) \/ Deliver(w)
  \/ PollerLeaves(w)

Next ==
  \/ \E c \in Calls : CallNext(c)
  \/ \E w \in Workers : WorkerNext(w)
  \/ Stop \/ CloseLock \/ Close
  \/ \E t \in Calls \cup Workers : SpuriousWakeup(t)

Spec == Init /\ [][Next]_vars

\* Threads inside the two types go on, and a thread that asks for a lock again
\* and again while it is free again and again gets it: PopWait is called until it
\* returns Null, TryPop until the poller leaves.  Nobody need send, stop, leave
\* or close, and no wake-up comes by itself.
Fairness ==
  /\ \A c \in Calls : /\ WF_vars(PushThrows(c) \/ Push(c))
                      /\ WF_vars(AwaitWaits(c) \/ AwaitReturns(c))
                      /\ WF_vars(AwaitLock(c))
  /\ \A w \in Workers : /\ SF_vars(PopLock(w))
                        /\ SF_vars(DeliverLock(w))
                        /\ WF_vars(PopWaits(w) \/ PopNull(w) \/ Pop(w) \/ Deliver(w))
  /\ WF_vars(Close)

FairSpec == Spec /\ Fairness

----------------------------------------------------------------------------
(* Properties.                                                             *)

\* Workers that will look at the queue before they sleep.
Looking == {w \in Workers : pc[w] \in {"woken", "popping"}}

\* No signal of Push is lost: while a worker sleeps in PopWait there are at
\* least as many workers on their way to the queue as it holds envelopes, and
\* after Close nobody sleeps.
NoSleepOverWork ==
  /\ Sleepers # {} => Len(q) <= Cardinality(Looking)
  /\ closed => Sleepers = {}

Holders(c) == {w \in Workers : held[w] = c}

QueuedOnce(c) == \E i \in 1 .. Len(q) : \A j \in 1 .. Len(q) : (q[j] = c) <=> (j = i)

\* An envelope that was accepted and not answered is in the queue, once, or in
\* the hands of one worker; no other envelope is anywhere.  Push, Pop and
\* Deliver of any number of threads keep it so.
OneOwner ==
  \A c \in Calls :
    IF pc[c] \in {"idle", "pushing", "refused"} \/ done[c]
    THEN Holders(c) = {} /\ \A i \in 1 .. Len(q) : q[i] # c
    ELSE \/ QueuedOnce(c) /\ Holders(c) = {}
         \/ /\ \A i \in 1 .. Len(q) : q[i] # c
            /\ \E w \in Workers : Holders(c) = {w}

\* After Close each thread in PopWait returns, however many there are.
WorkersLeave == closed ~> \A w \in Workers \ Pollers : pc[w] = "left"

Status(c) ==
  CASE pc[c] \in {"idle", "pushing"} -> "idle"
    [] pc[c] = "refused"             -> "refused"
    [] pc[c] = "returned"            -> "returned"
    [] OTHER -> IF done[c] THEN "answered"
                ELSE IF \E w \in Workers : held[w] = c THEN "taken" ELSE "queued"

Abstract == INSTANCE Handoff WITH
  queue <- q, status <- [c \in Calls |-> Status(c)]

\* The two types implement Handoff: each operation of theirs seems to happen
\* at one moment, which is how the model of the client takes them.
ImplementsHandoff == Abstract!Spec

\* An accepted call returns, before Close and after it, unless the poller that
\* took it leaves Run with it in hand, or nobody is left to take it.
Abandoned(c) ==
  \/ \E w \in Pollers : pc[w] = "leftHolding" /\ held[w] = c
  \/ \A w \in Workers : pc[w] \in {"left", "leftHolding"}

AcceptedReturns ==
  \A c \in Calls : pc[c] = "pushed" ~> pc[c] = "returned" \/ Abandoned(c)
=============================================================================
