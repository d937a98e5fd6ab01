------------------------- MODULE WaiterQueueProofs -------------------------
(***************************************************************************)
(* The submission queue and the waiter keep each envelope once and lose no *)
(* signal, and implement Handoff, for any calls and any finite number of   *)
(* workers.                                                                *)
(***************************************************************************)
EXTENDS WaiterQueue, SequenceTheorems, FiniteSetTheorems, TLAPS

Delivery == {"deliver", "delivering", "leftHolding"}
Outside == {"idle", "pushing", "refused"}

\* A worker holds an envelope from the time it took it until it has delivered,
\* or for good when it leaves with it.
HeldInv == \A w \in Workers : held[w] # None <=> pc[w] \in Delivery

\* No call is answered before it was accepted, and none returns unanswered.
CallInv ==
  \A c \in Calls : /\ pc[c] \in Outside => ~done[c]
                   /\ pc[c] = "returned" => done[c]

IInv == TypeOK /\ HeldInv /\ CallInv /\ OneOwner /\ NoSleepOverWork

\* What OneOwner says of one call.
Owned(c) ==
  IF pc[c] \in Outside \/ done[c]
  THEN Holders(c) = {} /\ \A i \in 1 .. Len(q) : q[i] # c
  ELSE \/ QueuedOnce(c) /\ Holders(c) = {}
       \/ /\ \A i \in 1 .. Len(q) : q[i] # c
          /\ \E w \in Workers : Holders(c) = {w}

\* The steps that move no envelope.
CallQuiet(c) ==
  PushLock(c) \/ PushThrows(c) \/ AwaitLock(c) \/ AwaitWaits(c) \/ AwaitReturns(c)
WorkerQuiet(w) ==
  PopLock(w) \/ PopWaits(w) \/ PopNull(w) \/ DeliverLock(w) \/ PollerLeaves(w)

Quiet ==
  \/ \E c \in Calls : CallQuiet(c)
  \/ \E w \in Workers : WorkerQuiet(w)
  \/ Stop \/ CloseLock \/ Close
  \/ \E t \in Calls \cup Workers : SpuriousWakeup(t)
  \/ UNCHANGED vars

\* A step is quiet or moves an envelope.
LEMMA Steps ==
  ASSUME [Next]_vars
  PROVE  \/ Quiet
         \/ \E c \in Calls : Push(c)
         \/ \E w \in Workers : Pop(w) \/ Deliver(w)
BY DEF Next, CallNext, WorkerNext, Quiet, CallQuiet, WorkerQuiet

\* Init makes the invariant true.
LEMMA InitInv == Init => IInv
<1>. SUFFICES ASSUME Init PROVE IInv
  OBVIOUS
<1>. USE ThreadsAssumption DEF Init
<1>1. TypeOK
  <2>1. <<>> \in Seq(Calls)
    BY EmptySeq
  <2>. QED
    BY <2>1 DEF TypeOK, Threads, CallStates, WorkerStates, CloserStates
<1>2. HeldInv /\ CallInv
  BY DEF HeldInv, CallInv, Delivery, Outside, Threads
<1>3. OneOwner
  <2>1. \A c \in Calls : pc[c] = "idle" /\ Holders(c) = {}
    BY DEF Threads, Holders
  <2>2. \A i \in 1 .. Len(q) : FALSE
    OBVIOUS
  <2>. QED
    BY <2>1, <2>2 DEF OneOwner
<1>4. NoSleepOverWork
  BY DEF NoSleepOverWork, Sleepers, Threads
<1>. QED
  BY <1>1, <1>2, <1>3, <1>4 DEF IInv

\* What a quiet step may do to a call: push, be refused, or get on while it
\* waits.
CallMoves(c) ==
  \/ pc'[c] = pc[c]
  \/ pc[c] = "idle" /\ pc'[c] = "pushing"
  \/ pc[c] = "pushing" /\ pc'[c] = "refused" /\ closed /\ closed'
  \/ pc[c] \notin Outside /\ pc[c] # "returned" /\ pc'[c] \notin Outside \cup {"returned"}
  \/ pc[c] \notin Outside /\ pc'[c] = "returned" /\ done[c]

QuietEffect ==
  /\ UNCHANGED <<q, done, held>>
  /\ TypeOK'
  /\ \A w \in Workers : pc'[w] \in Delivery <=> pc[w] \in Delivery
  /\ \A c \in Calls : CallMoves(c)

\* The effect of each quiet step of a call.
LEMMA CallQuietMoves ==
  ASSUME IInv, NEW c \in Calls, CallQuiet(c)
  PROVE  QuietEffect
<1>. USE ThreadsAssumption
     DEF IInv, TypeOK, Threads, CallStates, WorkerStates, CloserStates, Delivery, Outside
<1>1. CASE PushLock(c)
  BY <1>1 DEF PushLock, QuietEffect, CallMoves
<1>2. CASE PushThrows(c)
  BY <1>2 DEF PushThrows, QuietEffect, CallMoves
<1>3. CASE AwaitLock(c)
  BY <1>3 DEF AwaitLock, QuietEffect, CallMoves
<1>4. CASE AwaitWaits(c)
  BY <1>4 DEF AwaitWaits, QuietEffect, CallMoves
<1>5. CASE AwaitReturns(c)
  BY <1>5 DEF AwaitReturns, QuietEffect, CallMoves
<1>. QED
  BY <1>1, <1>2, <1>3, <1>4, <1>5 DEF CallQuiet

\* The effect of each quiet step of a worker.
LEMMA WorkerQuietMoves ==
  ASSUME IInv, NEW w \in Workers, WorkerQuiet(w)
  PROVE  QuietEffect
<1>. USE ThreadsAssumption
     DEF IInv, TypeOK, Threads, CallStates, WorkerStates, CloserStates, Delivery, Outside
<1>1. CASE PopLock(w)
  BY <1>1 DEF PopLock, QuietEffect, CallMoves
<1>2. CASE PopWaits(w)
  BY <1>2 DEF PopWaits, QuietEffect, CallMoves
<1>3. CASE PopNull(w)
  BY <1>3 DEF PopNull, QuietEffect, CallMoves
<1>4. CASE DeliverLock(w)
  BY <1>4 DEF DeliverLock, HeldInv, QuietEffect, CallMoves
<1>5. CASE PollerLeaves(w)
  BY <1>5 DEF PollerLeaves, HeldInv, QuietEffect, CallMoves
<1>. QED
  BY <1>1, <1>2, <1>3, <1>4, <1>5 DEF WorkerQuiet

\* The effect of every quiet step.
LEMMA QuietMoves ==
  ASSUME IInv, Quiet
  PROVE  QuietEffect
<1>. USE ThreadsAssumption
     DEF IInv, TypeOK, Threads, CallStates, WorkerStates, CloserStates, Delivery, Outside
<1>1. CASE CloseLock
  BY <1>1 DEF CloseLock, QuietEffect, CallMoves
<1>2. CASE Close
  BY <1>2 DEF Close, Sleepers, QuietEffect, CallMoves
<1>3. ASSUME NEW t \in Calls \cup Workers, SpuriousWakeup(t) PROVE QuietEffect
  BY <1>3 DEF SpuriousWakeup, QuietEffect, CallMoves
<1>4. CASE UNCHANGED vars
  BY <1>4 DEF vars, QuietEffect, CallMoves
<1>5. CASE Stop
  BY <1>5 DEF Stop, QuietEffect, CallMoves
<1>. QED
  BY <1>1, <1>2, <1>3, <1>4, <1>5, CallQuietMoves, WorkerQuietMoves DEF Quiet

\* Looking is a finite set; a step may add to it and may empty Sleepers.
LEMMA LookingFinite ==
  /\ IsFiniteSet(Looking) /\ Cardinality(Looking) \in Nat
  /\ IsFiniteSet(Looking') /\ Cardinality(Looking') \in Nat
BY FiniteAssumption, FS_Subset, FS_CardinalityType DEF Looking

\* A step that takes nobody off the way to the queue, puts nobody to sleep and
\* leaves the queue and closed alone loses no signal.
LEMMA NobodySleeps ==
  ASSUME IInv, UNCHANGED <<q, closed>>,
         \A w \in Workers : w \in Looking => w \in Looking',
         Sleepers' \subseteq Sleepers
  PROVE  NoSleepOverWork'
<1>1. Looking \subseteq Looking'
  BY DEF Looking
<1>2. Cardinality(Looking) <= Cardinality(Looking')
  BY <1>1, LookingFinite, FS_Subset
<1>3. Len(q) \in Nat
  BY DEF IInv, TypeOK
<1>4. Sleepers' # {} => Len(q) <= Cardinality(Looking')
  BY <1>2, <1>3, LookingFinite DEF IInv, NoSleepOverWork
<1>. QED
  BY <1>4 DEF IInv, NoSleepOverWork

\* A step that leaves all workers where they are.
LEMMA WorkersStay ==
  ASSUME IInv, UNCHANGED <<q, closed>>, \A w \in Workers : pc'[w] = pc[w]
  PROVE  NoSleepOverWork'
BY NobodySleeps DEF Looking, Sleepers

\* No quiet step lets a worker sleep over work.
LEMMA QuietKeepsSleep ==
  ASSUME IInv, Quiet
  PROVE  NoSleepOverWork'
<1>0. /\ pc \in [Threads -> CallStates \cup WorkerStates \cup CloserStates]
      /\ q \in Seq(Calls)
  BY DEF IInv, TypeOK
<1>. USE ThreadsAssumption DEF Threads
<1>1. ASSUME NEW c \in Calls, CallQuiet(c) PROVE NoSleepOverWork'
  <2>1. UNCHANGED <<q, closed>> /\ \A w \in Workers : pc'[w] = pc[w]
    BY <1>0, <1>1
    DEF CallQuiet, PushLock, PushThrows, AwaitLock, AwaitWaits, AwaitReturns
  <2>. QED
    BY <2>1, WorkersStay
<1>2. ASSUME NEW w \in Workers, PopLock(w) PROVE NoSleepOverWork'
  <2>1. UNCHANGED <<q, closed>> /\ Sleepers' \subseteq Sleepers
    BY <1>0, <1>2 DEF PopLock, Sleepers
  <2>2. \A v \in Workers : v \in Looking => v \in Looking'
    BY <1>0, <1>2 DEF PopLock, Looking
  <2>. QED
    BY <2>1, <2>2, NobodySleeps
<1>3. ASSUME NEW w \in Workers, PopWaits(w) PROVE NoSleepOverWork'
  <2>1. q' = <<>> /\ ~closed'
    BY <1>3 DEF PopWaits
  <2>2. Len(q') = 0
    BY <2>1
  <2>. QED
    BY <2>1, <2>2, LookingFinite DEF NoSleepOverWork
<1>4. ASSUME NEW w \in Workers, PopNull(w) PROVE NoSleepOverWork'
  <2>1. Len(q') = 0 /\ UNCHANGED closed /\ Sleepers' \subseteq Sleepers
    BY <1>0, <1>4 DEF PopNull, Sleepers
  <2>2. closed' => Sleepers' = {}
    BY <2>1 DEF IInv, NoSleepOverWork
  <2>. QED
    BY <2>1, <2>2, LookingFinite DEF NoSleepOverWork
<1>5. ASSUME NEW w \in Workers, DeliverLock(w) PROVE NoSleepOverWork'
  <2>1. UNCHANGED <<q, closed>> /\ Sleepers' \subseteq Sleepers
    BY <1>0, <1>5 DEF DeliverLock, Sleepers
  <2>2. \A v \in Workers : v \in Looking => v \in Looking'
    BY <1>0, <1>5 DEF DeliverLock, Looking
  <2>. QED
    BY <2>1, <2>2, NobodySleeps
<1>6. CASE Stop \/ CloseLock
  <2>1. UNCHANGED <<q, closed>> /\ \A w \in Workers : pc'[w] = pc[w]
    BY <1>0, <1>6 DEF Stop, CloseLock
  <2>. QED
    BY <2>1, WorkersStay
<1>7. CASE Close
  <2>1. Sleepers' = {}
    BY <1>0, <1>7 DEF Close, Sleepers
  <2>. QED
    BY <2>1 DEF NoSleepOverWork
<1>8. ASSUME NEW t \in Calls \cup Workers, SpuriousWakeup(t) PROVE NoSleepOverWork'
  <2>1. UNCHANGED <<q, closed>> /\ Sleepers' \subseteq Sleepers
    BY <1>0, <1>8 DEF SpuriousWakeup, Sleepers
  <2>2. \A v \in Workers : v \in Looking => v \in Looking'
    BY <1>0, <1>8 DEF SpuriousWakeup, Looking
  <2>. QED
    BY <2>1, <2>2, NobodySleeps
<1>9. CASE UNCHANGED vars
  BY <1>9, WorkersStay DEF vars
<1>10. ASSUME NEW w \in Workers, PollerLeaves(w) PROVE NoSleepOverWork'
  <2>1. UNCHANGED <<q, closed>> /\ Sleepers' \subseteq Sleepers
    BY <1>0, <1>10 DEF PollerLeaves, Sleepers
  <2>2. \A v \in Workers : v \in Looking => v \in Looking'
    BY <1>0, <1>10 DEF PollerLeaves, Looking
  <2>. QED
    BY <2>1, <2>2, NobodySleeps
<1>. QED
  BY <1>1, <1>2, <1>3, <1>4, <1>5, <1>6, <1>7, <1>8, <1>9, <1>10 DEF Quiet, WorkerQuiet

\* A quiet step keeps the invariant.
LEMMA QuietKeepsInv ==
  ASSUME IInv, Quiet
  PROVE  IInv'
<1>1. QuietEffect
  BY QuietMoves
<1>2. HeldInv'
  BY <1>1 DEF IInv, HeldInv, QuietEffect
<1>3. CallInv'
  BY <1>1 DEF IInv, CallInv, QuietEffect, CallMoves, Outside
<1>4. OneOwner'
  <2>. SUFFICES ASSUME NEW c \in Calls
                PROVE  Owned(c)'
    BY DEF OneOwner, Owned, Outside
  <2>1. pc'[c] \in Outside <=> pc[c] \in Outside
    BY <1>1 DEF QuietEffect, CallMoves, Outside
  <2>2. UNCHANGED <<q, done, held>>
    BY <1>1 DEF QuietEffect
  <2>3. Holders(c)' = Holders(c) /\ (QueuedOnce(c)' <=> QueuedOnce(c))
    BY <2>2 DEF Holders, QueuedOnce
  <2>4. Owned(c)
    BY DEF IInv, OneOwner, Owned, Outside
  <2>. QED
    BY <2>1, <2>2, <2>3, <2>4 DEF Owned
<1>. QED
  BY <1>1, <1>2, <1>3, <1>4, QuietKeepsSleep DEF IInv, QuietEffect

\* What Push does to the threads: the caller has pushed, and if workers sleep
\* one of them wakes up.
LEMMA PushMoves ==
  ASSUME IInv, NEW c \in Calls, Push(c)
  PROVE  /\ pc[c] = "pushing" /\ ~closed /\ pc'[c] = "pushed"
         /\ UNCHANGED <<closed, done, held>>
         /\ q' = Append(q, c)
         /\ \A d \in Calls : d # c => pc'[d] = pc[d]
         /\ \A w \in Workers : pc'[w] = pc[w] \/ (pc[w] = "asleep" /\ pc'[w] = "woken")
         /\ Sleepers # {} => \E w \in Workers : pc[w] = "asleep" /\ pc'[w] = "woken"
         /\ TypeOK'
<1>. USE ThreadsAssumption
     DEF IInv, TypeOK, Threads, CallStates, WorkerStates, CloserStates, Push
<1>1. Append(q, c) \in Seq(Calls)
  BY AppendProperties
<1>2. CASE Sleepers = {}
  <2>1. pc' = [pc EXCEPT ![c] = "pushed"]
    BY <1>2
  <2>. QED
    BY <1>1, <1>2, <2>1
<1>3. CASE Sleepers # {}
  <2>1. PICK w \in Sleepers : pc' = [pc EXCEPT ![c] = "pushed", ![w] = "woken"]
    BY <1>3
  <2>2. w \in Workers /\ pc[w] = "asleep"
    BY DEF Sleepers
  <2>. QED
    BY <1>1, <2>1, <2>2
<1>. QED
  BY <1>2, <1>3

\* A queue that holds one envelope more.
LEMMA AppendedOnce ==
  ASSUME NEW c \in Calls, q \in Seq(Calls), q' = Append(q, c),
         \A i \in 1 .. Len(q) : q[i] # c
  PROVE  /\ QueuedOnce(c)'
         /\ \A d \in Calls : d # c => /\ QueuedOnce(d) => QueuedOnce(d)'
                                      /\ (\A i \in 1 .. Len(q) : q[i] # d)
                                           => \A i \in 1 .. Len(q') : q'[i] # d
<1>1. /\ Len(q') = Len(q) + 1 /\ Len(q) \in Nat
      /\ \A i \in 1 .. Len(q) : q'[i] = q[i]
      /\ q'[Len(q) + 1] = c
  BY AppendProperties
<1>2. \A i \in 1 .. Len(q') : i \in 1 .. Len(q) \/ i = Len(q) + 1
  BY <1>1
<1>3. Len(q) + 1 \in 1 .. Len(q') /\ \A i \in 1 .. Len(q) : i \in 1 .. Len(q') /\ i # Len(q) + 1
  BY <1>1
<1>4. QueuedOnce(c)'
  <2>1. \A j \in 1 .. Len(q') : (q'[j] = c) <=> (j = Len(q) + 1)
    BY <1>1, <1>2, <1>3
  <2>. QED
    BY <2>1, <1>3 DEF QueuedOnce
<1>5. ASSUME NEW d \in Calls, d # c, QueuedOnce(d) PROVE QueuedOnce(d)'
  <2>1. PICK i \in 1 .. Len(q) : \A j \in 1 .. Len(q) : (q[j] = d) <=> (j = i)
    BY <1>5 DEF QueuedOnce
  <2>2. \A j \in 1 .. Len(q') : (q'[j] = d) <=> (j = i)
    BY <1>1, <1>2, <1>3, <1>5, <2>1
  <2>. QED
    BY <2>2, <1>3 DEF QueuedOnce
<1>6. ASSUME NEW d \in Calls, d # c, \A i \in 1 .. Len(q) : q[i] # d,
             NEW i \in 1 .. Len(q')
      PROVE  q'[i] # d
  BY <1>1, <1>2, <1>6
<1>. QED
  BY <1>4, <1>5, <1>6

\* Push keeps the invariant: the new envelope is nowhere else, and a sleeping
\* worker goes to look for it.
LEMMA PushKeepsInv ==
  ASSUME IInv, NEW c \in Calls, Push(c)
  PROVE  IInv'
<1>1. /\ pc[c] = "pushing" /\ ~closed /\ pc'[c] = "pushed"
      /\ UNCHANGED <<closed, done, held>>
      /\ q' = Append(q, c)
      /\ \A d \in Calls : d # c => pc'[d] = pc[d]
      /\ \A w \in Workers : pc'[w] = pc[w] \/ (pc[w] = "asleep" /\ pc'[w] = "woken")
      /\ Sleepers # {} => \E w \in Workers : pc[w] = "asleep" /\ pc'[w] = "woken"
      /\ TypeOK'
  BY PushMoves
<1>2. q \in Seq(Calls)
  BY DEF IInv, TypeOK
<1>3. HeldInv'
  BY <1>1 DEF IInv, HeldInv, Delivery
<1>4. CallInv'
  BY <1>1 DEF IInv, CallInv, Outside
<1>5. Holders(c) = {} /\ (\A i \in 1 .. Len(q) : q[i] # c) /\ ~done[c]
  BY <1>1 DEF IInv, OneOwner, CallInv, Outside
<1>6. \A d \in Calls : Holders(d)' = Holders(d)
  BY <1>1 DEF Holders
<1>7. OneOwner'
  <2>1. ASSUME NEW d \in Calls, d # c
        PROVE  Owned(d)'
    <3>1. Owned(d)
      BY DEF IInv, OneOwner, Owned, Outside
    <3>2. pc'[d] = pc[d] /\ done'[d] = done[d] /\ Holders(d)' = Holders(d)
      BY <1>1, <1>6, <2>1
    <3>3. /\ QueuedOnce(d) => QueuedOnce(d)'
          /\ (\A i \in 1 .. Len(q) : q[i] # d) => \A i \in 1 .. Len(q') : q'[i] # d
      BY <1>1, <1>2, <1>5, <2>1, AppendedOnce
    <3>. QED
      BY <3>1, <3>2, <3>3 DEF Owned
  <2>2. QueuedOnce(c)' /\ Holders(c)' = {} /\ pc'[c] \notin Outside /\ ~done'[c]
    BY <1>1, <1>2, <1>5, <1>6, AppendedOnce DEF Outside
  <2>3. Owned(c)'
    BY <2>2 DEF Owned
  <2>. QED
    BY <2>1, <2>3 DEF OneOwner, Owned, Outside
<1>8. NoSleepOverWork'
  <2>1. closed' => Sleepers' = {}
    BY <1>1
  <2>. SUFFICES ASSUME Sleepers' # {} PROVE Len(q') <= Cardinality(Looking')
    BY <2>1 DEF NoSleepOverWork
  <2>2. Sleepers # {}
    BY <1>1 DEF Sleepers
  <2>3. PICK w \in Workers : pc[w] = "asleep" /\ pc'[w] = "woken"
    BY <1>1, <2>2
  <2>4. Looking \cup {w} \subseteq Looking' /\ w \notin Looking
    BY <1>1, <2>3 DEF Looking
  <2>5. /\ IsFiniteSet(Looking \cup {w})
        /\ Cardinality(Looking \cup {w}) = Cardinality(Looking) + 1
    BY <2>4, LookingFinite, FS_AddElement
  <2>6. Cardinality(Looking \cup {w}) <= Cardinality(Looking')
    BY <2>4, LookingFinite, FS_Subset
  <2>7. Len(q') = Len(q) + 1 /\ Len(q) \in Nat
    BY <1>1, <1>2, AppendProperties
  <2>8. Len(q) <= Cardinality(Looking)
    BY <2>2 DEF IInv, NoSleepOverWork
  <2>. QED
    BY <2>5, <2>6, <2>7, <2>8, LookingFinite
<1>. QED
  BY <1>1, <1>3, <1>4, <1>7, <1>8 DEF IInv

\* A queue that has lost its first envelope.
LEMMA HeadGone ==
  ASSUME q \in Seq(Calls), q # <<>>, q' = Tail(q)
  PROVE  /\ q' \in Seq(Calls) /\ Head(q) \in Calls /\ Len(q') = Len(q) - 1
         /\ \E i \in 1 .. Len(q) : q[i] = Head(q)
         /\ QueuedOnce(Head(q)) => \A i \in 1 .. Len(q') : q'[i] # Head(q)
         /\ \A d \in Calls : d # Head(q) => /\ QueuedOnce(d) => QueuedOnce(d)'
                                            /\ (\A i \in 1 .. Len(q) : q[i] # d)
                                                 => \A i \in 1 .. Len(q') : q'[i] # d
<1>. DEFINE h == Head(q)
<1>1. /\ h \in Calls /\ q' \in Seq(Calls) /\ Len(q') = Len(q) - 1
      /\ \A i \in 1 .. Len(q') : q'[i] = q[i + 1]
  BY HeadTailProperties
<1>2. Len(q) \in Nat /\ Len(q) > 0 /\ 1 \in 1 .. Len(q)
  BY EmptySeq
<1>3. h = q[1]
  OBVIOUS
<1>4. \A i \in 1 .. Len(q') : i + 1 \in 1 .. Len(q) /\ i + 1 # 1
  BY <1>1, <1>2
<1>5. ASSUME QueuedOnce(h), NEW i \in 1 .. Len(q') PROVE q'[i] # h
  <2>1. PICK k \in 1 .. Len(q) : \A j \in 1 .. Len(q) : (q[j] = h) <=> (j = k)
    BY <1>5 DEF QueuedOnce
  <2>2. k = 1
    BY <1>2, <1>3, <2>1
  <2>. QED
    BY <1>1, <1>4, <2>1, <2>2
<1>6. ASSUME NEW d \in Calls, d # h, QueuedOnce(d) PROVE QueuedOnce(d)'
  <2>1. PICK k \in 1 .. Len(q) : \A j \in 1 .. Len(q) : (q[j] = d) <=> (j = k)
    BY <1>6 DEF QueuedOnce
  <2>2. k # 1
    BY <1>2, <1>3, <1>6, <2>1
  <2>3. k - 1 \in 1 .. Len(q')
    BY <1>1, <1>2, <2>2
  <2>4. ASSUME NEW j \in 1 .. Len(q') PROVE (q'[j] = d) <=> (j = k - 1)
    <3>1. q'[j] = q[j + 1] /\ j + 1 \in 1 .. Len(q)
      BY <1>1, <1>4
    <3>2. (q[j + 1] = d) <=> (j + 1 = k)
      BY <2>1, <3>1
    <3>3. (j + 1 = k) <=> (j = k - 1)
      BY <1>2
    <3>. QED
      BY <3>1, <3>2, <3>3 DEF Owned
  <2>. QED
    BY <2>3, <2>4 DEF QueuedOnce
<1>7. ASSUME NEW d \in Calls, d # h, \A i \in 1 .. Len(q) : q[i] # d,
             NEW i \in 1 .. Len(q')
      PROVE  q'[i] # d
  BY <1>1, <1>4, <1>7
<1>. QED
  BY <1>1, <1>2, <1>3, <1>5, <1>6, <1>7

\* Pop keeps the invariant: the envelope leaves the queue for the hands of one
\* worker, who was on the way to the queue.
LEMMA PopKeepsInv ==
  ASSUME IInv, NEW w \in Workers, Pop(w)
  PROVE  IInv'
<1>0. PICK h \in Calls : h = Head(q)
  BY HeadGone DEF Pop, IInv, TypeOK
<1>1. /\ pc[w] = "popping" /\ q # <<>> /\ q' = Tail(q)
      /\ held' = [held EXCEPT ![w] = h] /\ pc' = [pc EXCEPT ![w] = "deliver"]
      /\ lock' = None /\ UNCHANGED <<closed, mu, done>>
  BY <1>0 DEF Pop
<1>2. /\ q \in Seq(Calls) /\ held \in [Workers -> Calls \cup {None}]
      /\ pc \in [Threads -> CallStates \cup WorkerStates \cup CloserStates]
  BY DEF IInv, TypeOK
<1>3. q' \in Seq(Calls) /\ Len(q') = Len(q) - 1
  BY <1>1, <1>2, HeadGone
<1>4. /\ w \in Threads /\ w \notin Calls /\ h # None
      /\ \A c \in Calls : pc'[c] = pc[c]
      /\ \A v \in Workers : v # w => pc'[v] = pc[v] /\ held'[v] = held[v]
      /\ pc'[w] = "deliver" /\ held'[w] = h /\ held[w] = None
  BY <1>1, <1>2, <1>3, ThreadsAssumption DEF Threads, IInv, HeldInv, Delivery
<1>5. TypeOK'
  BY <1>1, <1>3, <1>4, ThreadsAssumption DEF IInv, TypeOK, Threads, WorkerStates, CallStates, CloserStates
<1>6. HeldInv'
  BY <1>4 DEF IInv, HeldInv, Delivery
<1>7. CallInv'
  BY <1>1, <1>4 DEF IInv, CallInv
<1>8. /\ pc[h] \notin Outside /\ ~done[h] /\ QueuedOnce(h) /\ Holders(h) = {}
  <2>1. \E i \in 1 .. Len(q) : q[i] = h
    BY <1>1, <1>2, HeadGone, <1>0
  <2>. QED
    BY <1>3, <2>1 DEF IInv, OneOwner, Outside
<1>9. Holders(h)' = {w}
  <2>1. \A v \in Workers : held[v] # h
    BY <1>8 DEF Holders
  <2>2. \A v \in Workers : (held'[v] = h) <=> (v = w)
    BY <1>4, <2>1
  <2>. QED
    BY <2>2 DEF Holders
<1>10. \A d \in Calls : d # h => Holders(d)' = Holders(d)
  BY <1>4, ThreadsAssumption DEF Holders
<1>11. OneOwner'
  <2>1. ASSUME NEW d \in Calls, d # h
        PROVE  Owned(d)'
    <3>1. Owned(d)
      BY DEF IInv, OneOwner, Owned, Outside
    <3>2. pc'[d] = pc[d] /\ done'[d] = done[d] /\ Holders(d)' = Holders(d)
      BY <1>1, <1>4, <1>10, <2>1
    <3>3. /\ QueuedOnce(d) => QueuedOnce(d)'
          /\ (\A i \in 1 .. Len(q) : q[i] # d) => \A i \in 1 .. Len(q') : q'[i] # d
      BY <1>1, <1>2, <2>1, HeadGone, <1>0
    <3>. QED
      BY <3>1, <3>2, <3>3 DEF Owned
  <2>2. pc'[h] \notin Outside /\ ~done'[h]
    BY <1>1, <1>3, <1>4, <1>8
  <2>3. \A i \in 1 .. Len(q') : q'[i] # h
    BY <1>1, <1>2, <1>8, HeadGone, <1>0
  <2>4. Owned(h)'
    BY <1>9, <2>2, <2>3 DEF Owned
  <2>. QED
    BY <2>1, <2>4 DEF OneOwner, Owned, Outside
<1>12. NoSleepOverWork'
  <2>1. Sleepers' = Sleepers
    BY <1>1, <1>4 DEF Sleepers
  <2>2. Looking' = Looking \ {w} /\ w \in Looking
    BY <1>1, <1>4 DEF Looking
  <2>3. Cardinality(Looking') = Cardinality(Looking) - 1
    BY <2>2, LookingFinite, FS_RemoveElement
  <2>4. Len(q) \in Nat
    BY <1>2
  <2>5. Sleepers # {} => Len(q) <= Cardinality(Looking)
    BY DEF IInv, NoSleepOverWork
  <2>6. Sleepers' # {} => Len(q') <= Cardinality(Looking')
    BY <1>3, <2>1, <2>3, <2>4, <2>5, LookingFinite
  <2>7. closed' => Sleepers' = {}
    BY <1>1, <2>1 DEF IInv, NoSleepOverWork
  <2>. QED
    BY <2>6, <2>7 DEF NoSleepOverWork
<1>. QED
  BY <1>5, <1>6, <1>7, <1>11, <1>12 DEF IInv

\* Deliver keeps the invariant: the envelope is nowhere any more, and its call
\* is answered.
LEMMA DeliverKeepsInv ==
  ASSUME IInv, NEW w \in Workers, Deliver(w)
  PROVE  IInv'
<1>0. PICK c \in Calls : c = held[w]
  BY DEF Deliver, IInv, TypeOK, HeldInv, Delivery
<1>1. /\ pc[w] = "delivering"
      /\ done' = [done EXCEPT ![c] = TRUE] /\ mu' = [mu EXCEPT ![c] = None]
      /\ pc' = IF pc[c] = "asleep" THEN [pc EXCEPT ![w] = "ready", ![c] = "woken"]
               ELSE [pc EXCEPT ![w] = "ready"]
      /\ held' = [held EXCEPT ![w] = None]
      /\ UNCHANGED <<lock, q, closed>>
  BY <1>0 DEF Deliver
<1>2. /\ held \in [Workers -> Calls \cup {None}] /\ done \in [Calls -> BOOLEAN]
      /\ pc \in [Threads -> CallStates \cup WorkerStates \cup CloserStates]
  BY DEF IInv, TypeOK
<1>4. /\ w \notin Calls /\ c \in Calls /\ w \in Threads /\ c \in Threads
      /\ pc'[w] = "ready" /\ held'[w] = None /\ held[w] = c
      /\ pc'[c] = IF pc[c] = "asleep" THEN "woken" ELSE pc[c]
      /\ \A d \in Calls : d # c => pc'[d] = pc[d] /\ done'[d] = done[d]
      /\ done'[c] = TRUE
      /\ \A v \in Workers : v # w => pc'[v] = pc[v] /\ held'[v] = held[v]
  BY <1>0, <1>1, <1>2, ThreadsAssumption DEF Threads
<1>5. TypeOK'
  BY <1>1, <1>4, ThreadsAssumption DEF IInv, TypeOK, Threads, WorkerStates, CallStates, CloserStates
<1>6. HeldInv'
  BY <1>4 DEF IInv, HeldInv, Delivery
<1>7. w \in Holders(c)
  BY <1>4 DEF Holders
<1>8. /\ pc[c] \notin Outside /\ ~done[c] /\ Holders(c) = {w}
      /\ \A i \in 1 .. Len(q) : q[i] # c
  BY <1>4, <1>7 DEF IInv, OneOwner, Outside
<1>9. CallInv'
  BY <1>4, <1>8 DEF IInv, CallInv, Outside
<1>10. Holders(c)' = {} /\ \A d \in Calls : d # c => Holders(d)' = Holders(d)
  <2>1. c # None
    BY ThreadsAssumption
  <2>2. \A v \in Workers : (held[v] = c) <=> (v = w)
    BY <1>8 DEF Holders
  <2>3. \A v \in Workers : held'[v] # c
    BY <1>4, <2>1, <2>2
  <2>4. ASSUME NEW d \in Calls, d # c PROVE \A v \in Workers : (held'[v] = d) <=> (held[v] = d)
    <3>1. d # None
      BY ThreadsAssumption
    <3>. QED
      BY <1>4, <2>4, <3>1
  <2>. QED
    BY <2>3, <2>4 DEF Holders
<1>11. OneOwner'
  <2>1. ASSUME NEW d \in Calls, d # c
        PROVE  Owned(d)'
    <3>1. Owned(d)
      BY DEF IInv, OneOwner, Owned, Outside
    <3>2. pc'[d] = pc[d] /\ done'[d] = done[d] /\ Holders(d)' = Holders(d)
      BY <1>4, <1>10, <2>1
    <3>3. q' = q /\ (QueuedOnce(d)' <=> QueuedOnce(d))
      BY <1>1 DEF QueuedOnce
    <3>. QED
      BY <3>1, <3>2, <3>3 DEF Owned
  <2>2. done'[c] /\ \A i \in 1 .. Len(q') : q'[i] # c
    BY <1>1, <1>4, <1>8
  <2>3. Owned(c)'
    BY <1>10, <2>2 DEF Owned
  <2>. QED
    BY <2>1, <2>3 DEF OneOwner, Owned, Outside
<1>12. NoSleepOverWork'
  <2>1. UNCHANGED <<q, closed>> /\ Sleepers' \subseteq Sleepers
    BY <1>1, <1>4 DEF Sleepers
  <2>2. \A v \in Workers : v \in Looking => v \in Looking'
    BY <1>1, <1>4 DEF Looking
  <2>. QED
    BY <2>1, <2>2, NobodySleeps
<1>. QED
  BY <1>5, <1>6, <1>9, <1>11, <1>12 DEF IInv

\* Every step keeps the invariant.
LEMMA InvCorrect == Spec => []IInv
<1>1. IInv /\ [Next]_vars => IInv'
  BY Steps, QuietKeepsInv, PushKeepsInv, PopKeepsInv, DeliverKeepsInv
<1>. QED
  BY InitInv, <1>1, PTL DEF Spec

\* The types hold: TConcurrentQueue and TWaiter with any threads.
THEOREM TypeCorrect == Spec => []TypeOK
<1>1. IInv => TypeOK
  BY DEF IInv
<1>. QED
  BY <1>1, InvCorrect, PTL

\* No signal of Push is lost, and Close wakes everybody, whatever the number of
\* workers in PopWait.
THEOREM NoSleepCorrect == Spec => []NoSleepOverWork
<1>1. IInv => NoSleepOverWork
  BY DEF IInv
<1>. QED
  BY <1>1, InvCorrect, PTL

\* Every accepted envelope is in the queue or in one worker's hands until it is
\* answered.
THEOREM OneOwnerCorrect == Spec => []OneOwner
<1>1. IInv => OneOwner
  BY DEF IInv
<1>. QED
  BY <1>1, InvCorrect, PTL

----------------------------------------------------------------------------
(* The refinement.                                                         *)

Statuses == [c \in Calls |-> Status(c)]

\* A call that begins its push, or gets on while it waits, has the status it had.
LEMMA SameStatus ==
  ASSUME NEW d \in Calls, done'[d] = done[d], \A w \in Workers : (held'[w] = d) <=> (held[w] = d),
         \/ pc'[d] = pc[d]
         \/ {pc[d], pc'[d]} \subseteq {"idle", "pushing"}
         \/ pc[d] \notin Outside \cup {"returned"} /\ pc'[d] \notin Outside \cup {"returned"}
  PROVE  Status(d)' = Status(d)
<1>1. CASE pc'[d] = pc[d]
  BY <1>1 DEF Status
<1>2. CASE {pc[d], pc'[d]} \subseteq {"idle", "pushing"}
  BY <1>2 DEF Status
<1>3. CASE pc[d] \notin Outside \cup {"returned"} /\ pc'[d] \notin Outside \cup {"returned"}
  BY <1>3 DEF Status, Outside
<1>. QED
  BY <1>1, <1>2, <1>3

\* The status of one call changes.
LEMMA OneStatus ==
  ASSUME NEW c \in Calls, NEW x, Status(c)' = x,
         \A d \in Calls : d # c => Status(d)' = Status(d)
  PROVE  Statuses' = [Statuses EXCEPT ![c] = x]
BY DEF Statuses

\* A quiet step answers a refused call, lets an answered one return, closes the
\* queue, or does nothing that Handoff has.
LEMMA QuietRefines ==
  ASSUME IInv, Quiet
  PROVE  [Abstract!Next]_(Abstract!vars)
<1>0. /\ pc \in [Threads -> CallStates \cup WorkerStates \cup CloserStates]
      /\ QuietEffect
  BY QuietMoves DEF IInv, TypeOK
<1>. USE ThreadsAssumption DEF Threads
<1>1. UNCHANGED <<q, done, held>>
  BY <1>0 DEF QuietEffect
<1>2. ASSUME UNCHANGED closed, \A d \in Calls : Status(d)' = Status(d)
      PROVE  UNCHANGED Abstract!vars
  <2>1. Statuses' = Statuses
    BY <1>2 DEF Statuses
  <2>. QED
    BY <1>1, <1>2, <2>1 DEF Abstract!vars, Statuses
<1>3. ASSUME NEW c \in Calls, PushThrows(c) PROVE Abstract!Refuse(c)
  <2>1. /\ pc[c] = "pushing" /\ closed /\ pc'[c] = "refused" /\ UNCHANGED closed
        /\ \A d \in Calls : d # c => pc'[d] = pc[d]
    BY <1>0, <1>3 DEF PushThrows
  <2>2. Status(c) = "idle" /\ Status(c)' = "refused"
    BY <2>1 DEF Status
  <2>3. \A d \in Calls : d # c => Status(d)' = Status(d)
    BY <1>1, <2>1, SameStatus
  <2>4. Statuses' = [Statuses EXCEPT ![c] = "refused"]
    BY <2>2, <2>3, OneStatus
  <2>. QED
    BY <1>1, <2>1, <2>2, <2>4 DEF Abstract!Refuse, Statuses
<1>4. ASSUME NEW c \in Calls, AwaitReturns(c) PROVE Abstract!Return(c)
  <2>1. /\ pc[c] = "testing" /\ done[c] /\ pc'[c] = "returned" /\ UNCHANGED closed
        /\ \A d \in Calls : d # c => pc'[d] = pc[d]
    BY <1>0, <1>4 DEF AwaitReturns
  <2>2. Status(c) = "answered" /\ Status(c)' = "returned"
    BY <2>1 DEF Status
  <2>3. \A d \in Calls : d # c => Status(d)' = Status(d)
    BY <1>1, <2>1, SameStatus
  <2>4. Statuses' = [Statuses EXCEPT ![c] = "returned"]
    BY <2>2, <2>3, OneStatus
  <2>. QED
    BY <1>1, <2>1, <2>2, <2>4 DEF Abstract!Return, Statuses
<1>5. ASSUME NEW c \in Calls, PushLock(c) \/ AwaitLock(c) \/ AwaitWaits(c)
      PROVE  UNCHANGED Abstract!vars
  <2>1. /\ UNCHANGED closed
        /\ \/ pc[c] = "idle" /\ pc'[c] = "pushing"
           \/ pc[c] \in {"pushed", "woken", "testing"} /\ pc'[c] \in {"testing", "asleep"}
        /\ \A d \in Calls : d # c => pc'[d] = pc[d]
    BY <1>0, <1>5 DEF PushLock, AwaitLock, AwaitWaits
  <2>2. Status(c)' = Status(c)
    BY <1>1, <2>1, SameStatus DEF Outside
  <2>3. \A d \in Calls : d # c => Status(d)' = Status(d)
    BY <1>1, <2>1, SameStatus
  <2>. QED
    BY <1>2, <2>1, <2>2, <2>3
<1>6. ASSUME NEW w \in Workers, WorkerQuiet(w) PROVE UNCHANGED Abstract!vars
  <2>1. UNCHANGED closed /\ \A d \in Calls : pc'[d] = pc[d]
    BY <1>0, <1>6 DEF WorkerQuiet, PopLock, PopWaits, PopNull, DeliverLock, PollerLeaves
  <2>2. \A d \in Calls : Status(d)' = Status(d)
    BY <1>1, <2>1, SameStatus
  <2>. QED
    BY <1>2, <2>1, <2>2
<1>7. CASE Stop \/ CloseLock
  <2>1. UNCHANGED closed /\ \A d \in Calls : pc'[d] = pc[d]
    BY <1>0, <1>7 DEF Stop, CloseLock
  <2>2. \A d \in Calls : Status(d)' = Status(d)
    BY <1>1, <2>1, SameStatus
  <2>. QED
    BY <1>2, <2>1, <2>2
<1>8. CASE Close
  <2>1. closed' = TRUE /\ \A d \in Calls : pc'[d] = pc[d]
    BY <1>0, <1>8 DEF Close, Sleepers
  <2>2. \A d \in Calls : Status(d)' = Status(d)
    BY <1>1, <2>1, SameStatus
  <2>3. Statuses' = Statuses
    BY <2>2 DEF Statuses
  <2>. QED
    BY <1>1, <2>1, <2>3 DEF Abstract!Close, Abstract!Next, Statuses
<1>9. ASSUME NEW t \in Calls \cup Workers, SpuriousWakeup(t) PROVE UNCHANGED Abstract!vars
  <2>1. /\ UNCHANGED closed
        /\ \A d \in Calls : pc'[d] = pc[d] \/ (pc[d] = "asleep" /\ pc'[d] = "woken")
    BY <1>0, <1>9 DEF SpuriousWakeup
  <2>2. \A d \in Calls : Status(d)' = Status(d)
    BY <1>1, <2>1, SameStatus DEF Outside
  <2>. QED
    BY <1>2, <2>1, <2>2
<1>10. CASE UNCHANGED vars
  BY <1>2, <1>10, SameStatus DEF vars
<1>. QED
  BY <1>3, <1>4, <1>5, <1>6, <1>7, <1>8, <1>9, <1>10
  DEF Quiet, CallQuiet, Abstract!Next

\* Push is Accept.
LEMMA PushRefines ==
  ASSUME IInv, NEW c \in Calls, Push(c)
  PROVE  Abstract!Accept(c)
<1>1. /\ pc[c] = "pushing" /\ ~closed /\ pc'[c] = "pushed"
      /\ UNCHANGED <<closed, done, held>>
      /\ q' = Append(q, c)
      /\ \A d \in Calls : d # c => pc'[d] = pc[d]
  BY PushMoves
<1>2. ~done[c] /\ \A w \in Workers : held[w] # c
  BY <1>1 DEF IInv, CallInv, OneOwner, Holders, Outside
<1>3. Status(c) = "idle" /\ Status(c)' = "queued"
  BY <1>1, <1>2 DEF Status
<1>4. \A d \in Calls : d # c => Status(d)' = Status(d)
  BY <1>1, SameStatus
<1>5. Statuses' = [Statuses EXCEPT ![c] = "queued"]
  BY <1>3, <1>4, OneStatus
<1>. QED
  BY <1>1, <1>3, <1>5 DEF Abstract!Accept, Statuses

\* Pop is Take.
LEMMA PopRefines ==
  ASSUME IInv, NEW w \in Workers, Pop(w)
  PROVE  \E c \in Calls : Abstract!Take(c)
<1>0. PICK h \in Calls : h = Head(q)
  BY HeadGone DEF Pop, IInv, TypeOK
<1>1. /\ pc[w] = "popping" /\ q # <<>> /\ q' = Tail(q)
      /\ held' = [held EXCEPT ![w] = h] /\ pc' = [pc EXCEPT ![w] = "deliver"]
      /\ UNCHANGED <<closed, done>>
  BY <1>0 DEF Pop
<1>2. /\ q \in Seq(Calls) /\ held \in [Workers -> Calls \cup {None}]
      /\ pc \in [Threads -> CallStates \cup WorkerStates \cup CloserStates]
  BY DEF IInv, TypeOK
<1>3. /\ held'[w] = h /\ held[w] = None
      /\ \A v \in Workers : v # w => held'[v] = held[v]
      /\ \A d \in Calls : pc'[d] = pc[d] /\ d # None
  BY <1>1, <1>2, ThreadsAssumption DEF Threads, IInv, HeldInv, Delivery
<1>4. pc[h] \notin Outside /\ ~done[h]
  <2>1. \E i \in 1 .. Len(q) : q[i] = h
    BY <1>0, <1>1, <1>2, HeadGone
  <2>. QED
    BY <2>1 DEF IInv, OneOwner, Owned, Outside
<1>5. pc[h] # "returned"
  BY <1>4 DEF IInv, CallInv
<1>6. Status(h)' = "taken"
  BY <1>1, <1>3, <1>4, <1>5 DEF Status, Outside
<1>7. \A d \in Calls : d # h => Status(d)' = Status(d)
  BY <1>1, <1>3, SameStatus
<1>8. Statuses' = [Statuses EXCEPT ![h] = "taken"]
  BY <1>6, <1>7, OneStatus
<1>. QED
  BY <1>0, <1>1, <1>8 DEF Abstract!Take, Statuses

\* Deliver is Answer.
LEMMA DeliverRefines ==
  ASSUME IInv, NEW w \in Workers, Deliver(w)
  PROVE  \E c \in Calls : Abstract!Answer(c)
<1>0. PICK c \in Calls : c = held[w]
  BY DEF Deliver, IInv, TypeOK, HeldInv, Delivery
<1>1. /\ done' = [done EXCEPT ![c] = TRUE]
      /\ pc' = IF pc[c] = "asleep" THEN [pc EXCEPT ![w] = "ready", ![c] = "woken"]
               ELSE [pc EXCEPT ![w] = "ready"]
      /\ held' = [held EXCEPT ![w] = None]
      /\ UNCHANGED <<q, closed>>
  BY <1>0 DEF Deliver
<1>2. /\ held \in [Workers -> Calls \cup {None}] /\ done \in [Calls -> BOOLEAN]
      /\ pc \in [Threads -> CallStates \cup WorkerStates \cup CloserStates]
  BY DEF IInv, TypeOK
<1>3. /\ done'[c] = TRUE
      /\ pc'[c] = IF pc[c] = "asleep" THEN "woken" ELSE pc[c]
      /\ \A d \in Calls : d # c => pc'[d] = pc[d] /\ done'[d] = done[d]
      /\ \A v \in Workers : v # w => held'[v] = held[v]
      /\ held'[w] = None /\ \A d \in Calls : d # None
  BY <1>0, <1>1, <1>2, ThreadsAssumption DEF Threads
<1>4. w \in Holders(c)
  BY <1>0 DEF Holders
<1>5. pc[c] \notin Outside /\ ~done[c]
  BY <1>4 DEF IInv, OneOwner, Outside
<1>6. pc[c] # "returned"
  BY <1>5 DEF IInv, CallInv
<1>7. Status(c) = "taken" /\ Status(c)' = "answered"
  BY <1>0, <1>3, <1>5, <1>6 DEF Status, Outside
<1>8. \A d \in Calls : d # c => Status(d)' = Status(d)
  BY <1>0, <1>3, SameStatus
<1>9. Statuses' = [Statuses EXCEPT ![c] = "answered"]
  BY <1>7, <1>8, OneStatus
<1>. QED
  BY <1>1, <1>7, <1>9 DEF Abstract!Answer, Statuses

\* Each operation of the two types, locks and sleep and all, is one step of
\* Handoff.
THEOREM HandoffImplemented == Spec => ImplementsHandoff
<1>1. Init => Abstract!Init
  <2>. SUFFICES ASSUME Init PROVE Abstract!Init
    OBVIOUS
  <2>1. \A c \in Calls : pc[c] = "idle"
    BY ThreadsAssumption DEF Init, Threads
  <2>2. \A c \in Calls : Status(c) = "idle"
    BY <2>1 DEF Status
  <2>. QED
    BY <2>2 DEF Init, Abstract!Init
<1>2. IInv /\ [Next]_vars => [Abstract!Next]_(Abstract!vars)
  <2>. SUFFICES ASSUME IInv, [Next]_vars PROVE [Abstract!Next]_(Abstract!vars)
    OBVIOUS
  <2>1. CASE Quiet
    BY <2>1, QuietRefines
  <2>2. ASSUME NEW c \in Calls, Push(c) PROVE Abstract!Next
    BY <2>2, PushRefines DEF Abstract!Next
  <2>3. ASSUME NEW w \in Workers, Pop(w) PROVE Abstract!Next
    BY <2>3, PopRefines DEF Abstract!Next
  <2>4. ASSUME NEW w \in Workers, Deliver(w) PROVE Abstract!Next
    BY <2>4, DeliverRefines DEF Abstract!Next
  <2>. QED
    BY <2>1, <2>2, <2>3, <2>4, Steps
<1>. QED
  BY <1>1, <1>2, InvCorrect, PTL DEF Spec, ImplementsHandoff, Abstract!Spec
=============================================================================
