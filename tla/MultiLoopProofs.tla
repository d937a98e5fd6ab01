-------------------------- MODULE MultiLoopProofs --------------------------
(***************************************************************************)
(* The sets of curl's multi handle stay consistent, no transfer is         *)
(* stranded, and the loop of Run never sleeps over work, for any number of *)
(* transfers and any limit of connections; the loop and curl together      *)
(* implement TransferStack.                                                *)
(***************************************************************************)
EXTENDS MultiLoop, SequenceTheorems, FiniteSetTheorems, WellFoundedInduction,
        NaturalsInduction, TLAPS

Live == {t \in Transfers : mstate[t] \notin {"off", "MSGSENT"}}

\* SetsAgree with all sets read from the states, and one count.
Sets ==
  /\ pending = {t \in Transfers : mstate[t] = "PENDING"}
  /\ msgsent = {t \in Transfers : mstate[t] = "MSGSENT"}
  /\ process = {t \in Transfers : mstate[t] \notin {"off", "PENDING", "MSGSENT"}}
  /\ dirty \subseteq process
  /\ alive = Cardinality(Live)
  /\ conn = {t \in Transfers : mstate[t] \in {"CONNECTING", "PERFORMING", "DONE"}}
  /\ Limit > 0 => Cardinality(conn) <= Limit

\* A transfer that is about to ask for a connection.
Asks(t) ==
  /\ t \in process /\ mstate[t] = "CONNECT"
  /\ t \in dirty \/ (phase = "run" /\ cursor = t)

\* The invariant of the multi handle.
MInv == MultiTypeOK /\ Sets /\ NoStrandedPending /\ MessagesValid

\* The sets of transfers are finite.
LEMMA FiniteTransfers ==
  /\ N \in Nat /\ IsFiniteSet(Transfers)
  /\ \A S \in SUBSET Transfers : IsFiniteSet(S) /\ Cardinality(S) \in Nat
<1>1. N \in Nat
  BY SizesAssumption
<1>2. IsFiniteSet(Transfers)
  BY <1>1, FS_Interval DEF Transfers
<1>3. \A S \in SUBSET Transfers : IsFiniteSet(S)
  BY <1>2, FS_Subset
<1>. QED
  BY <1>1, <1>2, <1>3, FS_CardinalityType

\* Sets says what SetsAgree says.
LEMMA SetsForm == Sets => SetsAgree
<1>. SUFFICES ASSUME Sets PROVE SetsAgree
  OBVIOUS
<1>1. process = OnStack \ (pending \cup msgsent)
  BY DEF Sets, OnStack
<1>2. Live = process \cup pending /\ process \cap pending = {}
  BY DEF Sets, Live
<1>3. process \in SUBSET Transfers /\ pending \in SUBSET Transfers
  BY DEF Sets
<1>4. Cardinality(Live) = Cardinality(process) + Cardinality(pending) - Cardinality({})
  BY <1>2, <1>3, FiniteTransfers, FS_Union
<1>5. Cardinality(Live) = Cardinality(process) + Cardinality(pending)
  BY <1>3, <1>4, FiniteTransfers, FS_EmptySet
<1>. QED
  BY <1>1, <1>5 DEF Sets, SetsAgree

\* A non-empty set of numbers has a smallest one.
LEMMA SmallestTransfer ==
  ASSUME NEW S \in SUBSET Nat, S # {}
  PROVE  \E n \in S : \A m \in S : ~(m < n)
<1>1. IsWellFoundedOn(OpToRel(<, Nat), Nat)
  BY NatLessThanWellFounded
<1>2. PICK n \in S : \A m \in S : ~(<<m, n>> \in OpToRel(<, Nat))
  BY <1>1, WFMin
<1>. QED
  BY <1>2 DEF OpToRel

\* process_pending_handles moves somebody when there is somebody.
LEMMA WokenSome ==
  ASSUME NEW p \in SUBSET Transfers, NEW k \in {1, 2}
  PROVE  Woken(p, k) \subseteq p /\ (p # {} => Woken(p, k) # {})
<1>1. ASSUME p # {} PROVE Woken(p, k) # {}
  <2>1. p \in SUBSET Nat
    BY FiniteTransfers DEF Transfers
  <2>2. PICK t \in p : \A u \in p : ~(u < t)
    BY <1>1, <2>1, SmallestTransfer
  <2>3. {u \in p : u < t} = {}
    BY <2>2
  <2>4. Cardinality({u \in p : u < t}) < k
    BY <2>3, FS_EmptySet
  <2>. QED
    BY <2>4 DEF Woken
<1>. QED
  BY <1>1 DEF Woken

\* Counting what is live when one more is, or one fewer.
LEMMA LiveCount ==
  ASSUME NEW t \in Transfers
  PROVE  /\ Live' = Live => Cardinality(Live') = Cardinality(Live)
         /\ Live' = Live \cup {t} /\ t \notin Live => Cardinality(Live') = Cardinality(Live) + 1
         /\ Live' = Live \ {t} /\ t \in Live => Cardinality(Live') = Cardinality(Live) - 1
<1>1. IsFiniteSet(Live)
  BY FiniteTransfers DEF Live
<1>. QED
  BY <1>1, FS_AddElement, FS_RemoveElement

\* What WokenAnd does to the states.
LEMMA WokenStates ==
  ASSUME MInv, NEW w \in SUBSET pending, NEW t \in Transfers, t \notin w, NEW s,
         mstate' = WokenAnd(w, t, s)
  PROVE  /\ mstate'[t] = s
         /\ \A u \in w : u \in Transfers /\ mstate[u] = "PENDING" /\ mstate'[u] = "CONNECT"
         /\ \A u \in Transfers : u # t /\ u \notin w => mstate'[u] = mstate[u]
BY DEF WokenAnd, MInv, Sets

----------------------------------------------------------------------------
(* The steps of the multi handle.                                          *)

\* A step that changes no set: sleeping, waking, reading and writing the pair.
LEMMA IdleKeepsMInv ==
  ASSUME MInv, MultiTypeOK', UNCHANGED <<mstate, setVars, msglist, conn>>,
         phase # "run" \/ UNCHANGED <<phase, cursor>>
  PROVE  MInv'
<1>1. UNCHANGED <<mstate, process, pending, dirty, msgsent, alive, msglist, conn>>
  BY DEF setVars
<1>2. Sets' /\ MessagesValid'
  BY <1>1 DEF MInv, Sets, Live, MessagesValid
<1>3. NoStrandedPending'
  BY <1>1 DEF MInv, NoStrandedPending, ConnectionAvailable
<1>. QED
  BY <1>2, <1>3 DEF MInv

\* Those steps one by one.
LEMMA IdleSteps ==
  ASSUME MInv, PerformBegin \/ PollWoken \/ PollReturns \/ DrainRead \/ DrainEnd \/ Wakeup
  PROVE  MInv'
<1>. USE DEF MInv, MultiTypeOK, setVars
<1>0. N \in Nat /\ PairCapacity \in Nat /\ PairCapacity > 0 /\ ReadSize \in Nat
  BY SizesAssumption
<1>1. CASE PerformBegin
  BY <1>0, <1>1, IdleKeepsMInv DEF PerformBegin
<1>2. CASE PollWoken
  BY <1>2, IdleKeepsMInv DEF PollWoken
<1>3. CASE PollReturns
  BY <1>3, IdleKeepsMInv DEF PollReturns
<1>4. CASE DrainRead
  <2>1. bytes' \in 0 .. PairCapacity
    BY <1>0, <1>4 DEF DrainRead
  <2>. QED
    BY <1>4, <2>1, IdleKeepsMInv DEF DrainRead
<1>5. CASE DrainEnd
  BY <1>5, IdleKeepsMInv DEF DrainEnd
<1>6. CASE Wakeup
  <2>1. bytes' \in 0 .. PairCapacity
    BY <1>0, <1>6 DEF Wakeup
  <2>. QED
    BY <1>6, <2>1, IdleKeepsMInv DEF Wakeup
<1>. QED
  BY <1>1, <1>2, <1>3, <1>4, <1>5, <1>6

\* The poll begins: the transfers that are not to be run are no longer dirty.
LEMMA PollBeginKeepsMInv ==
  ASSUME MInv, PollBegin
  PROVE  MInv'
<1>. USE DEF MInv, PollBegin
<1>1. MultiTypeOK'
  BY DEF MultiTypeOK
<1>2. Sets' /\ MessagesValid'
  BY DEF Sets, Live, MessagesValid
<1>3. NoStrandedPending'
  BY DEF NoStrandedPending, ConnectionAvailable
<1>. QED
  BY <1>1, <1>2, <1>3

\* A handle is added.
LEMMA AddKeepsMInv ==
  ASSUME MInv, NEW t \in Transfers, AddHandle(t)
  PROVE  MInv'
<1>1. /\ mstate[t] = "off" /\ mstate' = [mstate EXCEPT ![t] = "INIT"]
      /\ process' = process \cup {t} /\ dirty' = dirty \cup {t} /\ alive' = alive + 1
      /\ phase = "app"
      /\ UNCHANGED <<pending, msgsent, msglist, conn, late, phase, cursor, bytes>>
  BY DEF AddHandle
<1>2. mstate \in [Transfers -> MStates]
  BY DEF MInv, MultiTypeOK
<1>3. mstate'[t] = "INIT" /\ \A u \in Transfers : u # t => mstate'[u] = mstate[u]
  BY <1>1, <1>2
<1>4. alive' = Cardinality(Live')
  <2>1. Live' = Live \cup {t} /\ t \notin Live
    BY <1>1, <1>3 DEF Live
  <2>. QED
    BY <1>1, <2>1, LiveCount DEF MInv, Sets
<1>5. alive' \in Nat
  BY <1>1 DEF MInv, MultiTypeOK
<1>6. MultiTypeOK'
  BY <1>1, <1>5 DEF MInv, MultiTypeOK, MStates
<1>7. Sets'
  BY <1>1, <1>3, <1>4 DEF MInv, Sets
<1>8. MessagesValid'
  BY <1>1 DEF MInv, MessagesValid
<1>9. NoStrandedPending'
  BY <1>1, <1>3 DEF MInv, NoStrandedPending, ConnectionAvailable
<1>. QED
  BY <1>6, <1>7, <1>8, <1>9 DEF MInv

\* The next transfer of the walk.
LEMMA RunBeginKeepsMInv ==
  ASSUME MInv, RunBegin
  PROVE  MInv'
<1>1. PICK t \in process : /\ cursor' = t /\ dirty' = dirty \ {t}
                           /\ phase = "walk" /\ phase' = "run"
                           /\ UNCHANGED <<mstate, process, pending, msgsent, alive, msglist, conn, late, bytes>>
  BY DEF RunBegin, Ahead
<1>2. t \in Transfers
  BY DEF MInv, Sets
<1>3. MultiTypeOK'
  BY <1>1, <1>2, FiniteTransfers DEF MInv, MultiTypeOK, Transfers
<1>4. Sets' /\ MessagesValid'
  BY <1>1 DEF MInv, Sets, Live, MessagesValid
<1>5. NoStrandedPending'
  BY <1>1 DEF MInv, NoStrandedPending, ConnectionAvailable
<1>. QED
  BY <1>3, <1>4, <1>5 DEF MInv

\* Pending transfers are moved, and no other changes.
LEMMA WakeKeepsMInv ==
  ASSUME MInv, NEW w \in SUBSET pending, mstate' = WokenAnd(w, 0, "off"),
         process' = process \cup w, dirty' = dirty \cup w, pending' = pending \ w,
         UNCHANGED <<msgsent, alive, msglist, conn, late, bytes>>,
         \/ UNCHANGED <<phase, cursor>> /\ w # {}
         \/ phase = "walk" /\ phase' = "app" /\ cursor' = 0
  PROVE  MInv'
<1>1. 0 \notin Transfers
  BY DEF Transfers
<1>2. \A u \in Transfers : mstate'[u] = IF u \in w THEN "CONNECT" ELSE mstate[u]
  BY <1>1 DEF WokenAnd
<1>3. \A u \in w : u \in Transfers /\ mstate[u] = "PENDING"
  BY DEF MInv, Sets
<1>4. MultiTypeOK'
  <2>1. mstate' \in [Transfers -> MStates]
    BY <1>1, <1>2 DEF MInv, MultiTypeOK, WokenAnd, MStates
  <2>2. process' \subseteq Transfers /\ pending' \subseteq Transfers /\ dirty' \subseteq Transfers
    BY <1>3 DEF MInv, MultiTypeOK
  <2>3. cursor' \in 0 .. N /\ (phase' = "run" => cursor' \in Transfers)
    BY FiniteTransfers DEF MInv, MultiTypeOK
  <2>. QED
    BY <2>1, <2>2, <2>3 DEF MInv, MultiTypeOK
<1>5. Live' = Live
  BY <1>2, <1>3 DEF Live
<1>6. Sets'
  <2>1. alive' = Cardinality(Live')
    BY <1>5 DEF MInv, Sets
  <2>2. /\ pending' = {t \in Transfers : mstate'[t] = "PENDING"}
        /\ msgsent' = {t \in Transfers : mstate'[t] = "MSGSENT"}
        /\ conn' = {t \in Transfers : mstate'[t] \in {"CONNECTING", "PERFORMING", "DONE"}}
    BY <1>2, <1>3 DEF MInv, Sets
  <2>3. /\ process' = {t \in Transfers : mstate'[t] \notin {"off", "PENDING", "MSGSENT"}}
        /\ dirty' \subseteq process'
    BY <1>2, <1>3 DEF MInv, Sets
  <2>. QED
    BY <2>1, <2>2, <2>3 DEF MInv, Sets
<1>7. MessagesValid'
  BY DEF MInv, MessagesValid
<1>8. NoStrandedPending'
  <2>1. CASE w # {}
    BY <1>2, <1>3, <2>1 DEF NoStrandedPending
  <2>2. CASE w = {} /\ phase = "walk"
    BY <1>2, <2>2 DEF MInv, Sets, NoStrandedPending, ConnectionAvailable
  <2>. QED
    BY <2>1, <2>2
<1>. QED
  BY <1>4, <1>6, <1>7, <1>8 DEF MInv

\* A connection was closed, or the walk is over.
LEMMA WakeSteps ==
  ASSUME MInv, ConnChanged \/ PerformEnd
  PROVE  MInv'
<1>1. CASE ConnChanged
  <2>1. PICK w : w = Woken(pending, 1)
    OBVIOUS
  <2>2. pending # {} /\ pending \in SUBSET Transfers
    BY <1>1 DEF ConnChanged, MInv, MultiTypeOK
  <2>3. w \in SUBSET pending /\ w # {}
    BY <2>1, <2>2, WokenSome
  <2>4. /\ mstate' = WokenAnd(w, 0, "off") /\ process' = process \cup w
        /\ dirty' = dirty \cup w /\ pending' = pending \ w
        /\ UNCHANGED <<msgsent, alive, msglist, conn, late, phase, cursor, bytes>>
    BY <1>1, <2>1 DEF ConnChanged
  <2>. QED
    BY <2>3, <2>4, WakeKeepsMInv
<1>2. CASE PerformEnd
  <2>1. PICK w : w = pending \cap late
    OBVIOUS
  <2>2. w \in SUBSET pending
    BY <2>1
  <2>3. /\ mstate' = WokenAnd(w, 0, "off") /\ process' = process \cup w
        /\ dirty' = dirty \cup w /\ pending' = pending \ w
        /\ phase = "walk" /\ phase' = "app" /\ cursor' = 0
        /\ UNCHANGED <<msgsent, alive, msglist, conn, late, bytes>>
    BY <1>2, <2>1 DEF PerformEnd
  <2>. QED
    BY <2>2, <2>3, WakeKeepsMInv
<1>. QED
  BY <1>1, <1>2

\* A transfer is over.
LEMMA CompleteKeepsMInv ==
  ASSUME MInv, NEW t \in Transfers, NEW k \in {1, 2}, Complete(t, k),
         t \in process, phase = "run", cursor = t
  PROVE  MInv'
<1>1. PICK w : w = Woken(pending, k)
  OBVIOUS
<1>2. pending \in SUBSET Transfers /\ w \in SUBSET pending /\ (pending # {} => w # {})
  BY <1>1, WokenSome DEF MInv, MultiTypeOK
<1>3. /\ mstate' = WokenAnd(w, t, "MSGSENT")
      /\ process' = (process \cup w) \ {t} /\ dirty' = (dirty \cup w) \ {t}
      /\ pending' = pending \ w /\ msgsent' = msgsent \cup {t}
      /\ alive' = alive - 1 /\ msglist' = Append(msglist, t) /\ conn' = conn \ {t}
      /\ phase' = "walk" /\ UNCHANGED <<late, cursor, bytes>>
  BY <1>1 DEF Complete
<1>4. t \notin pending /\ t \notin w /\ t \notin msgsent /\ mstate[t] \notin {"off", "MSGSENT"}
  BY <1>2 DEF MInv, Sets
<1>5. /\ mstate'[t] = "MSGSENT"
      /\ \A u \in w : u \in Transfers /\ mstate[u] = "PENDING" /\ mstate'[u] = "CONNECT"
      /\ \A u \in Transfers : u # t /\ u \notin w => mstate'[u] = mstate[u]
  BY <1>2, <1>3, <1>4, WokenStates
<1>6. Live' = Live \ {t} /\ t \in Live
  BY <1>4, <1>5 DEF Live
<1>7. alive' = Cardinality(Live') /\ alive' \in Nat
  <2>1. alive' = Cardinality(Live')
    BY <1>3, <1>6, LiveCount DEF MInv, Sets
  <2>2. Live' \in SUBSET Transfers
    BY DEF Live
  <2>. QED
    BY <2>1, <2>2, FiniteTransfers
<1>8. MultiTypeOK'
  <2>1. mstate' \in [Transfers -> MStates]
    BY <1>3 DEF MInv, MultiTypeOK, WokenAnd, MStates
  <2>2. msglist' \in Seq(Transfers)
    BY <1>3, AppendProperties DEF MInv, MultiTypeOK
  <2>3. /\ process' \subseteq Transfers /\ pending' \subseteq Transfers
        /\ dirty' \subseteq Transfers /\ msgsent' \subseteq Transfers /\ conn' \subseteq Transfers
    BY <1>2, <1>3 DEF MInv, MultiTypeOK
  <2>. QED
    BY <1>3, <1>7, <2>1, <2>2, <2>3 DEF MInv, MultiTypeOK
<1>9. Sets'
  <2>1. /\ pending' = {u \in Transfers : mstate'[u] = "PENDING"}
        /\ msgsent' = {u \in Transfers : mstate'[u] = "MSGSENT"}
        /\ conn' = {u \in Transfers : mstate'[u] \in {"CONNECTING", "PERFORMING", "DONE"}}
    BY <1>3, <1>4, <1>5 DEF MInv, Sets
  <2>2. /\ process' = {u \in Transfers : mstate'[u] \notin {"off", "PENDING", "MSGSENT"}}
        /\ dirty' \subseteq process'
    BY <1>3, <1>4, <1>5 DEF MInv, Sets
  <2>3. Limit > 0 => Cardinality(conn') <= Limit
    <3>1. conn \in SUBSET Transfers /\ conn' \subseteq conn /\ conn' \in SUBSET Transfers
      BY <1>3 DEF MInv, MultiTypeOK
    <3>2. Cardinality(conn') <= Cardinality(conn)
      BY <3>1, FiniteTransfers, FS_Subset
    <3>. QED
      BY <3>1, <3>2, FiniteTransfers, SizesAssumption DEF MInv, Sets
  <2>. QED
    BY <1>7, <2>1, <2>2, <2>3 DEF Sets
<1>10. MessagesValid'
  <2>1. /\ Len(msglist') = Len(msglist) + 1 /\ msglist'[Len(msglist) + 1] = t
        /\ \A i \in 1 .. Len(msglist) : msglist'[i] = msglist[i]
        /\ Len(msglist) \in Nat
    BY <1>3, AppendProperties DEF MInv, MultiTypeOK
  <2>2. \A i \in 1 .. Len(msglist') : i \in 1 .. Len(msglist) \/ i = Len(msglist) + 1
    BY <2>1
  <2>3. \A i \in 1 .. Len(msglist) : msglist[i] \in msgsent /\ msglist[i] # t
    BY <1>4 DEF MInv, MessagesValid
  <2>4. \A i \in 1 .. Len(msglist') : msglist'[i] \in msgsent'
    BY <1>3, <2>1, <2>2, <2>3
  <2>5. \A i, j \in 1 .. Len(msglist') : msglist'[i] = msglist'[j] => i = j
    BY <2>1, <2>2, <2>3 DEF MInv, MessagesValid
  <2>. QED
    BY <2>4, <2>5 DEF MessagesValid
<1>11. NoStrandedPending'
  <2>1. CASE pending = {}
    BY <1>3, <2>1 DEF NoStrandedPending
  <2>2. CASE w # {}
    <3>1. \A u \in w : u \in process' /\ u \in dirty' /\ mstate'[u] = "CONNECT"
      BY <1>3, <1>4, <1>5
    <3>. QED
      BY <2>2, <3>1 DEF NoStrandedPending
  <2>. QED
    BY <1>2, <2>1, <2>2
<1>. QED
  BY <1>8, <1>9, <1>10, <1>11 DEF MInv

\* A transfer goes on to another state, of those that need a connection if it
\* has one, and of those that do not if it has none.
LEMMA GoesToKeepsMInv ==
  ASSUME MInv, NEW t \in Transfers, NEW s, NEW next \in {"run", "walk"}, GoesTo(t, s, next),
         phase = "run", cursor = t, mstate[t] \notin {"off", "PENDING", "MSGSENT"},
         \/ s = "CONNECT" /\ next = "run" /\ t \notin conn
         \/ s \in {"CONNECTING", "PERFORMING", "DONE"} /\ t \in conn
  PROVE  MInv'
<1>1. /\ mstate' = [mstate EXCEPT ![t] = s] /\ phase' = next
      /\ UNCHANGED <<process, pending, dirty, msgsent, alive, msglist, conn, late, cursor, bytes>>
  BY DEF GoesTo, setVars
<1>2. mstate \in [Transfers -> MStates] /\ s \in MStates \ {"off", "PENDING", "MSGSENT"}
  BY DEF MInv, MultiTypeOK, MStates
<1>3. mstate'[t] = s /\ \A u \in Transfers : u # t => mstate'[u] = mstate[u]
  BY <1>1, <1>2
<1>4. MultiTypeOK'
  BY <1>1, <1>2 DEF MInv, MultiTypeOK
<1>5. Live' = Live
  BY <1>2, <1>3 DEF Live
<1>6. Sets'
  BY <1>1, <1>2, <1>3, <1>5 DEF MInv, Sets
<1>7. MessagesValid'
  BY <1>1 DEF MInv, MessagesValid
<1>8. NoStrandedPending'
  <2>1. CASE s = "CONNECT" /\ next = "run"
    <3>1. t \in process
      BY DEF MInv, Sets
    <3>. QED
      BY <1>1, <1>3, <2>1, <3>1 DEF NoStrandedPending
  <2>2. CASE t \in conn
    <3>1. mstate[t] # "CONNECT"
      BY <2>2 DEF MInv, Sets
    <3>2. \A u \in process : Asks(u) => u # t /\ u \in dirty
      BY <3>1 DEF Asks
    <3>3. \A u \in process : u \in Transfers
      BY DEF MInv, Sets
    <3>4. \A u \in process : Asks(u) => Asks(u)'
      BY <1>1, <1>3, <3>2, <3>3 DEF Asks
    <3>. QED
      BY <1>1, <3>4 DEF MInv, NoStrandedPending, ConnectionAvailable, Asks
  <2>. QED
    BY <2>1, <2>2
<1>. QED
  BY <1>4, <1>6, <1>7, <1>8 DEF MInv

\* A transfer waits for a connection: there is none.
LEMMA PendingKeepsMInv ==
  ASSUME MInv, NEW t \in Transfers, GoesPending(t)
  PROVE  MInv'
<1>1. /\ phase = "run" /\ cursor = t /\ mstate[t] = "CONNECT" /\ ~ConnectionAvailable
      /\ mstate' = [mstate EXCEPT ![t] = "PENDING"]
      /\ process' = process \ {t} /\ dirty' = dirty \ {t} /\ pending' = pending \cup {t}
      /\ phase' = "walk"
      /\ UNCHANGED <<msgsent, alive, msglist, conn, late, cursor, bytes>>
  BY DEF GoesPending, InTime, Runs
<1>2. mstate \in [Transfers -> MStates]
  BY DEF MInv, MultiTypeOK
<1>3. mstate'[t] = "PENDING" /\ \A u \in Transfers : u # t => mstate'[u] = mstate[u]
  BY <1>1, <1>2
<1>4. MultiTypeOK'
  BY <1>1, <1>2 DEF MInv, MultiTypeOK, MStates
<1>5. Live' = Live
  BY <1>1, <1>3 DEF Live
<1>6. Sets'
  BY <1>1, <1>3, <1>5 DEF MInv, Sets
<1>7. MessagesValid'
  BY <1>1 DEF MInv, MessagesValid
<1>8. NoStrandedPending'
  BY <1>1 DEF NoStrandedPending, ConnectionAvailable
<1>. QED
  BY <1>4, <1>6, <1>7, <1>8 DEF MInv

\* A transfer gets a connection, or gives it back for another request, and one
\* that is pending is moved.
LEMMA TurnKeepsMInv ==
  ASSUME MInv, NEW t \in Transfers, Connects(t) \/ Again(t)
  PROVE  MInv'
<1>1. PICK w : w = Woken(pending, 1)
  OBVIOUS
<1>2. pending \in SUBSET Transfers /\ w \in SUBSET pending /\ (pending # {} => w # {})
  BY <1>1, WokenSome DEF MInv, MultiTypeOK
<1>3. PICK s \in {"CONNECTING", "SETUP"} :
        /\ mstate' = WokenAnd(w, t, s) /\ process' = process \cup w
        /\ dirty' = dirty \cup w /\ pending' = pending \ w
        /\ mstate[t] \in {"CONNECT", "CONNECTING", "PERFORMING"} /\ cursor = t
        /\ \/ s = "CONNECTING" /\ conn' = conn \cup {t} /\ ConnectionAvailable
           \/ s = "SETUP" /\ conn' = conn \ {t}
        /\ phase' \in {"run", "walk"}
        /\ UNCHANGED <<msgsent, alive, msglist, late, cursor, bytes>>
  BY <1>1 DEF Connects, Again, InTime, Runs
<1>4. t \notin pending /\ t \notin w /\ t \in process
  BY <1>2, <1>3 DEF MInv, Sets
<1>5. /\ mstate'[t] = s
      /\ \A u \in w : u \in Transfers /\ mstate[u] = "PENDING" /\ mstate'[u] = "CONNECT"
      /\ \A u \in Transfers : u # t /\ u \notin w => mstate'[u] = mstate[u]
  BY <1>2, <1>3, <1>4, WokenStates
<1>6. Live' = Live
  BY <1>3, <1>5 DEF Live
<1>7. MultiTypeOK'
  <2>1. mstate' \in [Transfers -> MStates]
    BY <1>3 DEF MInv, MultiTypeOK, WokenAnd, MStates
  <2>2. /\ process' \subseteq Transfers /\ pending' \subseteq Transfers
        /\ dirty' \subseteq Transfers /\ conn' \subseteq Transfers
    BY <1>2, <1>3 DEF MInv, MultiTypeOK
  <2>. QED
    BY <1>3, <2>1, <2>2 DEF MInv, MultiTypeOK
<1>8. Sets'
  <2>1. /\ pending' = {u \in Transfers : mstate'[u] = "PENDING"}
        /\ msgsent' = {u \in Transfers : mstate'[u] = "MSGSENT"}
    BY <1>3, <1>4, <1>5 DEF MInv, Sets
  <2>2. conn' = {u \in Transfers : mstate'[u] \in {"CONNECTING", "PERFORMING", "DONE"}}
    BY <1>3, <1>4, <1>5 DEF MInv, Sets
  <2>3. /\ process' = {u \in Transfers : mstate'[u] \notin {"off", "PENDING", "MSGSENT"}}
        /\ dirty' \subseteq process'
    BY <1>3, <1>4, <1>5 DEF MInv, Sets
  <2>4. Limit > 0 => Cardinality(conn') <= Limit
    <3>0. conn \in SUBSET Transfers /\ Limit \in Nat
      BY SizesAssumption DEF MInv, MultiTypeOK
    <3>1. CASE conn' = conn \cup {t} /\ ConnectionAvailable
      <4>1. Cardinality(conn') <= Cardinality(conn) + 1
        BY <3>0, <3>1, FiniteTransfers, FS_AddElement
      <4>2. Limit > 0 => Cardinality(conn) < Limit
        BY <3>0, <3>1 DEF ConnectionAvailable
      <4>3. Cardinality(conn) \in Nat /\ Cardinality(conn') \in Nat
        BY <3>0, <3>1, FiniteTransfers
      <4>. QED
        BY <3>0, <4>1, <4>2, <4>3
    <3>2. CASE conn' = conn \ {t}
      <4>1. Cardinality(conn') <= Cardinality(conn)
        BY <3>0, <3>2, FiniteTransfers, FS_Subset
      <4>2. Cardinality(conn) \in Nat /\ Cardinality(conn') \in Nat
        BY <3>0, <3>2, FiniteTransfers
      <4>. QED
        BY <3>0, <4>1, <4>2 DEF MInv, Sets
    <3>. QED
      BY <1>3, <3>1, <3>2
  <2>5. alive' = Cardinality(Live')
    BY <1>3, <1>6 DEF MInv, Sets
  <2>. QED
    BY <2>1, <2>2, <2>3, <2>4, <2>5 DEF Sets
<1>9. MessagesValid'
  BY <1>3 DEF MInv, MessagesValid
<1>10. NoStrandedPending'
  <2>1. CASE pending = {}
    BY <1>3, <2>1 DEF NoStrandedPending
  <2>2. CASE w # {}
    <3>1. \A u \in w : u \in process' /\ u \in dirty' /\ mstate'[u] = "CONNECT"
      BY <1>3, <1>5
    <3>. QED
      BY <2>2, <3>1 DEF NoStrandedPending
  <2>. QED
    BY <1>2, <2>1, <2>2
<1>. QED
  BY <1>7, <1>8, <1>9, <1>10 DEF MInv

\* Every turn of the loop of multi_runsingle.
LEMMA RunSingleKeepsMInv ==
  ASSUME MInv, NEW t \in Transfers, RunSingle(t)
  PROVE  MInv'
<1>. USE DEF InTime, Runs, TimedStates
<1>1. ASSUME NEW k \in {1, 2}, Complete(t, k), phase = "run", cursor = t,
             mstate[t] \notin {"off", "PENDING", "MSGSENT"}
      PROVE  MInv'
  <2>1. t \in process
    BY <1>1 DEF MInv, Sets
  <2>. QED
    BY <1>1, <2>1, CompleteKeepsMInv
<1>2. ASSUME Fails(t), phase = "run", cursor = t,
             mstate[t] \notin {"off", "PENDING", "MSGSENT"}
      PROVE  MInv'
  BY <1>1, <1>2 DEF Fails
<1>3. CASE PretransferFails(t)
  BY <1>1, <1>3 DEF PretransferFails
<1>4. CASE SetUp(t)
  <2>1. t \notin conn
    BY <1>4 DEF SetUp, MInv, Sets
  <2>. QED
    BY <1>4, <2>1, GoesToKeepsMInv DEF SetUp
<1>5. CASE TimesOut(t)
  BY <1>2, <1>5 DEF TimesOut
<1>6. CASE GoesPending(t)
  BY <1>6, PendingKeepsMInv
<1>7. CASE Connects(t) \/ Again(t)
  BY <1>7, TurnKeepsMInv
<1>8. CASE ConnectFails(t)
  BY <1>1, <1>8 DEF ConnectFails
<1>9. CASE Connecting(t)
  <2>1. t \in conn
    BY <1>9 DEF Connecting, MInv, Sets
  <2>. QED
    BY <1>2, <1>9, <2>1, GoesToKeepsMInv DEF Connecting
<1>10. CASE Performing(t)
  <2>1. t \in conn
    BY <1>10 DEF Performing, MInv, Sets
  <2>. QED
    BY <1>2, <1>10, <2>1, GoesToKeepsMInv DEF Performing
<1>11. CASE Done(t)
  BY <1>1, <1>11 DEF Done
<1>. QED
  BY <1>3, <1>4, <1>5, <1>6, <1>7, <1>8, <1>9, <1>10, <1>11 DEF RunSingle

\* With one message at most for each transfer, none of t is left, and the
\* others stay, once each.
LEMMA UnlistedHolds ==
  ASSUME NEW t \in Transfers, msglist \in Seq(Transfers),
         \A i, j \in 1 .. Len(msglist) : msglist[i] = msglist[j] => i = j
  PROVE  /\ Unlisted(t) \in Seq(Transfers)
         /\ \A i \in 1 .. Len(Unlisted(t)) :
              /\ Unlisted(t)[i] # t
              /\ \E k \in 1 .. Len(msglist) : Unlisted(t)[i] = msglist[k]
         /\ \A i, j \in 1 .. Len(Unlisted(t)) : Unlisted(t)[i] = Unlisted(t)[j] => i = j
<1>. DEFINE first == {i \in 1 .. Len(msglist) : msglist[i] = t /\ \A j \in 1 .. i - 1 : msglist[j] # t}
            rest == [j \in 1 .. Len(msglist) - 1 |->
                       IF \E i \in first : j < i THEN msglist[j] ELSE msglist[j + 1]]
<1>0. Unlisted(t) = IF first = {} THEN msglist ELSE rest
  BY DEF Unlisted
<1>1. Len(msglist) \in Nat /\ \A k \in 1 .. Len(msglist) : msglist[k] \in Transfers
  OBVIOUS
<1>2. ASSUME NEW n \in 1 .. Len(msglist), msglist[n] = t PROVE first = {n}
  <2>1. \A i \in 1 .. Len(msglist) : msglist[i] = t => i = n
    BY <1>2
  <2>2. \A j \in 1 .. n - 1 : j \in 1 .. Len(msglist) /\ j # n
    BY <1>1
  <2>3. \A j \in 1 .. n - 1 : msglist[j] # t
    BY <2>1, <2>2
  <2>. QED
    BY <1>2, <2>1, <2>3
<1>3. CASE \A n \in 1 .. Len(msglist) : msglist[n] # t
  <2>1. first = {}
    BY <1>3
  <2>2. Unlisted(t) = msglist
    BY <1>0, <2>1
  <2>. QED
    BY <1>3, <2>2
<1>4. CASE \E n \in 1 .. Len(msglist) : msglist[n] = t
  <2>1. PICK n \in 1 .. Len(msglist) : msglist[n] = t
    BY <1>4
  <2>2. first = {n}
    BY <1>2, <2>1
  <2>3. Unlisted(t) = rest
    BY <1>0, <2>2
  <2>. HIDE DEF first
  <2>4. rest = [j \in 1 .. Len(msglist) - 1 |-> IF j < n THEN msglist[j] ELSE msglist[j + 1]]
    BY <2>2
  <2>. HIDE DEF rest
  <2>5. \A j \in 1 .. Len(msglist) - 1 :
          /\ j \in 1 .. Len(msglist) /\ j + 1 \in 1 .. Len(msglist)
          /\ j < n => j # n
          /\ ~(j < n) => j + 1 # n
    BY <1>1
  <2>6. \A j \in 1 .. Len(msglist) - 1 :
          rest[j] = IF j < n THEN msglist[j] ELSE msglist[j + 1]
    BY <2>4
  <2>7. \A j \in 1 .. Len(msglist) - 1 : rest[j] \in Transfers
    BY <1>1, <2>5, <2>6
  <2>8. Len(msglist) - 1 \in Nat
    BY <1>1
  <2>9. rest \in Seq(Transfers) /\ Len(rest) = Len(msglist) - 1
    <3>1. rest \in [1 .. Len(msglist) - 1 -> Transfers]
      BY <2>4, <2>6, <2>7
    <3>. QED
      BY <2>8, <3>1
  <2>10. \A i \in 1 .. Len(msglist) : i # n => msglist[i] # t
    BY <2>1
  <2>11. ASSUME NEW i \in 1 .. Len(rest)
         PROVE  rest[i] # t /\ \E k \in 1 .. Len(msglist) : rest[i] = msglist[k]
    BY <2>5, <2>6, <2>9, <2>10
  <2>12. ASSUME NEW i \in 1 .. Len(rest), NEW j \in 1 .. Len(rest), rest[i] = rest[j]
         PROVE  i = j
    <3>1. PICK a \in 1 .. Len(msglist) : a = (IF i < n THEN i ELSE i + 1) /\ rest[i] = msglist[a]
      BY <2>5, <2>6, <2>9
    <3>2. PICK b \in 1 .. Len(msglist) : b = (IF j < n THEN j ELSE j + 1) /\ rest[j] = msglist[b]
      BY <2>5, <2>6, <2>9
    <3>3. a = b
      BY <2>12, <3>1, <3>2
    <3>. QED
      BY <3>1, <3>2, <3>3, <2>8, <2>9
  <2>. QED
    BY <2>3, <2>9, <2>11, <2>12
<1>. QED
  BY <1>3, <1>4

\* A handle is taken off the stack.
LEMMA RemoveKeepsMInv ==
  ASSUME MInv, NEW t \in Transfers, RemoveHandle(t)
  PROVE  MInv'
<1>1. PICK k \in {1, 2} :
        LET w == Woken(pending \ {t}, k) IN
          /\ mstate' = WokenAnd(w, t, "off")
          /\ process' = (process \cup w) \ {t}
          /\ dirty' = (dirty \cup w) \ {t}
          /\ pending' = pending \ (w \cup {t})
  BY DEF RemoveHandle
<1>2. PICK w : w = Woken(pending \ {t}, k)
  OBVIOUS
<1>3. /\ pending \in SUBSET Transfers /\ w \in SUBSET pending /\ t \notin w
      /\ pending \ {t} # {} => w # {}
  BY <1>2, WokenSome DEF MInv, MultiTypeOK
<1>4. /\ mstate' = WokenAnd(w, t, "off")
      /\ process' = (process \cup w) \ {t} /\ dirty' = (dirty \cup w) \ {t}
      /\ pending' = pending \ (w \cup {t}) /\ msgsent' = msgsent \ {t}
      /\ alive' = (IF t \in msgsent THEN alive ELSE alive - 1)
      /\ msglist' = Unlisted(t) /\ conn' = conn \ {t} /\ late' = late \ {t}
      /\ mstate[t] # "off" /\ phase = "app" /\ UNCHANGED <<phase, cursor, bytes>>
  BY <1>1, <1>2 DEF RemoveHandle, OnStack
<1>5. /\ mstate'[t] = "off"
      /\ \A u \in w : u \in Transfers /\ mstate[u] = "PENDING" /\ mstate'[u] = "CONNECT"
      /\ \A u \in Transfers : u # t /\ u \notin w => mstate'[u] = mstate[u]
  BY <1>3, <1>4, WokenStates
<1>6. alive' = Cardinality(Live')
  <2>1. CASE t \in msgsent
    <3>1. Live' = Live
      BY <1>5, <2>1 DEF Live, MInv, Sets
    <3>. QED
      BY <1>4, <2>1, <3>1 DEF MInv, Sets
  <2>2. CASE t \notin msgsent
    <3>1. Live' = Live \ {t} /\ t \in Live
      BY <1>4, <1>5, <2>2 DEF Live, MInv, Sets
    <3>. QED
      BY <1>4, <2>2, <3>1, LiveCount DEF MInv, Sets
  <2>. QED
    BY <2>1, <2>2
<1>7. alive' \in Nat
  <2>1. Live' \in SUBSET Transfers
    BY DEF Live
  <2>. QED
    BY <1>6, <2>1, FiniteTransfers
<1>8. /\ msglist' \in Seq(Transfers)
      /\ \A i \in 1 .. Len(msglist') :
           msglist'[i] # t /\ \E j \in 1 .. Len(msglist) : msglist'[i] = msglist[j]
      /\ \A i, j \in 1 .. Len(msglist') : msglist'[i] = msglist'[j] => i = j
  <2>1. /\ msglist \in Seq(Transfers)
        /\ \A i, j \in 1 .. Len(msglist) : msglist[i] = msglist[j] => i = j
    BY DEF MInv, MultiTypeOK, MessagesValid
  <2>2. /\ Unlisted(t) \in Seq(Transfers)
        /\ \A i \in 1 .. Len(Unlisted(t)) :
             Unlisted(t)[i] # t /\ \E j \in 1 .. Len(msglist) : Unlisted(t)[i] = msglist[j]
        /\ \A i, j \in 1 .. Len(Unlisted(t)) : Unlisted(t)[i] = Unlisted(t)[j] => i = j
    BY <2>1, UnlistedHolds
  <2>3. msglist' = Unlisted(t)
    BY <1>4
  <2>. QED
    BY <2>2, <2>3
<1>9. MultiTypeOK'
  <2>1. mstate' \in [Transfers -> MStates]
    BY <1>4 DEF MInv, MultiTypeOK, WokenAnd, MStates
  <2>2. /\ process' \subseteq Transfers /\ pending' \subseteq Transfers
        /\ dirty' \subseteq Transfers /\ msgsent' \subseteq Transfers
        /\ conn' \subseteq Transfers /\ late' \subseteq Transfers
    BY <1>3, <1>4 DEF MInv, MultiTypeOK
  <2>. QED
    BY <1>4, <1>7, <1>8, <2>1, <2>2 DEF MInv, MultiTypeOK
<1>10. Sets'
  <2>1. /\ pending' = {u \in Transfers : mstate'[u] = "PENDING"}
        /\ msgsent' = {u \in Transfers : mstate'[u] = "MSGSENT"}
        /\ conn' = {u \in Transfers : mstate'[u] \in {"CONNECTING", "PERFORMING", "DONE"}}
    BY <1>3, <1>4, <1>5 DEF MInv, Sets
  <2>2. /\ process' = {u \in Transfers : mstate'[u] \notin {"off", "PENDING", "MSGSENT"}}
        /\ dirty' \subseteq process'
    BY <1>3, <1>4, <1>5 DEF MInv, Sets
  <2>3. Limit > 0 => Cardinality(conn') <= Limit
    <3>1. conn \in SUBSET Transfers /\ conn' \subseteq conn /\ conn' \in SUBSET Transfers
      BY <1>4 DEF MInv, MultiTypeOK
    <3>2. Cardinality(conn') <= Cardinality(conn)
      BY <3>1, FiniteTransfers, FS_Subset
    <3>. QED
      BY <3>1, <3>2, FiniteTransfers, SizesAssumption DEF MInv, Sets
  <2>. QED
    BY <1>6, <2>1, <2>2, <2>3 DEF Sets
<1>11. MessagesValid'
  BY <1>4, <1>8 DEF MInv, MessagesValid
<1>12. NoStrandedPending'
  <2>1. CASE pending \ {t} = {}
    BY <1>4, <2>1 DEF NoStrandedPending
  <2>2. CASE w # {}
    <3>1. \A u \in w : u \in process' /\ u \in dirty' /\ mstate'[u] = "CONNECT"
      BY <1>3, <1>4, <1>5
    <3>. QED
      BY <2>2, <3>1 DEF NoStrandedPending
  <2>. QED
    BY <1>3, <2>1, <2>2
<1>. QED
  BY <1>9, <1>10, <1>11, <1>12 DEF MInv

\* A message is read.
LEMMA InfoReadKeepsMInv ==
  ASSUME MInv, NEW t \in Transfers, InfoRead(t)
  PROVE  MInv'
<1>1. /\ msglist # <<>> /\ t = Head(msglist) /\ msglist' = Tail(msglist) /\ phase = "app"
      /\ UNCHANGED <<mstate, process, pending, dirty, msgsent, alive, conn, late, phase, cursor, bytes>>
  BY DEF InfoRead, setVars
<1>2. msglist \in Seq(Transfers)
  BY DEF MInv, MultiTypeOK
<1>3. /\ msglist' \in Seq(Transfers) /\ Len(msglist') = Len(msglist) - 1
      /\ \A i \in 1 .. Len(msglist') : msglist'[i] = msglist[i + 1]
  BY <1>1, <1>2, HeadTailProperties
<1>4. Len(msglist) \in Nat /\ \A i \in 1 .. Len(msglist') : i + 1 \in 1 .. Len(msglist)
  BY <1>2, <1>3
<1>5. MultiTypeOK'
  BY <1>1, <1>3 DEF MInv, MultiTypeOK
<1>6. Sets'
  BY <1>1 DEF MInv, Sets, Live
<1>7. MessagesValid'
  <2>1. \A i \in 1 .. Len(msglist') : msglist'[i] \in msgsent
    BY <1>3, <1>4 DEF MInv, MessagesValid
  <2>2. ASSUME NEW i \in 1 .. Len(msglist'), NEW j \in 1 .. Len(msglist'),
               msglist'[i] = msglist'[j]
        PROVE  i = j
    <3>1. i + 1 = j + 1
      BY <1>3, <1>4, <2>2 DEF MInv, MessagesValid
    <3>. QED
      BY <3>1
  <2>. QED
    BY <1>1, <2>1, <2>2 DEF MessagesValid
<1>8. NoStrandedPending'
  BY <1>1 DEF MInv, NoStrandedPending, ConnectionAvailable
<1>. QED
  BY <1>5, <1>6, <1>7, <1>8 DEF MInv

----------------------------------------------------------------------------
(* What the loop can tell of the steps of curl_multi_perform.              *)

\* The transfer is over with this step.
Ends(u) == mstate[u] # "MSGSENT" /\ mstate'[u] = "MSGSENT"

\* Transfers that are on the stack stay on it, those that are over stay over,
\* one at most becomes so, and a new message is of a transfer that was not over.
Progress ==
  /\ \A u \in Transfers : (mstate'[u] = "off") <=> (mstate[u] = "off")
  /\ \A u \in Transfers : mstate[u] = "MSGSENT" => mstate'[u] = "MSGSENT"
  /\ \A u, v \in Transfers : Ends(u) /\ Ends(v) => u = v
  /\ \A i \in 1 .. Len(msglist') :
       \/ \E j \in 1 .. Len(msglist) : msglist'[i] = msglist[j]
       \/ mstate[msglist'[i]] \notin {"off", "MSGSENT"}
  /\ UNCHANGED bytes

\* A transfer that is over makes progress.
LEMMA CompleteProgresses ==
  ASSUME MInv, NEW t \in Transfers, NEW k \in {1, 2}, Complete(t, k),
         mstate[t] \notin {"off", "PENDING", "MSGSENT"}
  PROVE  Progress
<1>1. PICK w : w = Woken(pending, k)
  OBVIOUS
<1>2. w \in SUBSET pending /\ t \notin w
  BY <1>1, WokenSome DEF MInv, MultiTypeOK, Sets
<1>3. /\ mstate' = WokenAnd(w, t, "MSGSENT") /\ msglist' = Append(msglist, t)
      /\ UNCHANGED bytes
  BY <1>1 DEF Complete
<1>4. /\ mstate'[t] = "MSGSENT"
      /\ \A u \in w : u \in Transfers /\ mstate[u] = "PENDING" /\ mstate'[u] = "CONNECT"
      /\ \A u \in Transfers : u # t /\ u \notin w => mstate'[u] = mstate[u]
  BY <1>2, <1>3, WokenStates
<1>5. /\ Len(msglist) \in Nat /\ Len(msglist') = Len(msglist) + 1
      /\ \A i \in 1 .. Len(msglist) : msglist'[i] = msglist[i]
      /\ msglist'[Len(msglist) + 1] = t
  BY <1>3, AppendProperties DEF MInv, MultiTypeOK
<1>6. \A i \in 1 .. Len(msglist') : i \in 1 .. Len(msglist) \/ i = Len(msglist) + 1
  BY <1>5
<1>7. \A i \in 1 .. Len(msglist') :
        \/ \E j \in 1 .. Len(msglist) : msglist'[i] = msglist[j]
        \/ mstate[msglist'[i]] \notin {"off", "MSGSENT"}
  BY <1>5, <1>6
<1>8. \A u \in Transfers : (mstate'[u] = "off") <=> (mstate[u] = "off")
  BY <1>4
<1>9. \A u \in Transfers : mstate[u] = "MSGSENT" => mstate'[u] = "MSGSENT"
  BY <1>4
<1>10. \A u \in Transfers : Ends(u) => u = t
  <2>. SUFFICES ASSUME NEW u \in Transfers, u # t, mstate[u] # "MSGSENT"
                PROVE  mstate'[u] # "MSGSENT"
    BY DEF Ends
  <2>. QED
    BY <1>4
<1>11. \A u, v \in Transfers : Ends(u) /\ Ends(v) => u = v
  BY <1>10
<1>. QED
  BY <1>3, <1>7, <1>8, <1>9, <1>11 DEF Progress

\* Pending transfers that are moved, and a transfer that goes on, make progress.
LEMMA MovedProgresses ==
  ASSUME MInv, NEW t, NEW w \in SUBSET pending, UNCHANGED <<msglist, bytes>>,
         t \in Transfers => mstate[t] \notin {"off", "MSGSENT"} /\ mstate'[t] \notin {"off", "MSGSENT"},
         \A u \in w : u \in Transfers => mstate'[u] = "CONNECT",
         \A u \in Transfers : u # t /\ u \notin w => mstate'[u] = mstate[u]
  PROVE  Progress
<1>1. \A u \in w : mstate[u] = "PENDING"
  BY DEF MInv, Sets
<1>2. \A u \in Transfers : /\ (mstate'[u] = "off") <=> (mstate[u] = "off")
                           /\ (mstate'[u] = "MSGSENT") <=> (mstate[u] = "MSGSENT")
  BY <1>1
<1>. QED
  BY <1>2 DEF Progress, Ends

\* Every step of curl_multi_perform makes progress.
LEMMA PerformProgresses ==
  ASSUME MInv, PerformStep \/ PerformEnd
  PROVE  Progress
<1>. USE DEF InTime, Runs, TimedStates
<1>0. mstate \in [Transfers -> MStates] /\ 0 \notin Transfers
  BY DEF MInv, MultiTypeOK, Transfers
<1>1. CASE RunBegin
  BY <1>1 DEF RunBegin, Progress, Ends
<1>2. CASE ConnChanged
  <2>1. PICK w : w = Woken(pending, 1)
    OBVIOUS
  <2>2. w \in SUBSET pending
    BY <2>1, WokenSome DEF MInv, MultiTypeOK
  <2>3. mstate' = WokenAnd(w, 0, "off") /\ UNCHANGED <<msglist, bytes>>
    BY <1>2, <2>1 DEF ConnChanged
  <2>. QED
    BY <1>0, <2>2, <2>3, MovedProgresses DEF WokenAnd
<1>3. CASE PerformEnd
  <2>1. PICK w : w = pending \cap late
    OBVIOUS
  <2>2. mstate' = WokenAnd(w, 0, "off") /\ UNCHANGED <<msglist, bytes>> /\ w \in SUBSET pending
    BY <1>3, <2>1 DEF PerformEnd
  <2>. QED
    BY <1>0, <2>2, MovedProgresses DEF WokenAnd
<1>4. ASSUME NEW t \in Transfers, RunSingle(t) PROVE Progress
  <2>1. ASSUME NEW k \in {1, 2}, Complete(t, k), mstate[t] \notin {"off", "PENDING", "MSGSENT"}
        PROVE  Progress
    BY <2>1, CompleteProgresses
  <2>2. ASSUME Fails(t), mstate[t] \notin {"off", "PENDING", "MSGSENT"} PROVE Progress
    BY <2>1, <2>2 DEF Fails
  <2>3. ASSUME NEW s \in MStates \ {"off", "MSGSENT"}, NEW next, GoesTo(t, s, next),
               mstate[t] \notin {"off", "MSGSENT"}
        PROVE  Progress
    <3>1. /\ mstate'[t] = s /\ \A u \in Transfers : u # t => mstate'[u] = mstate[u]
          /\ UNCHANGED <<msglist, bytes>>
      BY <1>0, <2>3 DEF GoesTo
    <3>2. {} \in SUBSET pending
      OBVIOUS
    <3>. QED
      BY <2>3, <3>1, <3>2, MovedProgresses
  <2>4. CASE PretransferFails(t) \/ ConnectFails(t) \/ Done(t)
    BY <2>1, <2>4 DEF PretransferFails, ConnectFails, Done
  <2>5. CASE TimesOut(t)
    BY <2>2, <2>5 DEF TimesOut
  <2>6. CASE SetUp(t)
    BY <2>3, <2>6 DEF SetUp, MStates
  <2>7. CASE Connecting(t)
    BY <2>2, <2>3, <2>7 DEF Connecting, MStates
  <2>8. CASE Performing(t)
    BY <2>2, <2>3, <2>8 DEF Performing, MStates
  <2>9. CASE GoesPending(t)
    <3>1. /\ mstate[t] = "CONNECT" /\ mstate'[t] = "PENDING"
          /\ \A u \in Transfers : u # t => mstate'[u] = mstate[u]
          /\ UNCHANGED <<msglist, bytes>>
      BY <1>0, <2>9 DEF GoesPending
    <3>2. {} \in SUBSET pending
      OBVIOUS
    <3>. QED
      BY <3>1, <3>2, MovedProgresses
  <2>10. CASE Connects(t) \/ Again(t)
    <3>1. PICK w : w = Woken(pending, 1)
      OBVIOUS
    <3>2. PICK s \in {"CONNECTING", "SETUP"} :
            /\ mstate' = WokenAnd(w, t, s) /\ UNCHANGED <<msglist, bytes>>
            /\ mstate[t] \in {"CONNECT", "CONNECTING", "PERFORMING"}
      BY <2>10, <3>1 DEF Connects, Again
    <3>3. w \in SUBSET pending /\ t \notin w
      BY <3>1, <3>2, WokenSome DEF MInv, MultiTypeOK, Sets
    <3>. QED
      BY <3>2, <3>3, WokenStates, MovedProgresses
  <2>. QED
    BY <1>4, <2>4, <2>5, <2>6, <2>7, <2>8, <2>9, <2>10 DEF RunSingle
<1>. QED
  BY <1>1, <1>2, <1>3, <1>4 DEF PerformStep

----------------------------------------------------------------------------
(* The loop and its queue.                                                 *)

\* What keeps the loop from sleeping over the queue: what was submitted since
\* the queue was found empty has its wake-up on the way or in the pair.
LoopInv ==
  /\ pc = "perform" <=> phase \in {"walk", "run"}
  /\ phase \in {"asleep", "drain"} => pc = "poll"
  /\ phase = "asleep" => dirty = {}
  /\ pc \in {"perform", "poll"} /\ phase # "drain" /\ bytes = 0 =>
       \A i \in 1 .. Len(inQueue) : caller[inQueue[i]] = "waking"

\* Membership in a sequence, and that it has no duplicates.
Among(u, s) == \E i \in 1 .. Len(s) : s[i] = u

Distinct(s) == \A i, j \in 1 .. Len(s) : s[i] = s[j] => i = j

\* What the loop knows of a transfer is what curl knows of it.
Standing(u) ==
  /\ caller[u] = "idle" => ~Among(u, inQueue)
  /\ caller[u] = "idle" \/ Among(u, inQueue) => mstate[u] = "off" /\ reports[u] = 0
  /\ reports[u] \in {0, 1}
  /\ reports[u] = 1 => mstate[u] \in {"MSGSENT", "off"} /\ ~Among(u, msglist)

QueueInv == Distinct(inQueue) /\ \A u \in Transfers : Standing(u)

\* The inductive invariant.
IInv == TypeOK /\ MInv /\ LoopInv /\ QueueInv

\* What is in a sequence after its head is gone, and after an append.
LEMMA TailMembers ==
  ASSUME NEW S, NEW s \in Seq(S), s # <<>>, Distinct(s)
  PROVE  /\ Head(s) \in S /\ Among(Head(s), s) /\ Tail(s) \in Seq(S) /\ Distinct(Tail(s))
         /\ \A u : Among(u, Tail(s)) <=> Among(u, s) /\ u # Head(s)
         /\ \A i \in 1 .. Len(Tail(s)) : Tail(s)[i] = s[i + 1] /\ i + 1 \in 1 .. Len(s)
<1>. USE DEF Among, Distinct
<1>1. /\ Head(s) \in S /\ Head(s) = s[1] /\ Len(s) \in Nat /\ Len(s) > 0
      /\ Tail(s) \in Seq(S) /\ Len(Tail(s)) = Len(s) - 1
      /\ \A i \in 1 .. Len(Tail(s)) : Tail(s)[i] = s[i + 1]
  BY HeadTailProperties, EmptySeq
<1>2. \A i \in 1 .. Len(Tail(s)) : i + 1 \in 1 .. Len(s)
  BY <1>1
<1>3. ASSUME NEW i \in 1 .. Len(Tail(s)), NEW j \in 1 .. Len(Tail(s)), Tail(s)[i] = Tail(s)[j]
      PROVE  i = j
  <2>1. i + 1 = j + 1
    BY <1>1, <1>2, <1>3
  <2>. QED
    BY <1>1, <2>1
<1>4. ASSUME NEW u, Among(u, Tail(s)) PROVE Among(u, s) /\ u # Head(s)
  <2>1. PICK i \in 1 .. Len(Tail(s)) : Tail(s)[i] = u
    BY <1>4
  <2>2. s[i + 1] = u /\ i + 1 \in 1 .. Len(s) /\ i + 1 # 1 /\ 1 \in 1 .. Len(s)
    BY <1>1, <1>2, <2>1
  <2>. QED
    BY <1>1, <2>2
<1>5. ASSUME NEW u, Among(u, s), u # Head(s) PROVE Among(u, Tail(s))
  <2>1. PICK i \in 1 .. Len(s) : s[i] = u
    BY <1>5
  <2>2. i # 1
    BY <1>1, <1>5, <2>1
  <2>3. i - 1 \in 1 .. Len(Tail(s)) /\ (i - 1) + 1 = i
    BY <1>1, <2>2
  <2>. QED
    BY <1>1, <2>1, <2>3
<1>6. Among(Head(s), s) /\ Distinct(Tail(s))
  <2>1. 1 \in 1 .. Len(s)
    BY <1>1
  <2>. QED
    BY <1>1, <1>3, <2>1
<1>7. \A u : Among(u, Tail(s)) <=> Among(u, s) /\ u # Head(s)
  <2>. HIDE DEF Among, Distinct
  <2>1. ~Among(Head(s), Tail(s))
    BY <1>4
  <2>. QED
    BY <1>4, <1>5, <2>1
<1>. HIDE DEF Among, Distinct
<1>. QED
  BY <1>1, <1>2, <1>6, <1>7

\* The other end of the sequence.
LEMMA AppendMembers ==
  ASSUME NEW S, NEW s \in Seq(S), NEW e \in S
  PROVE  /\ Append(s, e) \in Seq(S)
         /\ \A u : Among(u, Append(s, e)) <=> Among(u, s) \/ u = e
         /\ ~Among(e, s) /\ Distinct(s) => Distinct(Append(s, e))
<1>. USE DEF Among, Distinct
<1>1. /\ Append(s, e) \in Seq(S) /\ Len(s) \in Nat /\ Len(Append(s, e)) = Len(s) + 1
      /\ \A i \in 1 .. Len(s) : Append(s, e)[i] = s[i]
      /\ Append(s, e)[Len(s) + 1] = e
  BY AppendProperties
<1>2. \A i : i \in 1 .. Len(Append(s, e)) <=> i \in 1 .. Len(s) \/ i = Len(s) + 1
  BY <1>1
<1>3. ASSUME NEW u PROVE Among(u, Append(s, e)) <=> Among(u, s) \/ u = e
  BY <1>1, <1>2
<1>4. ASSUME ~Among(e, s), Distinct(s) PROVE Distinct(Append(s, e))
  BY <1>1, <1>2, <1>4
<1>. QED
  BY <1>1, <1>3, <1>4

----------------------------------------------------------------------------
(* The steps of the loop.                                                  *)

\* MInv does not depend on what only the loop has.
LEMMA SameMultiKeepsMInv ==
  ASSUME MInv, UNCHANGED multiVars
  PROVE  MInv'
<1>1. UNCHANGED <<mstate, setVars, msglist, conn, late, phase, cursor, bytes>>
  BY DEF multiVars
<1>2. UNCHANGED <<process, pending, dirty, msgsent, alive>>
  BY <1>1 DEF setVars
<1>3. MultiTypeOK'
  BY <1>1, <1>2 DEF MInv, MultiTypeOK
<1>. QED
  BY <1>1, <1>3, IdleKeepsMInv

\* Curl's steps in curl_multi_perform keep MInv.
LEMMA PerformKeepsMInv ==
  ASSUME MInv, PerformStep \/ PerformEnd
  PROVE  MInv'
BY RunBeginKeepsMInv, WakeSteps, RunSingleKeepsMInv DEF PerformStep

\* Every step of the loop and of the threads that submit keeps MInv.
LEMMA NextKeepsMInv ==
  ASSUME TypeOK, MInv, Next
  PROVE  MInv'
<1>1. CASE \E t \in Transfers : Submit(t)
  BY <1>1, SameMultiKeepsMInv DEF Submit
<1>2. CASE \E t \in Transfers : SubmitWakes(t)
  BY <1>2, IdleSteps DEF SubmitWakes
<1>3. CASE \E t \in Transfers : Cancel(t)
  BY <1>3, RemoveKeepsMInv DEF Cancel
<1>4. CASE DrainQueue
  <2>1. Head(inQueue) \in Transfers
    BY <1>4, HeadTailProperties, EmptySeq DEF DrainQueue, TypeOK
  <2>. QED
    BY <1>4, <2>1, AddKeepsMInv DEF DrainQueue
<1>5. CASE QueueDrained
  BY <1>5, IdleSteps DEF QueueDrained
<1>6. CASE MultiPerform \/ MultiPerformReturns
  BY <1>6, PerformKeepsMInv DEF MultiPerform, MultiPerformReturns
<1>7. CASE MultiPoll
  BY <1>7, IdleSteps, PollBeginKeepsMInv DEF MultiPoll
<1>8. CASE MultiPollWoken
  BY <1>8, IdleSteps DEF MultiPollWoken
<1>9. CASE MultiInfoRead
  <2>1. Head(msglist) \in Transfers /\ InfoRead(Head(msglist))
    BY <1>9, HeadTailProperties, EmptySeq DEF MultiInfoRead, MInv, MultiTypeOK
  <2>. QED
    BY <2>1, InfoReadKeepsMInv
<1>10. CASE MultiRemove
  <2>1. cur \in Transfers /\ RemoveHandle(cur)
    BY <1>10 DEF MultiRemove, RemoveHandle, OnStack
  <2>. QED
    BY <2>1, RemoveKeepsMInv
<1>11. CASE MessagesRead
  BY <1>11, SameMultiKeepsMInv DEF MessagesRead
<1>. QED
  BY <1>1, <1>2, <1>3, <1>4, <1>5, <1>6, <1>7, <1>8, <1>9, <1>10, <1>11 DEF Next, Run

\* Every step keeps the types of what only the loop has.
LEMMA NextKeepsTypes ==
  ASSUME TypeOK, MInv, Next
  PROVE  TypeOK'
<1>1. MultiTypeOK'
  BY NextKeepsMInv DEF MInv
<1>2. CASE \E t \in Transfers : Submit(t)
  <2>1. PICK t \in Transfers : Submit(t)
    BY <1>2
  <2>2. inQueue' \in Seq(Transfers)
    BY <2>1 DEF Submit, TypeOK
  <2>. QED
    BY <1>1, <2>1, <2>2 DEF Submit, TypeOK
<1>3. CASE \E t \in Transfers : SubmitWakes(t)
  BY <1>1, <1>3 DEF SubmitWakes, TypeOK
<1>4. CASE (\E t \in Transfers : Cancel(t)) \/ MultiPerform \/ MultiPollWoken
  BY <1>1, <1>4 DEF Cancel, MultiPerform, MultiPollWoken, loopVars, TypeOK
<1>5. CASE DrainQueue
  <2>1. inQueue' \in Seq(Transfers)
    BY <1>5, HeadTailProperties, EmptySeq DEF DrainQueue, TypeOK
  <2>. QED
    BY <1>1, <1>5, <2>1 DEF DrainQueue, TypeOK
<1>6. CASE QueueDrained \/ MultiPerformReturns \/ MultiPoll \/ MessagesRead
  BY <1>1, <1>6 DEF QueueDrained, MultiPerformReturns, MultiPoll, MessagesRead, TypeOK
<1>7. CASE MultiInfoRead
  <2>1. PICK t : /\ t = Head(msglist) /\ cur' = t
                 /\ reports' = [reports EXCEPT ![t] = @ + 1]
                 /\ pc' = "remove" /\ UNCHANGED <<inQueue, caller>>
    BY <1>7 DEF MultiInfoRead
  <2>2. t \in Transfers
    BY <1>7, <2>1, HeadTailProperties, EmptySeq DEF MultiInfoRead, MInv, MultiTypeOK
  <2>3. t \in 0 .. N
    BY <2>2, FiniteTransfers DEF Transfers
  <2>4. reports' \in [Transfers -> Nat]
    BY <2>1, <2>2 DEF TypeOK
  <2>. QED
    BY <1>1, <2>1, <2>3, <2>4 DEF TypeOK
<1>8. CASE MultiRemove
  BY <1>1, <1>8, FiniteTransfers DEF MultiRemove, TypeOK
<1>. QED
  BY <1>2, <1>3, <1>4, <1>5, <1>6, <1>7, <1>8 DEF Next, Run

\* Every step keeps what keeps the loop from sleeping over the queue.
LEMMA NextKeepsLoopInv ==
  ASSUME TypeOK, MInv, LoopInv, Next
  PROVE  LoopInv'
<1>. USE DEF LoopInv
<1>0. /\ PairCapacity \in Nat /\ PairCapacity > 0 /\ bytes \in 0 .. PairCapacity
      /\ inQueue \in Seq(Transfers) /\ caller \in [Transfers -> {"idle", "waking", "returned"}]
      /\ \A i \in 1 .. Len(inQueue) : inQueue[i] \in Transfers
  BY SizesAssumption DEF TypeOK, MultiTypeOK
<1>1. ASSUME NEW t \in Transfers, Submit(t) PROVE LoopInv'
  <2>1. /\ inQueue' = Append(inQueue, t) /\ caller' = [caller EXCEPT ![t] = "waking"]
        /\ UNCHANGED <<phase, dirty, bytes, pc>>
    BY <1>1 DEF Submit, multiVars, setVars
  <2>2. /\ Len(inQueue) \in Nat /\ Len(inQueue') = Len(inQueue) + 1
        /\ inQueue'[Len(inQueue) + 1] = t
        /\ \A i \in 1 .. Len(inQueue) : inQueue'[i] = inQueue[i]
    BY <1>0, <2>1, AppendProperties
  <2>3. \A i \in 1 .. Len(inQueue') : i \in 1 .. Len(inQueue) \/ i = Len(inQueue) + 1
    BY <2>2
  <2>4. caller'[t] = "waking" /\ \A u \in Transfers : caller[u] = "waking" => caller'[u] = "waking"
    BY <1>0, <2>1
  <2>5. (\A i \in 1 .. Len(inQueue) : caller[inQueue[i]] = "waking") =>
          \A i \in 1 .. Len(inQueue') : caller'[inQueue'[i]] = "waking"
    BY <1>0, <2>2, <2>3, <2>4
  <2>. QED
    BY <2>1, <2>5
<1>2. ASSUME NEW t \in Transfers, SubmitWakes(t) PROVE LoopInv'
  <2>1. UNCHANGED <<phase, dirty, pc>>
    BY <1>2 DEF SubmitWakes, Wakeup, setVars
  <2>2. bytes' # 0
    BY <1>0, <1>2 DEF SubmitWakes, Wakeup
  <2>. QED
    BY <2>1, <2>2
<1>3. ASSUME NEW t \in Transfers, Cancel(t) PROVE LoopInv'
  BY <1>3 DEF Cancel, RemoveHandle, loopVars
<1>4. CASE DrainQueue
  BY <1>4 DEF DrainQueue, AddHandle
<1>5. CASE QueueDrained
  BY <1>5 DEF QueueDrained, PerformBegin
<1>6. CASE MultiPerform
  <2>1. phase \in {"walk", "run"} /\ phase' \in {"walk", "run"} /\ UNCHANGED bytes
    <3>1. CASE RunBegin \/ ConnChanged
      BY <3>1 DEF RunBegin, ConnChanged
    <3>2. ASSUME NEW t \in Transfers, RunSingle(t)
          PROVE  phase \in {"walk", "run"} /\ phase' \in {"walk", "run"} /\ UNCHANGED bytes
      BY <3>2 DEF RunSingle, PretransferFails, SetUp, TimesOut, GoesPending, Connects,
                  ConnectFails, Connecting, Again, Performing, Done, Runs, InTime, Fails,
                  Complete, GoesTo
    <3>. QED
      BY <1>6, <3>1, <3>2 DEF MultiPerform, PerformStep
  <2>2. UNCHANGED <<pc, inQueue, caller>>
    BY <1>6 DEF MultiPerform, loopVars
  <2>. QED
    BY <2>1, <2>2
<1>7. CASE MultiPerformReturns
  BY <1>7 DEF MultiPerformReturns, PerformEnd
<1>8. CASE MultiPoll
  <2>1. pc = "poll" /\ UNCHANGED <<bytes, inQueue, caller>>
    BY <1>8 DEF MultiPoll, PollBegin, PollReturns, DrainEnd
  <2>2. CASE PollBegin
    <3>1. CASE bytes > 0
      BY <1>8, <2>1, <2>2, <3>1 DEF MultiPoll, PollBegin
    <3>2. CASE ~(bytes > 0)
      BY <1>8, <2>1, <2>2, <3>2, <1>0 DEF MultiPoll, PollBegin
    <3>. QED
      BY <3>1, <3>2
  <2>3. CASE PollReturns \/ DrainEnd
    BY <1>8, <2>1, <2>3 DEF MultiPoll, PollReturns, DrainEnd
  <2>. QED
    BY <1>8, <2>2, <2>3 DEF MultiPoll
<1>9. CASE MultiPollWoken
  <2>1. UNCHANGED pc /\ phase \in {"asleep", "drain"} /\ phase' = "drain"
    BY <1>9 DEF MultiPollWoken, PollWoken, DrainRead, loopVars
  <2>. QED
    BY <2>1
<1>10. CASE MultiInfoRead
  BY <1>10 DEF MultiInfoRead, InfoRead
<1>11. CASE MultiRemove
  BY <1>11 DEF MultiRemove, RemoveHandle
<1>12. CASE MessagesRead
  <2>1. UNCHANGED <<phase, dirty, bytes>>
    BY <1>12 DEF MessagesRead, multiVars, setVars
  <2>. QED
    BY <1>12, <2>1 DEF MessagesRead
<1>. QED
  BY <1>1, <1>2, <1>3, <1>4, <1>5, <1>6, <1>7, <1>8, <1>9, <1>10, <1>11, <1>12 DEF Next, Run

----------------------------------------------------------------------------
(* What the steps do to the transfers the loop knows.                      *)

\* A transfer leaves the stack, and no message comes.
TakenOff(t) ==
  /\ mstate[t] # "off" /\ mstate'[t] = "off"
  /\ \A u \in Transfers : u # t =>
       /\ mstate'[u] = "off" <=> mstate[u] = "off"
       /\ mstate'[u] = "MSGSENT" <=> mstate[u] = "MSGSENT"
  /\ \A u \in Transfers : Among(u, msglist') => Among(u, msglist)

\* RemoveHandle takes one transfer off.
LEMMA RemoveTakesOff ==
  ASSUME MInv, NEW t \in Transfers, RemoveHandle(t)
  PROVE  TakenOff(t)
<1>1. PICK k \in {1, 2} : mstate' = WokenAnd(Woken(pending \ {t}, k), t, "off")
  BY DEF RemoveHandle
<1>2. PICK w : w = Woken(pending \ {t}, k)
  OBVIOUS
<1>3. w \in SUBSET pending /\ t \notin w
  BY <1>2, WokenSome DEF MInv, MultiTypeOK
<1>4. mstate' = WokenAnd(w, t, "off")
  BY <1>1, <1>2
<1>5. /\ mstate'[t] = "off"
      /\ \A u \in w : u \in Transfers /\ mstate[u] = "PENDING" /\ mstate'[u] = "CONNECT"
      /\ \A u \in Transfers : u # t /\ u \notin w => mstate'[u] = mstate[u]
  BY <1>3, <1>4, WokenStates
<1>6. ASSUME NEW u \in Transfers, u # t
      PROVE  /\ mstate'[u] = "off" <=> mstate[u] = "off"
             /\ mstate'[u] = "MSGSENT" <=> mstate[u] = "MSGSENT"
  BY <1>5, <1>6
<1>7. mstate[t] # "off" /\ msglist' = Unlisted(t)
  BY DEF RemoveHandle, OnStack
<1>8. \A i \in 1 .. Len(msglist') : \E j \in 1 .. Len(msglist) : msglist'[i] = msglist[j]
  <2>1. /\ msglist \in Seq(Transfers)
        /\ \A i, j \in 1 .. Len(msglist) : msglist[i] = msglist[j] => i = j
    BY DEF MInv, MultiTypeOK, MessagesValid
  <2>2. \A i \in 1 .. Len(Unlisted(t)) : \E j \in 1 .. Len(msglist) : Unlisted(t)[i] = msglist[j]
    BY <2>1, UnlistedHolds
  <2>. QED
    BY <1>7, <2>2
<1>9. \A u \in Transfers : Among(u, msglist') => Among(u, msglist)
  BY <1>8 DEF Among
<1>. QED
  BY <1>5, <1>6, <1>7, <1>9 DEF TakenOff

\* The kinds of steps.
LEMMA StepKinds ==
  ASSUME TypeOK, MInv, [Next]_vars
  PROVE  \/ UNCHANGED <<mstate, msglist, inQueue, caller, reports>>
         \/ \E t \in Transfers : Submit(t) \/ SubmitWakes(t)
         \/ DrainQueue
         \/ Progress /\ UNCHANGED <<inQueue, caller, reports>>
         \/ MultiInfoRead
         \/ \E t \in Transfers : TakenOff(t) /\ UNCHANGED <<inQueue, caller, reports>>
<1>1. CASE UNCHANGED vars
  BY <1>1 DEF vars, multiVars, loopVars
<1>2. CASE \E t \in Transfers : Cancel(t)
  BY <1>2, RemoveTakesOff DEF Cancel, loopVars
<1>3. CASE MultiRemove
  <2>1. cur \in Transfers /\ RemoveHandle(cur)
    BY <1>3 DEF MultiRemove, RemoveHandle, OnStack
  <2>. QED
    BY <1>3, <2>1, RemoveTakesOff DEF MultiRemove
<1>4. CASE MultiPerform \/ MultiPerformReturns
  BY <1>4, PerformProgresses DEF MultiPerform, MultiPerformReturns, loopVars
<1>5. CASE QueueDrained
  BY <1>5 DEF QueueDrained, PerformBegin
<1>6. CASE MultiPoll
  BY <1>6 DEF MultiPoll, PollBegin, PollReturns, DrainEnd
<1>7. CASE MultiPollWoken
  BY <1>7 DEF MultiPollWoken, PollWoken, DrainRead, loopVars
<1>8. CASE MessagesRead
  BY <1>8 DEF MessagesRead, multiVars
<1>. QED
  BY <1>1, <1>2, <1>3, <1>4, <1>5, <1>6, <1>7, <1>8 DEF Next, Run

\* A submitted transfer is in the queue, and the rest is as it was.
LEMMA SubmitStep ==
  ASSUME TypeOK, QueueInv, NEW t \in Transfers, Submit(t)
  PROVE  /\ caller[t] = "idle" /\ caller'[t] = "waking"
         /\ \A u \in Transfers : u # t => caller'[u] = caller[u]
         /\ Distinct(inQueue')
         /\ \A u : Among(u, inQueue') <=> Among(u, inQueue) \/ u = t
         /\ UNCHANGED <<mstate, msglist, reports>>
<1>1. /\ caller[t] = "idle" /\ caller' = [caller EXCEPT ![t] = "waking"]
      /\ inQueue' = Append(inQueue, t) /\ UNCHANGED <<mstate, msglist, reports>>
  BY DEF Submit, multiVars
<1>2. caller'[t] = "waking" /\ \A u \in Transfers : u # t => caller'[u] = caller[u]
  BY <1>1 DEF TypeOK
<1>3. ~Among(t, inQueue) /\ Distinct(inQueue) /\ inQueue \in Seq(Transfers)
  BY <1>1 DEF QueueInv, Standing, TypeOK
<1>4. Distinct(inQueue') /\ \A u : Among(u, inQueue') <=> Among(u, inQueue) \/ u = t
  BY <1>1, <1>3, AppendMembers
<1>. QED
  BY <1>1, <1>2, <1>4

\* The wake-up changes nothing the transfers are known by.
LEMMA SubmitWakesStep ==
  ASSUME TypeOK, NEW t \in Transfers, SubmitWakes(t)
  PROVE  /\ \A u \in Transfers : caller'[u] = "idle" <=> caller[u] = "idle"
         /\ UNCHANGED <<mstate, msglist, inQueue, reports>>
BY DEF SubmitWakes, Wakeup, TypeOK

\* The transfer at the head of the queue goes on the stack.
LEMMA DrainStep ==
  ASSUME TypeOK, MInv, QueueInv, DrainQueue
  PROVE  \E t \in Transfers :
           /\ Among(t, inQueue) /\ mstate[t] = "off" /\ mstate'[t] = "INIT"
           /\ \A u \in Transfers : u # t => mstate'[u] = mstate[u]
           /\ Distinct(inQueue')
           /\ \A u : Among(u, inQueue') <=> Among(u, inQueue) /\ u # t
           /\ UNCHANGED <<msglist, caller, reports>>
<1>1. PICK t : /\ t = Head(inQueue) /\ AddHandle(t) /\ inQueue # <<>>
               /\ inQueue' = Tail(inQueue) /\ UNCHANGED <<caller, reports>>
  BY DEF DrainQueue
<1>2. Distinct(inQueue) /\ inQueue \in Seq(Transfers)
  BY DEF QueueInv, TypeOK
<1>3. /\ t \in Transfers /\ Among(t, inQueue) /\ Distinct(inQueue')
      /\ \A u : Among(u, inQueue') <=> Among(u, inQueue) /\ u # t
  BY <1>1, <1>2, TailMembers
<1>4. /\ mstate[t] = "off" /\ mstate'[t] = "INIT" /\ UNCHANGED msglist
      /\ \A u \in Transfers : u # t => mstate'[u] = mstate[u]
  BY <1>1, <1>3 DEF AddHandle, MInv, MultiTypeOK
<1>. QED
  BY <1>1, <1>3, <1>4

\* The message at the head of the list is taken out of it and counted.
LEMMA InfoReadStep ==
  ASSUME TypeOK, MInv, QueueInv, MultiInfoRead
  PROVE  \E t \in Transfers :
           /\ mstate[t] = "MSGSENT" /\ reports[t] = 0 /\ reports' = [reports EXCEPT ![t] = 1]
           /\ ~Among(t, msglist')
           /\ \A u : Among(u, msglist') => Among(u, msglist)
           /\ UNCHANGED <<mstate, inQueue, caller>>
<1>1. PICK t : /\ t = Head(msglist) /\ InfoRead(t) /\ msglist # <<>>
               /\ reports' = [reports EXCEPT ![t] = @ + 1] /\ UNCHANGED <<inQueue, caller>>
  BY DEF MultiInfoRead
<1>2. /\ msglist \in Seq(Transfers) /\ Distinct(msglist)
      /\ \A i \in 1 .. Len(msglist) : msglist[i] \in msgsent
  BY DEF MInv, MultiTypeOK, MessagesValid, Distinct
<1>3. msglist' = Tail(msglist) /\ UNCHANGED mstate
  BY <1>1 DEF InfoRead
<1>4. /\ t \in Transfers /\ Among(t, msglist) /\ ~Among(t, msglist')
      /\ \A u : Among(u, msglist') => Among(u, msglist)
  BY <1>1, <1>2, <1>3, TailMembers
<1>5. mstate[t] = "MSGSENT"
  BY <1>2, <1>4 DEF Among, MInv, Sets
<1>6. reports[t] = 0
  BY <1>4 DEF QueueInv, Standing
<1>7. reports' = [reports EXCEPT ![t] = 1]
  BY <1>1, <1>6
<1>. QED
  BY <1>1, <1>3, <1>4, <1>5, <1>6, <1>7

\* Every step keeps the loop's knowledge of the transfers right.
LEMMA NextKeepsQueueInv ==
  ASSUME TypeOK, MInv, QueueInv, [Next]_vars
  PROVE  QueueInv'
<1>. USE DEF QueueInv, Standing
<1>1. CASE UNCHANGED <<mstate, msglist, inQueue, caller, reports>>
  BY <1>1 DEF Among, Distinct
<1>2. ASSUME NEW t \in Transfers, Submit(t) PROVE QueueInv'
  <2>1. /\ caller[t] = "idle" /\ caller'[t] = "waking"
        /\ \A u \in Transfers : u # t => caller'[u] = caller[u]
        /\ Distinct(inQueue')
        /\ \A u : Among(u, inQueue') <=> Among(u, inQueue) \/ u = t
        /\ UNCHANGED <<mstate, msglist, reports>>
    BY <1>2, SubmitStep
  <2>2. \A u : Among(u, msglist') <=> Among(u, msglist)
    BY <2>1
  <2>3. Distinct(inQueue)'
    BY <2>1 DEF Distinct
  <2>4. ASSUME NEW u \in Transfers PROVE Standing(u)'
    BY <2>1, <2>2 DEF Among
  <2>. QED
    BY <2>3, <2>4
<1>3. ASSUME NEW t \in Transfers, SubmitWakes(t) PROVE QueueInv'
  BY <1>3, SubmitWakesStep DEF Among, Distinct
<1>4. CASE DrainQueue
  <2>1. PICK t \in Transfers :
          /\ Among(t, inQueue) /\ mstate[t] = "off" /\ mstate'[t] = "INIT"
          /\ \A u \in Transfers : u # t => mstate'[u] = mstate[u]
          /\ Distinct(inQueue')
          /\ \A u : Among(u, inQueue') <=> Among(u, inQueue) /\ u # t
          /\ UNCHANGED <<msglist, caller, reports>>
    BY <1>4, DrainStep
  <2>2. \A u : Among(u, msglist') <=> Among(u, msglist)
    BY <2>1
  <2>3. Distinct(inQueue)'
    BY <2>1 DEF Distinct
  <2>4. caller[t] # "idle" /\ reports[t] = 0 /\ ~Among(t, inQueue')
    BY <2>1
  <2>5. ASSUME NEW u \in Transfers
        PROVE  /\ caller'[u] = "idle" => ~Among(u, inQueue')
               /\ caller'[u] = "idle" \/ Among(u, inQueue') => mstate'[u] = "off" /\ reports'[u] = 0
               /\ reports'[u] \in {0, 1}
               /\ reports'[u] = 1 => mstate'[u] \in {"MSGSENT", "off"} /\ ~Among(u, msglist')
    <3>1. CASE u = t
      BY <2>1, <2>4, <3>1
    <3>2. CASE u # t
      BY <2>1, <2>2, <3>2
    <3>. QED
      BY <3>1, <3>2
  <2>6. ASSUME NEW u \in Transfers PROVE Standing(u)'
    BY <2>5 DEF Among
  <2>. QED
    BY <2>3, <2>6
<1>5. CASE Progress /\ UNCHANGED <<inQueue, caller, reports>>
  BY <1>5 DEF Progress, Among, Distinct
<1>6. CASE MultiInfoRead
  <2>1. PICK t \in Transfers :
          /\ mstate[t] = "MSGSENT" /\ reports[t] = 0 /\ reports' = [reports EXCEPT ![t] = 1]
          /\ ~Among(t, msglist')
          /\ \A u : Among(u, msglist') => Among(u, msglist)
          /\ UNCHANGED <<mstate, inQueue, caller>>
    BY <1>6, InfoReadStep
  <2>2. reports'[t] = 1 /\ \A u \in Transfers : u # t => reports'[u] = reports[u]
    BY <2>1 DEF TypeOK
  <2>3. \A u : Among(u, inQueue') <=> Among(u, inQueue)
    BY <2>1
  <2>4. Distinct(inQueue)'
    BY <2>1 DEF Distinct
  <2>5. ASSUME NEW u \in Transfers
        PROVE  /\ caller'[u] = "idle" => ~Among(u, inQueue')
               /\ caller'[u] = "idle" \/ Among(u, inQueue') => mstate'[u] = "off" /\ reports'[u] = 0
               /\ reports'[u] \in {0, 1}
               /\ reports'[u] = 1 => mstate'[u] \in {"MSGSENT", "off"} /\ ~Among(u, msglist')
    <3>1. CASE u = t
      BY <2>1, <2>2, <2>3, <3>1
    <3>2. CASE u # t
      BY <2>1, <2>2, <2>3, <3>2
    <3>. QED
      BY <3>1, <3>2
  <2>6. ASSUME NEW u \in Transfers PROVE Standing(u)'
    BY <2>5 DEF Among
  <2>. QED
    BY <2>4, <2>6
<1>7. ASSUME NEW t \in Transfers, TakenOff(t), UNCHANGED <<inQueue, caller, reports>>
      PROVE  QueueInv'
  BY <1>7 DEF TakenOff, Among, Distinct
<1>. QED
  BY <1>1, <1>2, <1>3, <1>4, <1>5, <1>6, <1>7, StepKinds

----------------------------------------------------------------------------
(* The theorems.                                                           *)

\* The initial state satisfies the invariant.
LEMMA InitIInv == Init => IInv
<1>. SUFFICES ASSUME Init PROVE IInv
  OBVIOUS
<1>. USE DEF Init, MultiInit
<1>1. Len(msglist) = 0 /\ msglist \in Seq(Transfers) /\ Len(inQueue) = 0 /\ inQueue \in Seq(Transfers)
  BY EmptySeq
<1>2. 0 \in 0 .. N /\ 0 \in 0 .. PairCapacity /\ Limit \in Nat
  BY SizesAssumption
<1>3. TypeOK
  BY <1>1, <1>2 DEF TypeOK, MultiTypeOK, MStates
<1>4. Sets
  <2>1. Live = {}
    BY DEF Live
  <2>2. alive = Cardinality(Live) /\ Cardinality(conn) = 0
    BY <2>1, FS_EmptySet
  <2>. QED
    BY <1>2, <2>2 DEF Sets
<1>5. NoStrandedPending /\ MessagesValid
  BY <1>1 DEF NoStrandedPending, MessagesValid
<1>6. LoopInv
  BY <1>1 DEF LoopInv
<1>7. QueueInv
  BY <1>1 DEF QueueInv, Standing, Distinct, Among
<1>. QED
  BY <1>3, <1>4, <1>5, <1>6, <1>7 DEF IInv, MInv, TypeOK

\* Every step preserves the invariant.
LEMMA NextIInv == IInv /\ [Next]_vars => IInv'
<1>. SUFFICES ASSUME IInv, [Next]_vars PROVE IInv'
  OBVIOUS
<1>. USE DEF IInv
<1>1. CASE Next
  BY <1>1, NextKeepsMInv, NextKeepsTypes, NextKeepsLoopInv, NextKeepsQueueInv
<1>2. CASE UNCHANGED vars
  <2>1. UNCHANGED multiVars /\ UNCHANGED <<pc, cur, inQueue, caller, reports>>
    BY <1>2 DEF vars, loopVars
  <2>2. MInv'
    BY <2>1, SameMultiKeepsMInv
  <2>3. UNCHANGED <<mstate, setVars, msglist, conn, late, phase, cursor, bytes>>
    BY <2>1 DEF multiVars
  <2>4. UNCHANGED dirty
    BY <2>3 DEF setVars
  <2>5. TypeOK'
    BY <2>1, <2>2 DEF TypeOK, MInv
  <2>6. LoopInv'
    BY <2>1, <2>3, <2>4 DEF LoopInv
  <2>. QED
    BY <2>2, <2>5, <2>6, NextKeepsQueueInv
<1>. QED
  BY <1>1, <1>2

\* The invariant holds in every state.
THEOREM Invariance == Spec => []IInv
BY InitIInv, NextIInv, PTL DEF Spec

\* The variables of curl's multi handle and of the loop have their types.
THEOREM TypeCorrect == Spec => []TypeOK
<1>1. IInv => TypeOK
  BY DEF IInv
<1>. QED
  BY <1>1, Invariance, PTL

\* The sets of the multi handle agree with the states of the transfers, its
\* count of running transfers is right, and the limit of connections is kept.
THEOREM SetsCorrect == Spec => []SetsAgree
<1>1. IInv => SetsAgree
  BY SetsForm DEF IInv, MInv
<1>. QED
  BY <1>1, Invariance, PTL

\* No transfer waits for a connection that is free without another that will
\* ask for one, and pass the word on.
THEOREM NoStrandedCorrect == Spec => []NoStrandedPending
<1>1. IInv => NoStrandedPending
  BY DEF IInv, MInv
<1>. QED
  BY <1>1, Invariance, PTL

\* Messages are of transfers that are over and on the stack, one for each.
THEOREM MessagesCorrect == Spec => []MessagesValid
<1>1. IInv => MessagesValid
  BY DEF IInv, MInv
<1>. QED
  BY <1>1, Invariance, PTL

\* The loop never sleeps over a submission or a free connection.
THEOREM NoSleepCorrect == Spec => []NoSleepOverWork
<1>1. ASSUME IInv, phase = "asleep", bytes = 0
      PROVE  /\ \A i \in 1 .. Len(inQueue) : caller[inQueue[i]] = "waking"
             /\ pending # {} => ~ConnectionAvailable
             /\ dirty = {}
  <2>1. dirty = {} /\ pc = "poll"
    BY <1>1 DEF IInv, LoopInv
  <2>2. \A i \in 1 .. Len(inQueue) : caller[inQueue[i]] = "waking"
    BY <1>1, <2>1 DEF IInv, LoopInv
  <2>3. pending # {} => ~ConnectionAvailable
    BY <1>1, <2>1 DEF IInv, MInv, NoStrandedPending
  <2>. QED
    BY <2>1, <2>2, <2>3
<1>2. IInv => NoSleepOverWork
  BY <1>1 DEF NoSleepOverWork
<1>. QED
  BY <1>2, Invariance, PTL

----------------------------------------------------------------------------
(* The loop and curl together implement TransferStack.                     *)

\* The status of a transfer, by where it is in the queue.
StatusBy(state, called, queue, read, u) ==
  IF state[u] = "off"
  THEN IF called[u] # "idle" /\ ~Among(u, queue) THEN "removed" ELSE "off"
  ELSE IF read[u] > 0 THEN "reported"
  ELSE IF state[u] = "MSGSENT" THEN "ended" ELSE "running"

\* The status before and after a step, by where the transfer is in the queue.
LEMMA StatusForm ==
  \A u \in Transfers :
    /\ Status(u) = StatusBy(mstate, caller, inQueue, reports, u)
    /\ Status(u)' = StatusBy(mstate', caller', inQueue', reports', u)
BY DEF Status, StatusBy, Among

\* A step that changes the status of one transfer.
LEMMA OneGoes ==
  ASSUME NEW t \in Transfers, NEW to, Status(t)' = to,
         \A u \in Transfers : u # t => Status(u)' = Status(u)
  PROVE  [u \in Transfers |-> Status(u)]' = [[u \in Transfers |-> Status(u)] EXCEPT ![t] = to]
OBVIOUS

\* A step that changes the status of none.
LEMMA NoneGoes ==
  ASSUME \A u \in Transfers : Status(u)' = Status(u)
  PROVE  [u \in Transfers |-> Status(u)]' = [u \in Transfers |-> Status(u)]
OBVIOUS

\* Each step is one of TransferStack or none.
LEMMA StepImplemented ==
  ASSUME IInv, [Next]_vars
  PROVE  [Stack!Next]_Stack!vars
<1>. USE DEF IInv
<1>0. QueueInv' /\ \A u \in Transfers : Standing(u) /\ Standing(u)'
  BY NextKeepsQueueInv DEF QueueInv
<1>1. CASE UNCHANGED <<mstate, msglist, inQueue, caller, reports>>
  BY <1>1 DEF Status, Stack!vars
<1>2. ASSUME NEW t \in Transfers, Submit(t) PROVE UNCHANGED Stack!vars
  <2>1. /\ caller[t] = "idle" /\ caller'[t] = "waking"
        /\ \A u \in Transfers : u # t => caller'[u] = caller[u]
        /\ \A u : Among(u, inQueue') <=> Among(u, inQueue) \/ u = t
        /\ UNCHANGED <<mstate, reports>>
    BY <1>2, SubmitStep
  <2>2. mstate[t] = "off"
    BY <1>0, <2>1 DEF Standing
  <2>3. \A u \in Transfers : Status(u)' = Status(u)
    BY <2>1, <2>2, StatusForm DEF StatusBy
  <2>. QED
    BY <2>1, <2>3, NoneGoes DEF Stack!vars
<1>3. ASSUME NEW t \in Transfers, SubmitWakes(t) PROVE UNCHANGED Stack!vars
  <2>1. /\ \A u \in Transfers : caller'[u] = "idle" <=> caller[u] = "idle"
        /\ UNCHANGED <<mstate, inQueue, reports>>
    BY <1>3, SubmitWakesStep
  <2>2. \A u \in Transfers : Status(u)' = Status(u)
    BY <2>1, StatusForm DEF StatusBy
  <2>. QED
    BY <2>1, <2>2, NoneGoes DEF Stack!vars
<1>4. ASSUME NEW t \in Transfers, NEW from, NEW to, Status(t) \in from, Status(t)' = to,
             \A u \in Transfers : u # t => Status(u)' = Status(u)
      PROVE  Stack!Goes(t, from, to)
  BY <1>4, OneGoes DEF Stack!Goes
<1>5. CASE DrainQueue
  <2>1. PICK t \in Transfers :
          /\ Among(t, inQueue) /\ mstate[t] = "off" /\ mstate'[t] = "INIT"
          /\ \A u \in Transfers : u # t => mstate'[u] = mstate[u]
          /\ \A u : Among(u, inQueue') <=> Among(u, inQueue) /\ u # t
          /\ UNCHANGED <<msglist, caller, reports>>
    BY <1>5, DrainStep
  <2>2. reports[t] = 0
    BY <1>0, <2>1 DEF Standing
  <2>3. Status(t) = "off" /\ Status(t)' = "running"
    BY <2>1, <2>2, StatusForm DEF StatusBy
  <2>4. \A u \in Transfers : u # t => Status(u)' = Status(u)
    BY <2>1, StatusForm DEF StatusBy
  <2>5. Stack!Add(t)
    BY <1>4, <2>1, <2>3, <2>4 DEF Stack!Add
  <2>. QED
    BY <2>5 DEF Stack!Next
<1>6. CASE MultiInfoRead
  <2>1. PICK t \in Transfers :
          /\ mstate[t] = "MSGSENT" /\ reports[t] = 0 /\ reports' = [reports EXCEPT ![t] = 1]
          /\ UNCHANGED <<mstate, inQueue, caller>>
    BY <1>6, InfoReadStep
  <2>2. reports'[t] = 1 /\ \A u \in Transfers : u # t => reports'[u] = reports[u]
    BY <2>1 DEF TypeOK
  <2>3. Status(t) = "ended" /\ Status(t)' = "reported"
    BY <2>1, <2>2, StatusForm DEF StatusBy
  <2>4. \A u \in Transfers : u # t => Status(u)' = Status(u)
    BY <2>1, <2>2, StatusForm DEF StatusBy
  <2>5. Stack!Report(t)
    BY <1>4, <2>1, <2>3, <2>4 DEF Stack!Report
  <2>. QED
    BY <2>5 DEF Stack!Next
<1>7. ASSUME NEW t \in Transfers, TakenOff(t), UNCHANGED <<inQueue, caller, reports>>
      PROVE  Stack!Next
  <2>1. /\ mstate[t] # "off" /\ mstate'[t] = "off"
        /\ \A u \in Transfers : u # t =>
             /\ mstate'[u] = "off" <=> mstate[u] = "off"
             /\ mstate'[u] = "MSGSENT" <=> mstate[u] = "MSGSENT"
    BY <1>7 DEF TakenOff
  <2>2. caller[t] # "idle" /\ ~Among(t, inQueue)
    BY <1>0, <2>1 DEF Standing
  <2>3. Status(t) \in {"running", "ended", "reported"} /\ Status(t)' = "removed"
    BY <1>7, <2>1, <2>2, StatusForm DEF StatusBy
  <2>4. \A u \in Transfers : u # t => Status(u)' = Status(u)
    BY <1>7, <2>1, StatusForm DEF StatusBy
  <2>5. Stack!Remove(t)
    BY <1>4, <1>7, <2>3, <2>4 DEF Stack!Remove
  <2>. QED
    BY <2>5 DEF Stack!Next
<1>8. CASE Progress /\ UNCHANGED <<inQueue, caller, reports>>
  <2>1. /\ \A u \in Transfers : mstate'[u] = "off" <=> mstate[u] = "off"
        /\ \A u \in Transfers : mstate[u] = "MSGSENT" => mstate'[u] = "MSGSENT"
        /\ \A u, v \in Transfers : Ends(u) /\ Ends(v) => u = v
    BY <1>8 DEF Progress
  <2>2. ASSUME NEW u \in Transfers, ~Ends(u) PROVE Status(u)' = Status(u)
    BY <1>8, <2>1, <2>2, StatusForm DEF StatusBy, Ends
  <2>3. CASE \A u \in Transfers : ~Ends(u)
    BY <1>8, <2>2, <2>3, NoneGoes DEF Stack!vars
  <2>4. ASSUME NEW t \in Transfers, Ends(t) PROVE Stack!Next
    <3>1. mstate[t] \notin {"off", "MSGSENT"} /\ mstate'[t] = "MSGSENT"
      BY <2>1, <2>4 DEF Ends
    <3>2. reports[t] = 0
      BY <1>0, <3>1 DEF Standing
    <3>3. Status(t) = "running" /\ Status(t)' = "ended"
      BY <1>8, <3>1, <3>2, StatusForm DEF StatusBy
    <3>4. \A u \in Transfers : u # t => Status(u)' = Status(u)
      BY <2>1, <2>2, <2>4
    <3>5. Stack!End(t)
      BY <1>4, <1>8, <3>3, <3>4 DEF Stack!End
    <3>. QED
      BY <3>5 DEF Stack!Next
  <2>. QED
    BY <2>3, <2>4
<1>. QED
  BY <1>1, <1>2, <1>3, <1>5, <1>6, <1>7, <1>8, StepKinds

\* The initial states are those of TransferStack.
LEMMA InitImplemented == Init => Stack!Init
BY DEF Init, MultiInit, Stack!Init, Status

\* The loop and curl implement the stack the client relies on: what is put on it
\* ends, its end is reported once, and nothing is reported of what was taken off.
THEOREM StackImplemented == Spec => ImplementsStack
<1>1. Init => Stack!Init
  BY InitImplemented
<1>2. IInv /\ [Next]_vars => [Stack!Next]_Stack!vars
  BY StepImplemented
<1>. QED
  BY <1>1, <1>2, Invariance, PTL DEF Spec, ImplementsStack, Stack!Spec
=============================================================================
