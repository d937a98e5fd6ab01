-------------------------- MODULE HttpClientProofs --------------------------
(***************************************************************************)
(* What HttpClient guarantees for any number of calls, requests, retries   *)
(* and restarts.                                                           *)
(***************************************************************************)
EXTENDS HttpClient, TLAPS

----------------------------------------------------------------------------
(* The pure part.                                                          *)

\* A wait is a number of ticks, whatever the reply and the policy.
LEMMA SleepIsNat ==
  ASSUME NEW c \in Calls, reply[c] \in Replies \cup {NoReply}, NEW n,
         NEW ms \in ComputeRetrySleep(reply[c], RequestFor(c).policy, n)
  PROVE  ms \in Nat /\ ms <= RequestFor(c).policy.maxBackoff
<1>1. /\ RequestFor(c).policy.maxBackoff \in Nat
      /\ reply[c].retryAfter \in Nat
  BY CallsAssumption, ConfigAssumption, RepliesAssumption DEF RequestFor, NoReply
<1>. QED
  BY <1>1 DEF ComputeRetrySleep, LesserOf

\* Run repeats only what HTTP lets it repeat, and counts the attempts.
LEMMA RetriesRepeatable ==
  ASSUME NEW c \in Calls, attempts[c] \in Nat, attempts[c] >= 1, Retries(c)
  PROVE  attempts[c] + 1 <= AttemptLimit(c)
<1>. DEFINE req == RequestFor(c)
<1>1. RequestOf[c] \in Requests /\ req = Config[RequestOf[c]]
  BY CallsAssumption DEF RequestFor
<1>2. /\ req.policy.maxAttempts \in Nat
      /\ req.sink \in {"memory", "stream"}
  BY <1>1, ConfigAssumption
<1>3. /\ attempts[c] < req.policy.maxAttempts
      /\ req.sink # "stream"
      /\ IsReplaySafe(req, req.policy)
  BY DEF Retries, RetriesAfter, SinkIsReplaySafe
<1>4. Repeatable(req)
  BY <1>2, <1>3 DEF Repeatable, IsReplaySafe
<1>. QED
  BY <1>2, <1>3, <1>4 DEF AttemptLimit

\* Every call may be put on the wire at least once.
LEMMA LimitIsPositive ==
  ASSUME NEW c \in Calls
  PROVE  AttemptLimit(c) \in Nat /\ AttemptLimit(c) >= 1
BY CallsAssumption, ConfigAssumption DEF AttemptLimit, RequestFor

\* PrepareContext keeps the types of what it writes.
LEMMA PreparedTypes ==
  ASSUME NEW c \in Calls, NEW next, TypeOK, PrepareContext(c, next)
  PROVE  /\ handles' \subseteq Calls
         /\ sent' \in [Calls -> Nat]
         /\ answers' \in [Calls -> Nat]
<1>1. CASE EasyFails(c, next)
  BY <1>1 DEF EasyFails, TypeOK
<1>2. CASE EasyAdded(c, next)
  <2>1. CASE multi = "open"
    <3>1. /\ handles' = handles \cup {c} /\ answers' = answers
          /\ sent' = [sent EXCEPT ![c] = @ + 1]
      BY <1>2, <2>1 DEF EasyAdded
    <3>2. handles \subseteq Calls /\ sent \in [Calls -> Nat] /\ answers \in [Calls -> Nat]
      BY DEF TypeOK
    <3>. QED
      BY <3>1, <3>2
  <2>2. CASE multi # "open"
    BY <1>2, <2>2 DEF EasyAdded, TypeOK
  <2>. QED
    BY <2>1, <2>2
<1>. QED
  BY <1>1, <1>2 DEF PrepareContext

----------------------------------------------------------------------------
(* Types.                                                                  *)

\* The longest wait of a policy is a number of ticks.
LEMMA BackoffIsNat ==
  ASSUME NEW c \in Calls
  PROVE  RequestFor(c).policy.maxBackoff \in Nat
BY CallsAssumption, ConfigAssumption DEF RequestFor

\* A client that THttpClient.Create has just made is well typed.
LEMMA InitTypes == Init => TypeOK
<1>. SUFFICES ASSUME Init PROVE TypeOK
  OBVIOUS
<1>1. starts \in 0 .. MaxStarts
  BY BoundsAssumption DEF Init
<1>2. inQueue \in Seq(Calls)
  BY DEF Init
<1>3. \A c \in Calls : delay[c] <= RequestFor(c).policy.maxBackoff
  BY BackoffIsNat DEF Init
<1>. QED
  BY <1>1, <1>2, <1>3 DEF Init, TypeOK, CallerStates

\* Every variable keeps its type, THttpClient, its queues and its requests, and
\* no wait for a retry is longer than the policy's.
THEOREM TypeCorrect == Spec => []TypeOK
<1>2. TypeOK /\ [Next]_vars => TypeOK'
  <2>. SUFFICES ASSUME TypeOK, [Next]_vars PROVE TypeOK'
    OBVIOUS
  <2>. USE CallsAssumption DEF TypeOK, CallerStates, ownerVars, queueVars, threadVars,
       curlVars, retryVars, callVars, requestVars
  <2>1. ASSUME NEW c \in Calls, Issue(c) PROVE TypeOK'
    BY <2>1 DEF Issue
  <2>2. ASSUME NEW c \in Calls, SubmitPush(c) PROVE TypeOK'
    <3>1. CASE closed
      BY <2>2, <3>1, ZenonT(30) DEF SubmitPush
    <3>2. CASE ~closed
      <4>1. inQueue' \in Seq(Calls)
        <5>1. inQueue' = Append(inQueue, c)
          BY <2>2, <3>2 DEF SubmitPush
        <5>. QED
          BY <5>1
      <4>2. attempts' \in [Calls -> Nat]
        <5>1. attempts' = [attempts EXCEPT ![c] = 1] /\ attempts \in [Calls -> Nat]
          BY <2>2, <3>2 DEF SubmitPush
        <5>. QED
          BY <5>1
      <4>3. caller' \in [Calls -> CallerStates]
        BY <2>2, <3>2 DEF SubmitPush
      <4>. QED
        BY <2>2, <3>2, <4>1, <4>2, <4>3, SMTT(30) DEF SubmitPush
    <3>. QED
      BY <3>1, <3>2
  <2>3. ASSUME NEW c \in Calls, WakeupTest(c) PROVE TypeOK'
    BY <2>3 DEF WakeupTest, Submitted
  <2>4. ASSUME NEW c \in Calls, WakeupCall(c) PROVE TypeOK'
    BY <2>4 DEF WakeupCall, Submitted
  <2>5. ASSUME NEW c \in Calls, Await(c) PROVE TypeOK'
    BY <2>5 DEF Await
  <2>6. CASE Start
    BY <2>6, BoundsAssumption DEF Start
  <2>7. CASE Shutdown
    BY <2>7 DEF Shutdown
  <2>8. CASE ShutdownNext
    <3>1. CASE CloseQueue
      BY <3>1 DEF CloseQueue
    <3>2. CASE ThreadWait
      BY <3>2 DEF ThreadWait
    <3>3. CASE MultiCleanup
      BY <3>3 DEF MultiCleanup
    <3>. QED
      BY <2>8, <3>1, <3>2, <3>3 DEF ShutdownNext
  <2>9. CASE WhileRunning
    BY <2>9 DEF WhileRunning
  <2>10. CASE DrainQueue
    <3>1. Head(inQueue) \in Calls /\ Tail(inQueue) \in Seq(Calls)
      BY <2>10 DEF DrainQueue
    <3>2. PrepareContext(Head(inQueue), "drain")
      BY <2>10 DEF DrainQueue
    <3>3. /\ handles' \subseteq Calls /\ sent' \in [Calls -> Nat]
          /\ answers' \in [Calls -> Nat]
      BY <3>1, <3>2, PreparedTypes
    <3>. QED
      BY <2>10, <3>1, <3>2, <3>3 DEF DrainQueue, PrepareContext, EasyFails, EasyAdded
  <2>11. CASE QueueDrained
    BY <2>11 DEF QueueDrained
  <2>12. ASSUME NEW c \in Calls, AdmitDueRetry(c) PROVE TypeOK'
    <3>1. PrepareContext(c, "admit")
      BY <2>12 DEF AdmitDueRetry
    <3>2. /\ handles' \subseteq Calls /\ sent' \in [Calls -> Nat]
          /\ answers' \in [Calls -> Nat]
      BY <3>1, PreparedTypes
    <3>. QED
      BY <2>12, <3>1, <3>2 DEF AdmitDueRetry, PrepareContext, EasyFails, EasyAdded
  <2>13. CASE RetriesAdmitted
    BY <2>13 DEF RetriesAdmitted
  <2>14. CASE MultiPerform
    BY <2>14 DEF MultiPerform
  <2>15. CASE MultiPoll
    BY <2>15 DEF MultiPoll
  <2>16. CASE MessagesRead
    BY <2>16 DEF MessagesRead
  <2>17. ASSUME NEW c \in Calls, ScheduleRetry(c) PROVE TypeOK'
    <3>0. PICK ms \in ComputeRetrySleep(reply[c], RequestFor(c).policy, attempts[c]) :
            delay' = [delay EXCEPT ![c] = ms]
      BY <2>17 DEF ScheduleRetry
    <3>1. /\ delay' \in [Calls -> Nat]
          /\ \A d \in Calls : delay'[d] <= RequestFor(d).policy.maxBackoff
      BY <3>0, SleepIsNat
    <3>4. attempts' \in [Calls -> Nat]
      BY <2>17 DEF ScheduleRetry
    <3>2. body' \in [Requests -> {"start", "read"}]
      BY <2>17 DEF ScheduleRetry, ReplayedBody
    <3>. QED
      BY <2>17, <3>1, <3>2, <3>4 DEF ScheduleRetry, MessageRead
  <2>18. ASSUME NEW c \in Calls, DeliverResult(c) PROVE TypeOK'
    <3>1. answers' \in [Calls -> Nat]
      BY <2>18 DEF DeliverResult
    <3>2. response' \in [Requests -> Calls \cup {None}]
      BY <2>18 DEF DeliverResult
    <3>. QED
      BY <2>18, <3>1, <3>2 DEF DeliverResult, MessageRead
  <2>19. CASE NotifyListener
    <3>1. notified' \in [Calls -> SUBSET Calls]
      <4>1. cur \in Calls
        BY <2>19 DEF NotifyListener
      <4>2. PICK l : \/ notified' = notified
                     \/ l \in Calls /\ notified' = [notified EXCEPT ![l] = @ \cup {cur}]
        BY <2>19, <4>1 DEF NotifyListener
      <4>3. ASSUME NEW d \in Calls PROVE notified[d] \cup {cur} \in SUBSET Calls
        BY <4>1
      <4>4. CASE l \in Calls /\ notified' = [notified EXCEPT ![l] = @ \cup {cur}]
        <5>1. notified' = [d \in Calls |-> IF d = l THEN notified[d] \cup {cur} ELSE notified[d]]
          BY <4>4
        <5>2. ASSUME NEW d \in Calls PROVE notified'[d] \in SUBSET Calls
          BY <4>3, <5>1
        <5>. QED
          BY <5>1, <5>2
      <4>. QED
        BY <4>2, <4>4
    <3>. QED
      BY <2>19, <3>1 DEF NotifyListener
  <2>20. CASE OnCompleteReturns
    BY <2>20 DEF OnCompleteReturns
  <2>21. CASE LeaveRun
    BY <2>21 DEF LeaveRun
  <2>22. CASE Tick
    <3>1. /\ delay' = [c \in Calls |-> IF delay[c] > 0 THEN delay[c] - 1 ELSE 0]
          /\ UNCHANGED <<ownerVars, queueVars, threadVars, curlVars, retryQueue,
                         attempts, callVars, requestVars>>
      BY <2>22 DEF Tick
    <3>2. delay' \in [Calls -> Nat]
      BY <3>1
    <3>3. ASSUME NEW c \in Calls PROVE delay'[c] <= RequestFor(c).policy.maxBackoff
      <4>1. /\ RequestFor(c).policy.maxBackoff \in Nat /\ delay[c] \in Nat
            /\ delay[c] <= RequestFor(c).policy.maxBackoff
            /\ delay'[c] = IF delay[c] > 0 THEN delay[c] - 1 ELSE 0
        BY <3>1, BackoffIsNat
      <4>. QED
        BY <4>1
    <3>. QED
      BY <3>1, <3>2, <3>3
  <2>23. CASE UNCHANGED vars
    BY <2>23 DEF vars
  <2>. QED
    BY <2>1, <2>2, <2>3, <2>4, <2>5, <2>6, <2>7, <2>8, <2>9, <2>10, <2>11, <2>12,
       <2>13, <2>14, <2>15, <2>16, <2>17, <2>18, <2>19, <2>20, <2>21, <2>22, <2>23
       DEF Next, CallerNext, RunNext
<1>. QED
  BY <1>2, InitTypes, PTL DEF Spec

----------------------------------------------------------------------------
(* Safety.                                                                 *)

\* What TConcurrentQueue.Push does to membership in the queue.
LEMMA AmongAppend ==
  ASSUME NEW S, NEW s \in Seq(S), NEW c \in S, NEW d
  PROVE  /\ Among(Append(s, c), d) <=> Among(s, d) \/ d = c
         /\ OnceIn(s, d) /\ (d = c => ~Among(s, d)) => OnceIn(Append(s, c), d)
BY DEF Among, OnceIn

\* What TConcurrentQueue.TryPop does to membership in the queue.
LEMMA AmongTail ==
  ASSUME NEW S, NEW s \in Seq(S), s # <<>>, NEW d, OnceIn(s, Head(s)), OnceIn(s, d)
  PROVE  /\ Among(Tail(s), d) <=> Among(s, d) /\ d # Head(s)
         /\ OnceIn(Tail(s), d)
         /\ Among(s, Head(s))
<1>. DEFINE t == Tail(s)
<1>1. /\ Len(s) \in Nat \ {0} /\ Head(s) = s[1]
      /\ t \in Seq(S) /\ Len(t) = Len(s) - 1
      /\ \A i \in 1 .. Len(t) : t[i] = s[i + 1]
  OBVIOUS
<1>2. Among(s, Head(s))
  BY <1>1 DEF Among
<1>3. ASSUME Among(t, d) PROVE Among(s, d) /\ d # Head(s)
  <2>1. PICK i \in 1 .. Len(t) : t[i] = d
    BY <1>3 DEF Among
  <2>2. i + 1 \in 1 .. Len(s) /\ s[i + 1] = d /\ i + 1 # 1 /\ 1 \in 1 .. Len(s)
    BY <1>1, <2>1
  <2>. QED
    BY <1>1, <2>2 DEF Among, OnceIn
<1>4. ASSUME Among(s, d), d # Head(s) PROVE Among(t, d)
  <2>1. PICK i \in 1 .. Len(s) : s[i] = d
    BY <1>4 DEF Among
  <2>2. i - 1 \in 1 .. Len(t) /\ t[i - 1] = d
    BY <1>1, <1>4, <2>1
  <2>. QED
    BY <2>2 DEF Among
<1>5. OnceIn(t, d)
  <2>. SUFFICES ASSUME NEW i \in 1 .. Len(t), NEW j \in 1 .. Len(t), t[i] = d, t[j] = d
                PROVE  i = j
    BY DEF OnceIn
  <2>1. /\ i + 1 \in 1 .. Len(s) /\ j + 1 \in 1 .. Len(s)
        /\ s[i + 1] = d /\ s[j + 1] = d
    BY <1>1
  <2>2. i + 1 = j + 1
    BY <2>1 DEF OnceIn
  <2>. QED
    BY <2>2
<1>. QED
  BY <1>2, <1>3, <1>4, <1>5

\* What the proof knows of one call: the parts of InOnePlace, AnsweredOnce,
\* AttemptsBounded and CountsAgree that speak of it.  Only together do they
\* survive a step: a retry is bounded because the counts agree, the counts
\* agree because a call waits in one place, and it is answered once because
\* the answer takes it from there.
CallInv(c) ==
  /\ ~(Queued(c) /\ c \in handles)
  /\ ~(Queued(c) /\ c \in retryQueue)
  /\ ~(c \in handles /\ c \in retryQueue)
  /\ OnceIn(inQueue, c)
  /\ answers[c] > 0 => ~InClient(c)
  /\ Accepted(c) /\ answers[c] = 0 => InClient(c) \/ multi = "freed"
  /\ answers[c] <= 1
  /\ ~Accepted(c) => answers[c] = 0 /\ ~InClient(c) /\ sent[c] = 0
  /\ sent[c] <= AttemptLimit(c)
  /\ Queued(c) \/ c \in retryQueue =>
       attempts[c] = sent[c] + 1 /\ attempts[c] <= AttemptLimit(c)
  /\ c \in handles => attempts[c] = sent[c] /\ sent[c] >= 1

IInv == TypeOK /\ messages \subseteq handles /\ \A c \in Calls : CallInv(c)

\* A step that moves no envelope keeps what is known of a call.
LEMMA Unmoved ==
  ASSUME NEW d \in Calls, CallInv(d),
         inQueue' = inQueue, handles' = handles, retryQueue' = retryQueue,
         attempts' = attempts, sent' = sent, answers' = answers,
         Accepted(d)' <=> Accepted(d), multi' = multi
  PROVE  CallInv(d)'
BY DEF CallInv, InClient, Queued

\* PrepareContext takes call c out of the queue it was waiting in.
LEMMA Prepared ==
  ASSUME NEW c \in Calls, NEW d \in Calls, NEW next, TypeOK,
         CallInv(c), CallInv(d), PrepareContext(c, next),
         Queued(c) \/ c \in retryQueue,
         OnceIn(inQueue', d),
         Queued(d)' <=> Queued(d) /\ ~(d = c /\ Queued(c)),
         d \in retryQueue' <=> d \in retryQueue /\ ~(d = c /\ ~Queued(c)),
         attempts' = attempts, caller' = caller, multi' = multi
  PROVE  CallInv(d)'
<1>. USE DEF CallInv, InClient, Accepted
<1>1. /\ c \notin handles /\ answers[c] = 0 /\ Accepted(c)
      /\ attempts[c] = sent[c] + 1 /\ attempts[c] <= AttemptLimit(c)
      /\ c = d => ~Queued(d)' /\ d \notin retryQueue'
  <2>1. InClient(c)
    OBVIOUS
  <2>2. Accepted(c) /\ c \notin handles /\ answers[c] \in Nat /\ ~(answers[c] > 0)
    BY <2>1 DEF TypeOK
  <2>3. attempts[c] = sent[c] + 1 /\ attempts[c] <= AttemptLimit(c)
    OBVIOUS
  <2>4. c = d => ~Queued(d)' /\ d \notin retryQueue'
    OBVIOUS
  <2>. QED
    BY <2>2, <2>3, <2>4
<1>2. sent[c] \in Nat /\ answers \in [Calls -> Nat] /\ sent \in [Calls -> Nat]
      /\ attempts[c] \in Nat
  BY DEF TypeOK
<1>3. CASE EasyFails(c, next)
  <2>1. /\ handles' = handles /\ sent' = sent
        /\ answers' = [answers EXCEPT ![c] = @ + 1]
    BY <1>3 DEF EasyFails
  <2>2. CASE d = c
    BY <1>1, <1>2, <2>1, <2>2
  <2>3. CASE d # c
    BY <1>2, <2>1, <2>3
  <2>. QED
    BY <2>2, <2>3
<1>4. CASE EasyAdded(c, next) /\ multi = "open"
  <2>1. /\ handles' = handles \cup {c} /\ answers' = answers
        /\ sent' = [sent EXCEPT ![c] = @ + 1]
    BY <1>4 DEF EasyAdded
  <2>2. CASE d = c
    BY <1>1, <1>2, <2>1, <2>2
  <2>3. CASE d # c
    BY <1>2, <2>1, <2>3
  <2>. QED
    BY <2>2, <2>3
<1>5. CASE EasyAdded(c, next) /\ multi # "open"
  <2>1. handles' = handles /\ answers' = answers /\ sent' = sent /\ multi = "freed"
    BY <1>5 DEF EasyAdded, TypeOK
  <2>2. CASE d = c
    BY <1>1, <1>2, <2>1, <2>2
  <2>3. CASE d # c
    BY <1>2, <2>1, <2>3
  <2>. QED
    BY <2>2, <2>3
<1>. QED
  BY <1>3, <1>4, <1>5 DEF PrepareContext

\* IInv is inductive: one step for each thing that moves an envelope, one for
\* all that do not.
LEMMA InvariantStep ==
  ASSUME IInv, TypeOK', [Next]_vars
  PROVE  IInv'
<1>. USE CallsAssumption DEF ownerVars, queueVars, threadVars, curlVars, retryVars,
     callVars, requestVars
<1>. DEFINE Goal == messages' \subseteq handles' /\ \A d \in Calls : CallInv(d)'
<1>0. TypeOK /\ messages \subseteq handles /\ \A d \in Calls : CallInv(d)
  BY DEF IInv
<1>1. ASSUME NEW c \in Calls, Issue(c) \/ WakeupTest(c) \/ WakeupCall(c) \/ Await(c)
      PROVE  Goal
  <2>1. /\ inQueue' = inQueue /\ handles' = handles /\ retryQueue' = retryQueue
        /\ attempts' = attempts /\ sent' = sent /\ answers' = answers
        /\ multi' = multi /\ messages' = messages
    BY <1>1 DEF Issue, WakeupTest, WakeupCall, Await
  <2>2. ASSUME NEW d \in Calls PROVE Accepted(d)' <=> Accepted(d)
    <3>0. caller \in [Calls -> CallerStates]
      BY <1>0 DEF TypeOK
    <3>1. CASE Issue(c)
      BY <3>0, <3>1 DEF Issue, Accepted
    <3>2. CASE WakeupTest(c)
      BY <3>0, <3>2 DEF WakeupTest, Submitted, Accepted
    <3>3. CASE WakeupCall(c)
      BY <3>0, <3>3 DEF WakeupCall, Submitted, Accepted
    <3>4. CASE Await(c)
      BY <3>0, <3>4 DEF Await, Accepted
    <3>. QED
      BY <1>1, <3>1, <3>2, <3>3, <3>4
  <2>. QED
    BY <1>0, <2>1, <2>2, Unmoved
<1>2. ASSUME NEW c \in Calls, SubmitPush(c), ~closed PROVE Goal
  <2>1. /\ inQueue' = Append(inQueue, c) /\ handles' = handles
        /\ retryQueue' = retryQueue /\ messages' = messages /\ sent' = sent
        /\ answers' = answers /\ multi' = multi
        /\ attempts' = [attempts EXCEPT ![c] = 1]
        /\ caller' = [caller EXCEPT ![c] = "wake"] /\ caller[c] = "push"
    BY <1>2 DEF SubmitPush
  <2>2. ~Accepted(c) /\ ~InClient(c) /\ sent[c] = 0 /\ answers[c] = 0
    BY <1>0, <2>1 DEF Accepted, CallInv
  <2>3. ASSUME NEW d \in Calls PROVE CallInv(d)'
    <3>1. /\ Queued(d)' <=> Queued(d) \/ d = c
          /\ OnceIn(inQueue', d)
      BY <1>0, <2>1, <2>2, AmongAppend DEF Queued, InClient, CallInv, TypeOK
    <3>2. CASE d = c
      BY <1>0, <2>1, <2>2, <3>1, <3>2, LimitIsPositive
         DEF CallInv, InClient, Accepted, TypeOK
    <3>3. CASE d # c
      BY <1>0, <2>1, <3>1, <3>3 DEF CallInv, InClient, Accepted, TypeOK
    <3>. QED
      BY <3>2, <3>3
  <2>. QED
    BY <1>0, <2>1, <2>3
<1>3. ASSUME NEW c \in Calls, SubmitPush(c), closed PROVE Goal
  <2>1. /\ inQueue' = inQueue /\ handles' = handles /\ retryQueue' = retryQueue
        /\ attempts' = attempts /\ sent' = sent /\ answers' = answers
        /\ multi' = multi /\ messages' = messages
        /\ caller' = [caller EXCEPT ![c] = "refused"] /\ caller[c] = "push"
    BY <1>3 DEF SubmitPush
  <2>2. ASSUME NEW d \in Calls PROVE Accepted(d)' <=> Accepted(d)
    BY <1>0, <2>1 DEF Accepted, TypeOK
  <2>. QED
    BY <1>0, <2>1, <2>2, Unmoved
<1>4. ASSUME MultiCleanup PROVE Goal
  <2>1. /\ inQueue' = inQueue /\ retryQueue' = retryQueue /\ attempts' = attempts
        /\ sent' = sent /\ answers' = answers /\ caller' = caller
        /\ handles' = {} /\ messages' = {} /\ multi' = "freed"
    BY <1>4 DEF MultiCleanup
  <2>2. ASSUME NEW d \in Calls PROVE CallInv(d)'
    BY <1>0, <2>1 DEF CallInv, InClient, Queued, Accepted
  <2>. QED
    BY <2>1, <2>2
<1>5. ASSUME DrainQueue PROVE Goal
  <2>. DEFINE c == Head(inQueue)
  <2>1. /\ inQueue # <<>> /\ inQueue' = Tail(inQueue) /\ PrepareContext(c, "drain")
        /\ retryQueue' = retryQueue /\ attempts' = attempts /\ caller' = caller
        /\ multi' = multi /\ messages' = messages
    BY <1>5 DEF DrainQueue
  <2>2. c \in Calls /\ inQueue \in Seq(Calls)
    BY <1>0, <2>1 DEF TypeOK
  <2>3. ASSUME NEW d \in Calls PROVE CallInv(d)'
    <3>1. OnceIn(inQueue, c) /\ OnceIn(inQueue, d)
      BY <1>0, <2>2 DEF CallInv
    <3>2. /\ Queued(d)' <=> Queued(d) /\ d # c
          /\ OnceIn(inQueue', d)
          /\ Queued(c)
      BY <2>1, <2>2, <3>1, AmongTail DEF Queued
    <3>. QED
      BY <1>0, <2>1, <2>2, <3>2, Prepared
  <2>4. handles \subseteq handles'
    BY <2>1 DEF PrepareContext, EasyFails, EasyAdded
  <2>5. messages' \subseteq handles'
    BY <1>0, <2>1, <2>4
  <2>. QED
    BY <2>3, <2>5
<1>6. ASSUME NEW c \in Calls, AdmitDueRetry(c) PROVE Goal
  <2>1. /\ inQueue' = inQueue /\ c \in retryQueue /\ PrepareContext(c, "admit")
        /\ retryQueue' = retryQueue \ {c} /\ attempts' = attempts /\ caller' = caller
        /\ multi' = multi /\ messages' = messages
    BY <1>6 DEF AdmitDueRetry, Due
  <2>2. ASSUME NEW d \in Calls PROVE CallInv(d)'
    <3>1. ~Queued(c) /\ OnceIn(inQueue', d) /\ (Queued(d)' <=> Queued(d))
      BY <1>0, <2>1 DEF CallInv, Queued
    <3>. QED
      BY <1>0, <2>1, <3>1, Prepared
  <2>3. handles \subseteq handles'
    BY <2>1 DEF PrepareContext, EasyFails, EasyAdded
  <2>. QED
    BY <1>0, <2>1, <2>2, <2>3
<1>7. ASSUME MultiPerform PROVE Goal
  <2>1. /\ inQueue' = inQueue /\ handles' = handles /\ retryQueue' = retryQueue
        /\ attempts' = attempts /\ sent' = sent /\ answers' = answers
        /\ multi' = multi /\ caller' = caller /\ messages' \subseteq handles
    BY <1>0, <1>7 DEF MultiPerform
  <2>2. ASSUME NEW d \in Calls PROVE Accepted(d)' <=> Accepted(d)
    BY <2>1 DEF Accepted
  <2>. QED
    BY <1>0, <2>1, <2>2, Unmoved
<1>8. ASSUME NEW c \in Calls, ScheduleRetry(c) PROVE Goal
  <2>1. /\ c \in messages /\ messages' = messages \ {c} /\ handles' = handles \ {c}
        /\ inQueue' = inQueue /\ retryQueue' = retryQueue \cup {c} /\ sent' = sent
        /\ answers' = answers /\ multi' = multi /\ caller' = caller
        /\ attempts' = [attempts EXCEPT ![c] = @ + 1] /\ Retries(c)
    BY <1>8 DEF ScheduleRetry, MessageRead
  <2>2. /\ c \in handles /\ ~Queued(c) /\ c \notin retryQueue /\ answers[c] = 0
        /\ attempts[c] = sent[c] /\ attempts[c] \in Nat /\ attempts[c] >= 1
        /\ attempts \in [Calls -> Nat] /\ answers \in [Calls -> Nat]
        /\ Accepted(c)
    BY <1>0, <2>1 DEF CallInv, InClient, TypeOK
  <2>3. attempts[c] + 1 <= AttemptLimit(c)
    BY <2>1, <2>2, RetriesRepeatable
  <2>4. ASSUME NEW d \in Calls PROVE CallInv(d)'
    <3>1. CASE d = c
      BY <1>0, <2>1, <2>2, <2>3, <3>1 DEF CallInv, InClient, Queued, Accepted
    <3>2. CASE d # c
      BY <1>0, <2>1, <2>2, <3>2 DEF CallInv, InClient, Queued, Accepted
    <3>. QED
      BY <3>1, <3>2
  <2>. QED
    BY <1>0, <2>1, <2>4
<1>9. ASSUME NEW c \in Calls, DeliverResult(c) PROVE Goal
  <2>1. /\ c \in messages /\ messages' = messages \ {c} /\ handles' = handles \ {c}
        /\ inQueue' = inQueue /\ retryQueue' = retryQueue /\ sent' = sent
        /\ answers' = [answers EXCEPT ![c] = @ + 1] /\ multi' = multi
        /\ caller' = caller /\ attempts' = attempts
    BY <1>9 DEF DeliverResult, MessageRead
  <2>2. /\ c \in handles /\ ~Queued(c) /\ c \notin retryQueue /\ answers[c] = 0
        /\ answers \in [Calls -> Nat] /\ Accepted(c)
    BY <1>0, <2>1 DEF CallInv, InClient, TypeOK
  <2>3. ASSUME NEW d \in Calls PROVE CallInv(d)'
    <3>1. CASE d = c
      BY <1>0, <2>1, <2>2, <3>1 DEF CallInv, InClient, Queued, Accepted
    <3>2. CASE d # c
      BY <1>0, <2>1, <2>2, <3>2 DEF CallInv, InClient, Queued, Accepted
    <3>. QED
      BY <3>1, <3>2
  <2>. QED
    BY <1>0, <2>1, <2>3
<1>10. ASSUME LeaveRun PROVE Goal
  <2>1. /\ inQueue' = inQueue /\ handles' = handles /\ retryQueue' = retryQueue
        /\ attempts' = attempts /\ sent' = sent /\ answers' = answers
        /\ multi' = multi /\ caller' = caller /\ messages' = {}
    BY <1>10 DEF LeaveRun
  <2>2. ASSUME NEW d \in Calls PROVE Accepted(d)' <=> Accepted(d)
    BY <2>1 DEF Accepted
  <2>. QED
    BY <1>0, <2>1, <2>2, Unmoved
<1>11. ASSUME \/ Start \/ Shutdown \/ CloseQueue \/ ThreadWait \/ WhileRunning
              \/ QueueDrained \/ RetriesAdmitted \/ MultiPoll \/ MessagesRead
              \/ NotifyListener \/ OnCompleteReturns \/ Tick \/ UNCHANGED vars
       PROVE  Goal
  <2>1. /\ inQueue' = inQueue /\ handles' = handles /\ retryQueue' = retryQueue
        /\ attempts' = attempts /\ sent' = sent /\ answers' = answers
        /\ multi' = multi /\ caller' = caller /\ messages' = messages
    BY <1>11 DEF Start, Shutdown, CloseQueue, ThreadWait, WhileRunning, QueueDrained,
       RetriesAdmitted, MultiPoll, MessagesRead, NotifyListener, OnCompleteReturns,
       Tick, vars
  <2>2. ASSUME NEW d \in Calls PROVE Accepted(d)' <=> Accepted(d)
    BY <2>1 DEF Accepted
  <2>. QED
    BY <1>0, <2>1, <2>2, Unmoved
<1>. HIDE DEF Goal
<1>12. ASSUME NEW c \in Calls, CallerNext(c) PROVE Goal
  BY <1>1, <1>2, <1>3, <1>12 DEF CallerNext
<1>13. ASSUME ShutdownNext PROVE Goal
  BY <1>4, <1>11, <1>13 DEF ShutdownNext
<1>14. ASSUME RunNext PROVE Goal
  BY <1>5, <1>6, <1>7, <1>8, <1>9, <1>10, <1>11, <1>14 DEF RunNext
<1>15. Goal
  BY <1>11, <1>12, <1>13, <1>14 DEF Next
<1>. USE DEF Goal
<1>. QED
  BY <1>15 DEF IInv

\* Where the envelopes of THttpClient are, in every reachable state.
LEMMA Invariance == Spec => []IInv
<1>1. Init => IInv
  <2>. SUFFICES ASSUME Init PROVE IInv
    OBVIOUS
  <2>1. TypeOK
    BY InitTypes
  <2>2. ASSUME NEW c \in Calls PROVE CallInv(c)
    BY LimitIsPositive DEF Init, CallInv, InClient, Queued, Among, OnceIn, Accepted
  <2>. QED
    BY <2>1, <2>2 DEF IInv, Init
<1>2. IInv /\ TypeOK' /\ [Next]_vars => IInv'
  BY InvariantStep
<1>. QED
  BY <1>1, <1>2, TypeCorrect, PTL DEF Spec

\* THttpClient loses and duplicates no envelope: an unanswered call is in one
\* of its queues, once, until Shutdown has freed the multi handle.
THEOREM PlacesCorrect == Spec => []InOnePlace
<1>1. IInv => InOnePlace
  BY DEF IInv, CallInv, InOnePlace
<1>. QED
  BY <1>1, Invariance, PTL

\* Run, and the failure path of PrepareContext, answer a call at most once.
THEOREM AnsweredOnceCorrect == Spec => []AnsweredOnce
<1>1. IInv => AnsweredOnce
  BY DEF IInv, CallInv, AnsweredOnce
<1>. QED
  BY <1>1, Invariance, PTL

\* No request goes out more often than its policy and its method allow.
THEOREM AttemptsCorrect == Spec => []AttemptsBounded
<1>1. IInv => AttemptsBounded
  BY DEF IInv, CallInv, AttemptsBounded
<1>. QED
  BY <1>1, Invariance, PTL

\* env.retry.attempts counts what went out.
THEOREM CountsCorrect == Spec => []CountsAgree
<1>1. IInv => CountsAgree
  BY DEF IInv, CallInv, CountsAgree
<1>. QED
  BY <1>1, Invariance, PTL

----------------------------------------------------------------------------
(* Refinement.                                                             *)

\* A step that changes no call's status and makes no handle is a stutter of
\* HttpExchange.
LEMMA ExchangeStutters ==
  ASSUME sent' = sent, \A d \in Calls : Status(d)' = Status(d)
  PROVE  UNCHANGED Exchange!exchangeVars
BY DEF Exchange!exchangeVars

\* A step that changes the status of one call changes the status function at
\* that call.
LEMMA StatusChanges ==
  ASSUME NEW c \in Calls, NEW v, Status(c)' = v,
         \A d \in Calls \ {c} : Status(d)' = Status(d)
  PROVE  [d \in Calls |-> Status(d)]' = [[d \in Calls |-> Status(d)] EXCEPT ![c] = v]
OBVIOUS

\* PrepareContext tries a call, answers it, or, when the multi handle is gone,
\* does nothing HttpExchange sees.
LEMMA PrepareExchanges ==
  ASSUME NEW c \in Calls, NEW next, TypeOK, CallInv(c), PrepareContext(c, next),
         Queued(c) \/ c \in retryQueue, caller' = caller
  PROVE  [Exchange!ExchangeNext]_Exchange!exchangeVars
<1>1. /\ answers[c] = 0 /\ Accepted(c) /\ sent[c] < AttemptLimit(c)
      /\ sent \in [Calls -> Nat] /\ answers \in [Calls -> Nat]
  <2>1. sent[c] \in Nat /\ attempts[c] \in Nat /\ answers[c] \in Nat
    BY DEF TypeOK
  <2>2. InClient(c) /\ attempts[c] = sent[c] + 1 /\ attempts[c] <= AttemptLimit(c)
    BY DEF CallInv, InClient
  <2>3. answers[c] = 0 /\ Accepted(c)
    BY <2>1, <2>2 DEF CallInv
  <2>4. sent[c] < AttemptLimit(c)
    BY <2>1, <2>2, LimitIsPositive
  <2>. QED
    BY <2>3, <2>4 DEF TypeOK
<1>2. Status(c) = "pending"
  BY <1>1 DEF Status
<1>3. CASE EasyFails(c, next)
  <2>1. sent' = sent /\ answers' = [answers EXCEPT ![c] = @ + 1]
    BY <1>3 DEF EasyFails
  <2>2. Status(c)' = "answered" /\ \A d \in Calls \ {c} : Status(d)' = Status(d)
    BY <1>1, <2>1 DEF Status, Accepted
  <2>3. Exchange!Answer(c)
    BY <1>2, <2>1, <2>2, StatusChanges DEF Exchange!Answer
  <2>. QED
    BY <2>3 DEF Exchange!ExchangeNext
<1>4. CASE EasyAdded(c, next) /\ multi = "open"
  <2>1. answers' = answers /\ sent' = [sent EXCEPT ![c] = @ + 1]
    BY <1>4 DEF EasyAdded
  <2>2. \A d \in Calls : Status(d)' = Status(d)
    BY <2>1 DEF Status, Accepted
  <2>3. Exchange!Try(c)
    BY <1>1, <1>2, <2>1, <2>2 DEF Exchange!Try
  <2>. QED
    BY <2>3 DEF Exchange!ExchangeNext
<1>5. CASE EasyAdded(c, next) /\ multi # "open"
  <2>1. answers' = answers /\ sent' = sent
    BY <1>5 DEF EasyAdded
  <2>2. \A d \in Calls : Status(d)' = Status(d)
    BY <2>1 DEF Status, Accepted
  <2>. QED
    BY <2>1, <2>2, ExchangeStutters
<1>. QED
  BY <1>3, <1>4, <1>5 DEF PrepareContext

\* Every step of the client is a step of HttpExchange or a stutter.
LEMMA ExchangeStep ==
  ASSUME IInv, [Next]_vars
  PROVE  [Exchange!ExchangeNext]_Exchange!exchangeVars
<1>. USE CallsAssumption DEF ownerVars, queueVars, threadVars, curlVars, retryVars,
     callVars, requestVars
<1>. DEFINE Goal == [Exchange!ExchangeNext]_Exchange!exchangeVars
<1>0. TypeOK /\ messages \subseteq handles /\ \A d \in Calls : CallInv(d)
  BY DEF IInv
<1>1. ASSUME NEW c \in Calls, Issue(c) \/ WakeupTest(c) \/ WakeupCall(c) \/ Await(c)
      PROVE  Goal
  <2>1. sent' = sent /\ answers' = answers
    BY <1>1 DEF Issue, WakeupTest, WakeupCall, Await
  <2>2. ASSUME NEW d \in Calls PROVE Status(d)' = Status(d)
    <3>1. (Accepted(d)' <=> Accepted(d)) /\ (caller'[d] = "refused" <=> caller[d] = "refused")
      BY <1>0, <1>1 DEF Issue, WakeupTest, WakeupCall, Await, Submitted, Accepted, TypeOK
    <3>. QED
      BY <2>1, <3>1 DEF Status
  <2>. QED
    BY <2>1, <2>2, ExchangeStutters
<1>2. ASSUME NEW c \in Calls, SubmitPush(c) PROVE Goal
  <2>1. /\ sent' = sent /\ answers' = answers /\ caller[c] = "push"
        /\ caller' = [caller EXCEPT ![c] = IF closed THEN "refused" ELSE "wake"]
    BY <1>2 DEF SubmitPush
  <2>2. caller \in [Calls -> CallerStates]
    BY <1>0 DEF TypeOK
  <2>3. answers[c] = 0 /\ Status(c) = "idle"
    BY <1>0, <2>1 DEF CallInv, Accepted, Status
  <2>4. /\ Status(c)' = IF closed THEN "refused" ELSE "pending"
        /\ \A d \in Calls \ {c} : Status(d)' = Status(d)
    BY <2>1, <2>2, <2>3 DEF Status, Accepted
  <2>5. CASE closed
    <3>1. Exchange!Refuse(c)
      BY <2>1, <2>3, <2>4, <2>5, StatusChanges DEF Exchange!Refuse
    <3>. QED
      BY <3>1 DEF Exchange!ExchangeNext
  <2>6. CASE ~closed
    <3>1. Exchange!Accept(c)
      BY <2>1, <2>3, <2>4, <2>6, StatusChanges DEF Exchange!Accept
    <3>. QED
      BY <3>1 DEF Exchange!ExchangeNext
  <2>. QED
    BY <2>5, <2>6
<1>3. ASSUME DrainQueue PROVE Goal
  <2>1. /\ inQueue # <<>> /\ PrepareContext(Head(inQueue), "drain") /\ caller' = caller
    BY <1>3 DEF DrainQueue
  <2>2. Head(inQueue) \in Calls /\ Queued(Head(inQueue))
    <3>1. inQueue \in Seq(Calls)
      BY <1>0 DEF TypeOK
    <3>. QED
      BY <2>1, <3>1 DEF Queued, Among
  <2>. QED
    BY <1>0, <2>1, <2>2, PrepareExchanges
<1>4. ASSUME NEW c \in Calls, AdmitDueRetry(c) PROVE Goal
  BY <1>0, <1>4, PrepareExchanges DEF AdmitDueRetry, Due
<1>5. ASSUME NEW c \in Calls, DeliverResult(c) PROVE Goal
  <2>1. /\ c \in messages /\ sent' = sent /\ caller' = caller
        /\ answers' = [answers EXCEPT ![c] = @ + 1]
    BY <1>5 DEF DeliverResult, MessageRead
  <2>2. /\ answers \in [Calls -> Nat] /\ answers[c] = 0 /\ Accepted(c)
        /\ Status(c) = "pending"
    BY <1>0, <2>1 DEF CallInv, InClient, TypeOK, Status
  <2>3. Status(c)' = "answered" /\ \A d \in Calls \ {c} : Status(d)' = Status(d)
    BY <2>1, <2>2 DEF Status, Accepted
  <2>4. Exchange!Answer(c)
    BY <2>1, <2>2, <2>3, StatusChanges DEF Exchange!Answer
  <2>. QED
    BY <2>4 DEF Exchange!ExchangeNext
<1>6. ASSUME \/ Start \/ Shutdown \/ ShutdownNext \/ WhileRunning \/ QueueDrained
             \/ RetriesAdmitted \/ MultiPerform \/ MultiPoll \/ MessagesRead
             \/ \E c \in Calls : ScheduleRetry(c)
             \/ NotifyListener \/ OnCompleteReturns \/ LeaveRun \/ Tick
             \/ UNCHANGED vars
      PROVE  Goal
  <2>1. sent' = sent /\ answers' = answers /\ caller' = caller
    BY <1>6 DEF Start, Shutdown, ShutdownNext, CloseQueue, ThreadWait, MultiCleanup,
       WhileRunning, QueueDrained, RetriesAdmitted, MultiPerform, MultiPoll,
       MessagesRead, ScheduleRetry, NotifyListener, OnCompleteReturns, LeaveRun,
       Tick, vars
  <2>2. \A d \in Calls : Status(d)' = Status(d)
    BY <2>1 DEF Status, Accepted
  <2>. QED
    BY <2>1, <2>2, ExchangeStutters
<1>. HIDE DEF Goal
<1>7. Goal
  BY <1>1, <1>2, <1>3, <1>4, <1>5, <1>6 DEF Next, CallerNext, RunNext
<1>. QED
  BY <1>7 DEF Goal

\* The client implements HttpExchange: Submit accepts or refuses, PrepareContext
\* tries, Run answers, and nothing else is visible.
THEOREM ExchangeImplemented == Spec => ImplementsExchange
<1>1. Init => Exchange!ExchangeInit
  BY DEF Init, Exchange!ExchangeInit, Status, Accepted
<1>2. IInv /\ [Next]_vars => [Exchange!ExchangeNext]_Exchange!exchangeVars
  BY ExchangeStep
<1>. QED
  BY <1>1, <1>2, Invariance, PTL DEF Spec, ImplementsExchange, Exchange!ExchangeSpec

----------------------------------------------------------------------------
(* Starting, stopping and waking up.                                       *)

\* The part of an iteration of Run after it has emptied the queue and before
\* it polls.
Drained ==
  \/ pc \in {"admit", "perform", "poll"}
  \/ pc \in {"notify", "callback"} /\ resume = "admit"

\* What a queued call can still count on before the thread goes to sleep.
WakeupComing(c) == wakeup \/ caller[c] \in {"wake", "waking"}

\* The order Shutdown does things in, and what it means for the other threads.
\* WakeupTest skips the wake-up once the handle is freed; that is harmless
\* only because the queue is closed by then and can never fill up again.
LifeInv ==
  /\ owner # "idle" => ~running
  /\ owner \in {"join", "cleanup"} => closed
  /\ owner = "cleanup" => pc = "stopped"
  /\ multi = "freed" => closed
  /\ closed /\ owner = "idle" => multi = "freed"
  /\ closed /\ owner = "idle" /\ ~running => pc = "stopped"
  /\ pc \in {"off", "leave", "stopped"} => ~running
  /\ Drained /\ multi = "freed" => inQueue = <<>>
  /\ Drained => \A c \in Calls : Queued(c) => WakeupComing(c)

\* LifeInv is inductive, given the types.
LEMMA LifeStep ==
  ASSUME TypeOK, LifeInv, [Next]_vars
  PROVE  LifeInv'
<1>. USE DEF ownerVars, queueVars, threadVars, curlVars, retryVars, callVars,
     requestVars
<1>1. ASSUME NEW c \in Calls, Issue(c) \/ Await(c) PROVE LifeInv'
  <2>1. /\ owner' = owner /\ running' = running /\ closed' = closed /\ pc' = pc
        /\ multi' = multi /\ inQueue' = inQueue /\ wakeup' = wakeup /\ resume' = resume
    BY <1>1 DEF Issue, Await
  <2>2. ASSUME NEW d \in Calls, WakeupComing(d) PROVE WakeupComing(d)'
    BY <1>1, <2>1, <2>2 DEF Issue, Await, WakeupComing, TypeOK
  <2>. QED
    BY <2>1, <2>2 DEF LifeInv, Drained, Queued
<1>2. ASSUME NEW c \in Calls, SubmitPush(c) PROVE LifeInv'
  <2>1. /\ owner' = owner /\ running' = running /\ closed' = closed /\ pc' = pc
        /\ multi' = multi /\ wakeup' = wakeup /\ resume' = resume
    BY <1>2 DEF SubmitPush
  <2>2. CASE closed
    <3>1. inQueue' = inQueue /\ caller[c] = "push" /\ caller' = [caller EXCEPT ![c] = "refused"]
      BY <1>2, <2>2 DEF SubmitPush
    <3>2. ASSUME NEW d \in Calls, WakeupComing(d) PROVE WakeupComing(d)'
      BY <2>1, <3>1, <3>2 DEF WakeupComing, TypeOK
    <3>. QED
      BY <2>1, <3>1, <3>2 DEF LifeInv, Drained, Queued
  <2>3. CASE ~closed
    <3>1. /\ inQueue' = Append(inQueue, c) /\ caller[c] = "push"
          /\ caller' = [caller EXCEPT ![c] = "wake"]
      BY <1>2, <2>3 DEF SubmitPush
    <3>2. ASSUME NEW d \in Calls, WakeupComing(d) PROVE WakeupComing(d)'
      BY <2>1, <3>1, <3>2 DEF WakeupComing, TypeOK
    <3>3. WakeupComing(c)'
      BY <3>1 DEF WakeupComing, TypeOK
    <3>4. ASSUME NEW d \in Calls PROVE Queued(d)' <=> Queued(d) \/ d = c
      BY <3>1, AmongAppend DEF Queued, TypeOK
    <3>. QED
      BY <2>1, <2>3, <3>2, <3>3, <3>4 DEF LifeInv, Drained
  <2>. QED
    BY <2>2, <2>3
<1>3. ASSUME NEW c \in Calls, WakeupTest(c) PROVE LifeInv'
  <2>1. /\ owner' = owner /\ running' = running /\ closed' = closed /\ pc' = pc
        /\ multi' = multi /\ inQueue' = inQueue /\ wakeup' = wakeup /\ resume' = resume
    BY <1>3 DEF WakeupTest
  <2>2. CASE multi = "open"
    <3>1. ASSUME NEW d \in Calls, WakeupComing(d) PROVE WakeupComing(d)'
      BY <1>3, <2>1, <2>2, <3>1 DEF WakeupTest, WakeupComing, TypeOK
    <3>. QED
      BY <2>1, <3>1 DEF LifeInv, Drained, Queued
  <2>3. CASE multi = "freed"
    <3>1. Drained => \A d \in Calls : ~Queued(d)
      BY <2>3 DEF LifeInv, Queued, Among
    <3>2. Drained' => \A d \in Calls : ~Queued(d)'
      BY <2>1, <3>1 DEF Drained, Queued
    <3>. QED
      BY <2>1, <3>2 DEF LifeInv, Drained
  <2>. QED
    BY <2>2, <2>3 DEF TypeOK
<1>4. ASSUME NEW c \in Calls, WakeupCall(c) PROVE LifeInv'
  BY <1>4 DEF WakeupCall, WakeupComing, LifeInv, Drained, Queued
<1>5. ASSUME Start \/ Shutdown \/ CloseQueue \/ ThreadWait \/ MultiCleanup PROVE LifeInv'
  <2>1. inQueue' = inQueue /\ wakeup' = wakeup /\ caller' = caller /\ resume' = resume
    BY <1>5 DEF Start, Shutdown, CloseQueue, ThreadWait, MultiCleanup
  <2>2. Drained' => Drained /\ multi' = multi
    BY <1>5 DEF Start, Shutdown, CloseQueue, ThreadWait, MultiCleanup, Drained, LifeInv
  <2>3. /\ Drained' /\ multi' = "freed" => inQueue' = <<>>
        /\ Drained' => \A d \in Calls : Queued(d)' => WakeupComing(d)'
    BY <2>1, <2>2 DEF LifeInv, Queued, WakeupComing
  <2>. HIDE DEF Drained
  <2>4. CASE Start
    BY <2>3, <2>4 DEF Start, LifeInv
  <2>5. CASE Shutdown
    BY <2>3, <2>5 DEF Shutdown, LifeInv
  <2>6. CASE CloseQueue
    BY <2>3, <2>6 DEF CloseQueue, LifeInv
  <2>7. CASE ThreadWait
    BY <2>3, <2>7 DEF ThreadWait, LifeInv
  <2>8. CASE MultiCleanup
    BY <2>3, <2>8 DEF MultiCleanup, LifeInv
  <2>. QED
    BY <1>5, <2>4, <2>5, <2>6, <2>7, <2>8
<1>6. ASSUME DrainQueue PROVE LifeInv'
  <2>1. PrepareContext(Head(inQueue), "drain")
    BY <1>6 DEF DrainQueue
  <2>2. pc' \in {"drain", "notify"} /\ pc = "drain" /\ ~Drained'
    BY <1>6, <2>1 DEF DrainQueue, PrepareContext, EasyFails, EasyAdded, Drained
  <2>. QED
    BY <1>6, <2>2 DEF DrainQueue, LifeInv
<1>7. ASSUME QueueDrained PROVE LifeInv'
  BY <1>7 DEF QueueDrained, LifeInv, Queued, Among
<1>8. ASSUME \/ WhileRunning \/ RetriesAdmitted \/ MultiPerform \/ MessagesRead
             \/ NotifyListener \/ OnCompleteReturns \/ LeaveRun \/ Tick
             \/ \E c \in Calls : AdmitDueRetry(c) \/ DeliverResult(c)
             \/ UNCHANGED vars
      PROVE  LifeInv'
  <2>1. /\ owner' = owner /\ running' = running /\ closed' = closed
        /\ multi' = multi /\ inQueue' = inQueue /\ wakeup' = wakeup /\ caller' = caller
    BY <1>8 DEF WhileRunning, RetriesAdmitted, MultiPerform, MessagesRead,
       NotifyListener, OnCompleteReturns, LeaveRun, Tick, AdmitDueRetry, DeliverResult,
       vars
  <2>2. /\ Drained' => Drained
        /\ pc \in {"stopped", "off"} => pc' = pc
        /\ pc' \in {"off", "leave", "stopped"} =>
             pc' = pc \/ pc = "leave" \/ ~running
    <3>1. CASE WhileRunning \/ RetriesAdmitted \/ MultiPerform \/ MessagesRead \/ LeaveRun
      BY <3>1 DEF WhileRunning, RetriesAdmitted, MultiPerform, MessagesRead, LeaveRun,
         Drained
    <3>2. CASE NotifyListener \/ OnCompleteReturns
      BY <3>2 DEF NotifyListener, OnCompleteReturns, Drained, TypeOK
    <3>3. CASE Tick \/ UNCHANGED vars
      BY <3>3 DEF Tick, vars, Drained
    <3>4. ASSUME NEW c \in Calls, AdmitDueRetry(c)
          PROVE  pc = "admit" /\ pc' \in {"admit", "notify"}
      BY <3>4 DEF AdmitDueRetry, PrepareContext, EasyFails, EasyAdded
    <3>5. ASSUME NEW c \in Calls, DeliverResult(c)
          PROVE  pc = "info" /\ pc' = "notify" /\ resume' = "info"
      BY <3>5 DEF DeliverResult, MessageRead
    <3>. QED
      BY <1>8, <3>1, <3>2, <3>3, <3>4, <3>5 DEF Drained
  <2>3. Drained' => \A d \in Calls : Queued(d)' => WakeupComing(d)'
    BY <2>1, <2>2 DEF LifeInv, WakeupComing, Queued
  <2>. QED
    BY <2>1, <2>2, <2>3 DEF LifeInv
<1>9. ASSUME MultiPoll PROVE LifeInv'
  <2>1. ~Drained' /\ pc = "poll" /\ pc' = "info"
    BY <1>9 DEF MultiPoll, Drained
  <2>. QED
    BY <1>9, <2>1 DEF MultiPoll, LifeInv
<1>10. ASSUME NEW c \in Calls, ScheduleRetry(c) PROVE LifeInv'
  BY <1>10 DEF ScheduleRetry, MessageRead, LifeInv, Drained, Queued, WakeupComing
<1>. QED
  BY <1>1, <1>2, <1>3, <1>4, <1>5, <1>6, <1>7, <1>8, <1>9, <1>10
     DEF Next, CallerNext, RunNext, ShutdownNext

\* What Start and Shutdown have done agrees with where Run is, in every
\* reachable state.
LEMMA LifeInvariance == Spec => []LifeInv
<1>1. Init => LifeInv
  BY DEF Init, LifeInv, Drained
<1>. QED
  BY <1>1, LifeStep, TypeCorrect, PTL DEF Spec

\* Run never polls over a submitted call without a wake-up under way.
THEOREM NoLostWakeupCorrect == Spec => []NoLostWakeup
<1>1. TypeOK /\ LifeInv => NoLostWakeup
  <2>. SUFFICES ASSUME TypeOK, LifeInv, pc = "poll", ~wakeup, NEW i \in 1 .. Len(inQueue)
                PROVE  caller[inQueue[i]] \in {"wake", "waking"}
    BY DEF NoLostWakeup
  <2>1. inQueue[i] \in Calls /\ Queued(inQueue[i])
    BY DEF TypeOK, Queued, Among
  <2>. QED
    BY <2>1 DEF LifeInv, Drained, WakeupComing
<1>. QED
  BY <1>1, LifeInvariance, TypeCorrect, PTL

\* After Shutdown has returned the client's thread does nothing: it answers nobody,
\* calls no listener and leaves the transfers alone.
THEOREM SilentCorrect == Spec => SilentWhenDown
<1>1. ASSUME TypeOK, LifeInv, [Next]_vars, closed, owner = "idle", ~running
      PROVE  /\ UNCHANGED <<answers, notified, sent, handles, messages>>
             /\ multi = "freed" /\ pc = "stopped"
  <2>1. multi = "freed" /\ pc = "stopped"
    BY <1>1 DEF LifeInv
  <2>2. ~RunNext
    BY <2>1 DEF RunNext, WhileRunning, DrainQueue, QueueDrained, RetriesAdmitted,
       MultiPerform, MultiPoll, MessagesRead, NotifyListener, OnCompleteReturns,
       LeaveRun, AdmitDueRetry, ScheduleRetry, DeliverResult, MessageRead
  <2>3. ~Shutdown /\ ~ShutdownNext
    BY <1>1 DEF Shutdown, ShutdownNext, CloseQueue, ThreadWait, MultiCleanup
  <2>. QED
    BY <1>1, <2>1, <2>2, <2>3
       DEF Next, CallerNext, Issue, SubmitPush, WakeupTest, WakeupCall, Await, Start,
       Tick, vars, ownerVars, queueVars, threadVars, curlVars, retryVars, callVars,
       requestVars
<1>. QED
  BY <1>1, TypeCorrect, LifeInvariance, PTL DEF Spec, SilentWhenDown
----------------------------------------------------------------------------
(* Request objects.                                                        *)

\* What the callers of Send and SendAsync may do to the fields of a request
\* that the client's thread is about to hand to a listener.  A request object
\* has one call under way; a call is over only once it has been answered,
\* which is said of the two ways to learn of it; and while the client's thread
\* is at work on the answer of a call, no other call on the same request is
\* waiting for its own.
OneUnderWay ==
  \A c, d \in Calls : c # d /\ RequestOf[c] = RequestOf[d] => Over(c) \/ Over(d)

ReturnedAnswered == \A c \in Blocking : caller[c] = "returned" => answers[c] > 0

NotifiedAnswered == \A c, d \in Calls : d \in notified[c] => answers[d] > 0

CurrentAnswered ==
  cur # None =>
    /\ answers[cur] > 0
    /\ \A d \in Calls \ {cur} :
         RequestOf[d] = RequestOf[cur] => Over(d) \/ answers[d] = 0
    /\ WentOut(cur) => response[RequestOf[cur]] = cur

RequestInv == OneUnderWay /\ ReturnedAnswered /\ NotifiedAnswered /\ CurrentAnswered

\* The steps that touch no caller, no answer, no count and no response: those
\* of the client's owner, of curl and of the clock.
QuietStep ==
  \/ Start \/ Shutdown \/ ShutdownNext \/ WhileRunning \/ QueueDrained
  \/ RetriesAdmitted \/ MultiPerform \/ MultiPoll \/ MessagesRead \/ LeaveRun
  \/ Tick \/ UNCHANGED vars

\* A quiet step leaves what a request's callers see as it was.
LEMMA QuietKeeps ==
  ASSUME QuietStep
  PROVE  UNCHANGED <<cur, caller, answers, notified, attempts, sent, response>>
BY DEF QuietStep, Start, Shutdown, ShutdownNext, CloseQueue, ThreadWait, MultiCleanup,
   WhileRunning, QueueDrained, RetriesAdmitted, MultiPerform, MultiPoll, MessagesRead,
   LeaveRun, Tick, vars, ownerVars, queueVars, threadVars, curlVars, retryVars,
   callVars, requestVars

\* A call that is over stays over, unless it is a new one.
LEMMA OverStays ==
  ASSUME TypeOK, [Next]_vars, NEW c \in Calls, Over(c)
  PROVE  Over(c)' \/ Issue(c)
<1>. USE DEF ownerVars, queueVars, threadVars, curlVars, retryVars, callVars,
     requestVars
<1>1. ASSUME caller'[c] = caller[c], notified[c] \subseteq notified'[c] PROVE Over(c)'
  BY <1>1 DEF Over
<1>2. ASSUME NEW d \in Calls, CallerNext(d), d # c PROVE Over(c)'
  BY <1>1, <1>2 DEF CallerNext, Issue, SubmitPush, WakeupTest, WakeupCall, Await, TypeOK
<1>3. ASSUME CallerNext(c) PROVE Issue(c)
  BY <1>3 DEF CallerNext, SubmitPush, WakeupTest, WakeupCall, Await, Over
<1>4. CASE NotifyListener
  <2>1. caller' = caller /\ notified \in [Calls -> SUBSET Calls]
    BY <1>4 DEF NotifyListener, TypeOK
  <2>2. PICK l : notified' = notified \/ notified' = [notified EXCEPT ![l] = @ \cup {cur}]
    BY <1>4 DEF NotifyListener
  <2>3. notified[c] \subseteq notified'[c]
    BY <2>1, <2>2
  <2>. QED
    BY <1>1, <2>1, <2>3
<1>5. CASE OnCompleteReturns \/ DrainQueue
           \/ \E d \in Calls : AdmitDueRetry(d) \/ ScheduleRetry(d) \/ DeliverResult(d)
  <2>1. caller' = caller /\ notified' = notified
    BY <1>5 DEF OnCompleteReturns, DrainQueue, AdmitDueRetry, ScheduleRetry, DeliverResult
  <2>. QED
    BY <1>1, <2>1
<1>6. CASE QuietStep
  BY <1>1, <1>6, QuietKeeps
<1>. QED
  BY <1>2, <1>3, <1>4, <1>5, <1>6 DEF Next, RunNext, QuietStep

\* What PrepareContext does to the answers and to the call in hand.
LEMMA PreparedAnswer ==
  ASSUME NEW c \in Calls, NEW next, PrepareContext(c, next)
  PROVE  \/ answers' = [answers EXCEPT ![c] = @ + 1] /\ cur' = c /\ sent' = sent
         \/ answers' = answers /\ cur' = cur
BY DEF PrepareContext, EasyFails, EasyAdded

\* DeliverResult and the failure path of PrepareContext: call c is answered,
\* and is then the one in hand.
Answers(c) ==
  /\ answers' = [answers EXCEPT ![c] = @ + 1]
  /\ InClient(c) /\ cur' = c /\ caller' = caller
  /\ notified' = notified /\ attempts' = attempts /\ sent' = sent
  /\ WentOut(c) => response' = [response EXCEPT ![RequestOf[c]] = c]

\* Any other step of the client's thread leaves the call in hand as it is or
\* puts it down, and while there is one moves nothing but the listeners.
Handles(c) ==
  /\ answers' = answers
  /\ cur' = cur \/ cur' = None
  /\ cur # None => UNCHANGED <<caller, attempts, sent, response>>

\* Run answers one call at a time or none.
LEMMA RunAnswers ==
  ASSUME IInv, RunNext
  PROVE  (\E c \in Calls : Answers(c)) \/ Handles(cur)
<1>. USE DEF ownerVars, queueVars, threadVars, curlVars, retryVars, callVars,
     requestVars
<1>0. TypeOK /\ messages \subseteq handles /\ \A d \in Calls : CallInv(d)
  BY DEF IInv
<1>1. ASSUME NEW c \in Calls, NEW next, PrepareContext(c, next), cur = None,
             Queued(c) \/ c \in retryQueue,
             caller' = caller, notified' = notified, attempts' = attempts
      PROVE  Answers(c) \/ Handles(cur)
  <2>1. attempts[c] = sent[c] + 1 /\ sent[c] \in Nat
    BY <1>0, <1>1 DEF CallInv, TypeOK
  <2>2. ~WentOut(c) /\ InClient(c)
    BY <1>1, <2>1 DEF WentOut, InClient
  <2>. QED
    BY <1>1, <2>2, PreparedAnswer DEF Answers, Handles
<1>2. CASE DrainQueue
  <2>1. Head(inQueue) \in Calls /\ Queued(Head(inQueue)) /\ cur = None
    BY <1>0, <1>2 DEF DrainQueue, TypeOK, Queued, Among
  <2>. QED
    BY <1>1, <1>2, <2>1 DEF DrainQueue
<1>3. ASSUME NEW c \in Calls, AdmitDueRetry(c) PROVE Answers(c) \/ Handles(cur)
  BY <1>0, <1>1, <1>3 DEF AdmitDueRetry, Due, TypeOK
<1>4. ASSUME NEW c \in Calls, DeliverResult(c) PROVE Answers(c)
  <2>1. c \in handles
    BY <1>0, <1>4 DEF DeliverResult, MessageRead
  <2>. QED
    BY <1>4, <2>1 DEF DeliverResult, Answers, InClient
<1>5. ASSUME NEW c \in Calls, ScheduleRetry(c) PROVE Handles(cur)
  BY <1>0, <1>5 DEF ScheduleRetry, MessageRead, Handles, TypeOK
<1>6. CASE NotifyListener \/ OnCompleteReturns
  BY <1>6 DEF NotifyListener, OnCompleteReturns, Handles
<1>7. CASE QuietStep
  BY <1>7, QuietKeeps DEF Handles
<1>. QED
  BY <1>2, <1>3, <1>4, <1>5, <1>6, <1>7 DEF RunNext, QuietStep

\* An answer is never taken back.
LEMMA AnswersGrow ==
  ASSUME IInv, [Next]_vars, NEW c \in Calls, answers[c] > 0
  PROVE  answers'[c] > 0
<1>0. answers \in [Calls -> Nat]
  BY DEF IInv, TypeOK
<1>1. CASE RunNext
  BY <1>0, <1>1, RunAnswers DEF Answers, Handles
<1>2. ASSUME NEW d \in Calls, CallerNext(d) PROVE answers' = answers
  BY <1>2 DEF CallerNext, Issue, SubmitPush, WakeupTest, WakeupCall, Await
<1>3. CASE QuietStep
  BY <1>3, QuietKeeps
<1>. QED
  BY <1>1, <1>2, <1>3 DEF Next, QuietStep

\* RequestInv is inductive, given where the envelopes are.
LEMMA RequestStep ==
  ASSUME IInv, RequestInv, [Next]_vars
  PROVE  RequestInv'
<1>. USE CallsAssumption DEF ownerVars, queueVars, threadVars, curlVars, retryVars,
     callVars, requestVars
<1>0. /\ TypeOK /\ \A d \in Calls : CallInv(d)
      /\ OneUnderWay /\ ReturnedAnswered /\ NotifiedAnswered /\ CurrentAnswered
  BY DEF IInv, RequestInv
<1>1. ASSUME NEW c \in Calls, Over(c), Accepted(c) PROVE answers[c] > 0
  BY <1>0, <1>1 DEF Over, Accepted, ReturnedAnswered, NotifiedAnswered
<1>2. OneUnderWay'
  <2>. SUFFICES ASSUME NEW c \in Calls, NEW d \in Calls, c # d,
                       RequestOf[c] = RequestOf[d], Over(c)
                PROVE  Over(c)' \/ Over(d)'
    BY <1>0 DEF OneUnderWay
  <2>1. CASE Issue(c)
    <3>1. Over(d) /\ caller'[d] = caller[d] /\ notified' = notified
      BY <1>0, <2>1 DEF Issue, TypeOK
    <3>. QED
      BY <3>1 DEF Over
  <2>. QED
    BY <1>0, <2>1, OverStays
<1>3. ReturnedAnswered'
  <2>. SUFFICES ASSUME NEW c \in Blocking, caller'[c] = "returned"
                PROVE  answers'[c] > 0
    BY DEF ReturnedAnswered
  <2>1. CASE caller[c] = "returned"
    BY <1>0, <2>1, AnswersGrow DEF ReturnedAnswered
  <2>2. CASE caller[c] # "returned"
    <3>1. ASSUME NEW d \in Calls, CallerNext(d) PROVE Await(c)
      <4>1. d = c
        BY <1>0, <2>2, <3>1 DEF CallerNext, Issue, SubmitPush, WakeupTest, WakeupCall,
           Await, TypeOK
      <4>. QED
        BY <1>0, <2>2, <3>1, <4>1 DEF CallerNext, Issue, SubmitPush, WakeupTest,
           WakeupCall, Submitted, TypeOK
    <3>2. ~(caller' = caller)
      BY <2>2
    <3>3. ~QuietStep /\ ~RunNext
      BY <3>2, QuietKeeps DEF RunNext, QuietStep, DrainQueue, AdmitDueRetry,
         ScheduleRetry, DeliverResult, NotifyListener, OnCompleteReturns
    <3>4. Await(c)
      BY <3>1, <3>3 DEF Next, QuietStep
    <3>. QED
      BY <3>4 DEF Await
  <2>. QED
    BY <2>1, <2>2
<1>4. NotifiedAnswered'
  <2>. SUFFICES ASSUME NEW c \in Calls, NEW d \in Calls, d \in notified'[c]
                PROVE  answers'[d] > 0
    BY DEF NotifiedAnswered
  <2>1. CASE d \in notified[c]
    BY <1>0, <2>1, AnswersGrow DEF NotifiedAnswered
  <2>2. CASE d \notin notified[c]
    <3>1. notified' # notified
      BY <2>2
    <3>2. NotifyListener
      BY <3>1, QuietKeeps DEF Next, CallerNext, Issue, SubmitPush, WakeupTest,
         WakeupCall, Await, RunNext, DrainQueue, AdmitDueRetry, ScheduleRetry,
         DeliverResult, OnCompleteReturns, QuietStep
    <3>3. d = cur /\ answers' = answers
      <4>1. PICK l : notified' = [notified EXCEPT ![l] = @ \cup {cur}]
        BY <3>1, <3>2 DEF NotifyListener
      <4>. QED
        BY <1>0, <2>2, <3>2, <4>1 DEF NotifyListener, TypeOK
    <3>. QED
      BY <1>0, <3>3 DEF CurrentAnswered
  <2>. QED
    BY <2>1, <2>2
<1>5. CurrentAnswered'
  <2>. SUFFICES ASSUME cur' # None
                PROVE  /\ answers'[cur'] > 0
                       /\ \A d \in Calls \ {cur'} :
                            RequestOf[d] = RequestOf[cur'] => Over(d)' \/ answers'[d] = 0
                       /\ WentOut(cur)' => response'[RequestOf[cur']] = cur'
    BY DEF CurrentAnswered
  <2>1. ASSUME NEW c \in Calls, Answers(c)
        PROVE  /\ answers'[c] > 0
               /\ \A d \in Calls \ {c} :
                    RequestOf[d] = RequestOf[c] => Over(d)' \/ answers'[d] = 0
               /\ attempts'[c] = sent'[c] => response'[RequestOf[c]] = c
    <3>1. answers[c] = 0 /\ Accepted(c) /\ answers \in [Calls -> Nat]
      BY <1>0, <2>1 DEF Answers, CallInv, TypeOK
    <3>2. ~Over(c)
      BY <1>1, <3>1
    <3>3. \A d \in Calls \ {c} : RequestOf[d] = RequestOf[c] => Over(d)'
      BY <1>0, <2>1, <3>2 DEF OneUnderWay, Over, Answers
    <3>4. WentOut(c) => response' = [response EXCEPT ![RequestOf[c]] = c]
      BY <2>1 DEF Answers
    <3>5. response \in [Requests -> Calls \cup {None}] /\ RequestOf[c] \in Requests
      BY <1>0 DEF TypeOK
    <3>6. WentOut(c) => response'[RequestOf[c]] = c
      BY <3>4, <3>5
    <3>7. attempts' = attempts /\ sent' = sent /\ answers'[c] > 0
      BY <2>1, <3>1 DEF Answers
    <3>. QED
      BY <3>3, <3>6, <3>7 DEF WentOut
  <2>2. ASSUME answers' = answers, cur' = cur,
               WentOut(cur)' /\ WentOut(cur) => response'[RequestOf[cur]] = response[RequestOf[cur]],
               WentOut(cur)' => WentOut(cur)
        PROVE  /\ answers'[cur'] > 0
               /\ \A d \in Calls \ {cur'} :
                    RequestOf[d] = RequestOf[cur'] => Over(d)' \/ answers'[d] = 0
               /\ WentOut(cur)' => response'[RequestOf[cur']] = cur'
    <3>1. ASSUME NEW d \in Calls \ {cur}, RequestOf[d] = RequestOf[cur], answers[d] # 0
          PROVE  Over(d)'
      <4>1. Over(d) /\ Accepted(d)
        BY <1>0, <2>2, <3>1 DEF CurrentAnswered, CallInv
      <4>2. ~Issue(d)
        BY <4>1 DEF Issue, Accepted
      <4>. QED
        BY <1>0, <4>1, <4>2, OverStays
    <3>. QED
      BY <1>0, <2>2, <3>1 DEF CurrentAnswered
  <2>3. ASSUME NEW c \in Calls, CallerNext(c)
        PROVE  /\ answers' = answers /\ cur' = cur
               /\ WentOut(cur)' /\ WentOut(cur) => response'[RequestOf[cur]] = response[RequestOf[cur]]
               /\ WentOut(cur)' => WentOut(cur)
    <3>1. answers' = answers /\ cur' = cur /\ sent' = sent
      BY <2>3 DEF CallerNext, Issue, SubmitPush, WakeupTest, WakeupCall, Await
    <3>2. cur \in Calls /\ answers[cur] > 0 /\ Accepted(cur)
      <4>1. cur \in Calls /\ answers[cur] > 0
        BY <1>0, <3>1 DEF CurrentAnswered, TypeOK
      <4>. QED
        BY <1>0, <4>1 DEF CallInv
    <3>3. attempts'[cur] = attempts[cur]
      BY <1>0, <2>3, <3>2 DEF CallerNext, Issue, SubmitPush, WakeupTest, WakeupCall,
         Await, Accepted, TypeOK
    <3>4. WentOut(cur)' => WentOut(cur)
      BY <3>1, <3>3 DEF WentOut
    <3>5. WentOut(cur) => response'[RequestOf[cur]] = response[RequestOf[cur]]
      <4>1. CASE ~Await(c)
        BY <2>3, <4>1 DEF CallerNext, Issue, SubmitPush, WakeupTest, WakeupCall
      <4>2. CASE Await(c) /\ c = cur
        BY <1>0, <3>2, <4>2 DEF Await, CurrentAnswered, TypeOK
      <4>3. CASE Await(c) /\ c # cur
        <5>1. caller[c] = "await" /\ answers[c] > 0
              /\ response' = [response EXCEPT ![RequestOf[c]] = c]
          BY <4>3 DEF Await
        <5>2. ~Over(c)
          BY <5>1 DEF Over
        <5>3. RequestOf[c] # RequestOf[cur]
          BY <1>0, <3>2, <4>3, <5>1, <5>2 DEF CurrentAnswered
        <5>. QED
          BY <1>0, <3>2, <5>1, <5>3 DEF TypeOK
      <4>. QED
        BY <4>1, <4>2, <4>3
    <3>. QED
      BY <3>1, <3>4, <3>5
  <2>4. CASE \E c \in Calls : Answers(c)
    <3>1. PICK c \in Calls : Answers(c)
      BY <2>4
    <3>2. cur' = c
      BY <3>1 DEF Answers
    <3>. QED
      BY <2>1, <3>1, <3>2 DEF WentOut
  <2>5. CASE Handles(cur)
    <3>1. answers' = answers /\ cur' = cur /\ UNCHANGED <<attempts, sent, response>>
      BY <2>5 DEF Handles
    <3>. QED
      BY <2>2, <3>1 DEF WentOut
  <2>6. CASE QuietStep
    <3>1. UNCHANGED <<cur, answers, attempts, sent, response>>
      BY <2>6, QuietKeeps
    <3>. QED
      BY <2>2, <3>1 DEF WentOut
  <2>7. CASE \E c \in Calls : CallerNext(c)
    BY <2>2, <2>3, <2>7
  <2>. QED
    BY <2>4, <2>5, <2>6, <2>7, RunAnswers DEF Next, QuietStep
<1>. QED
  BY <1>2, <1>3, <1>4, <1>5 DEF RequestInv

\* A listener that reads request.Response() reads the response it was called
\* about: Send, which stores it once more when it wakes up, cannot overwrite it
\* with another's.
THEOREM ResponseCorrect == Spec => []ResponseIsCurrent
<1>1. Init => RequestInv
  <2>. SUFFICES ASSUME Init PROVE RequestInv
    OBVIOUS
  <2>1. \A c \in Calls : Over(c) /\ caller[c] = "idle" /\ notified[c] = {}
    BY DEF Init, Over
  <2>. QED
    BY <2>1, CallsAssumption DEF Init, RequestInv, OneUnderWay, ReturnedAnswered,
       NotifiedAnswered, CurrentAnswered
<1>2. IInv /\ RequestInv /\ [Next]_vars => RequestInv'
  BY RequestStep
<1>3. IInv /\ RequestInv => ResponseIsCurrent
  BY DEF IInv, TypeOK, RequestInv, CurrentAnswered, ResponseIsCurrent
<1>. QED
  BY <1>1, <1>2, <1>3, Invariance, PTL DEF Spec

\* What Shutdown leaves behind: a client that can be started again has no
\* transfer on the stack, neither before its first start nor after MultiCleanup.
FreedInv ==
  /\ multi = "freed" => handles = {}
  /\ pc = "off" => handles = {}
  /\ pc = "stopped" /\ owner = "idle" => multi = "freed"
  /\ pc \notin {"off", "stopped"} /\ ~running => owner # "idle"

\* PrepareContext adds to the stack only while there is one, and stays inside
\* the loop of Run.
LEMMA PreparedFreed ==
  ASSUME NEW c \in Calls, NEW next \in {"drain", "admit"}, FreedInv,
         PrepareContext(c, next), pc = next,
         UNCHANGED <<owner, running, multi>>
  PROVE  FreedInv'
BY DEF PrepareContext, EasyFails, EasyAdded, FreedInv

\* FreedInv is inductive, given the order Shutdown does things in.
LEMMA FreedStep ==
  ASSUME TypeOK, LifeInv, FreedInv, [Next]_vars
  PROVE  FreedInv'
<1>. USE DEF ownerVars, queueVars, threadVars, curlVars, retryVars, callVars,
     requestVars
<1>1. CASE Start \/ Shutdown \/ CloseQueue \/ ThreadWait \/ MultiCleanup
  BY <1>1 DEF Start, Shutdown, CloseQueue, ThreadWait, MultiCleanup, FreedInv, LifeInv
<1>2. CASE DrainQueue
  <2>1. Head(inQueue) \in Calls
    BY <1>2 DEF DrainQueue, TypeOK
  <2>. QED
    BY <1>2, <2>1, PreparedFreed DEF DrainQueue
<1>3. ASSUME NEW c \in Calls, AdmitDueRetry(c) PROVE FreedInv'
  BY <1>3, PreparedFreed DEF AdmitDueRetry
<1>4. ASSUME NEW c \in Calls, ScheduleRetry(c) \/ DeliverResult(c) PROVE FreedInv'
  BY <1>4 DEF ScheduleRetry, DeliverResult, MessageRead, FreedInv
<1>5. CASE WhileRunning \/ QueueDrained \/ RetriesAdmitted \/ MultiPerform
           \/ MultiPoll \/ MessagesRead \/ NotifyListener \/ OnCompleteReturns
           \/ LeaveRun
  <2>1. UNCHANGED <<owner, running, multi, handles>>
    BY <1>5 DEF WhileRunning, QueueDrained, RetriesAdmitted, MultiPerform, MultiPoll,
       MessagesRead, NotifyListener, OnCompleteReturns, LeaveRun
  <2>2. /\ pc' # "off" /\ pc \notin {"off", "stopped"}
        /\ pc' = "stopped" => pc = "leave"
    BY <1>5 DEF WhileRunning, QueueDrained, RetriesAdmitted, MultiPerform, MultiPoll,
       MessagesRead, NotifyListener, OnCompleteReturns, LeaveRun, TypeOK
  <2>. QED
    BY <2>1, <2>2 DEF FreedInv, LifeInv
<1>6. CASE Tick \/ UNCHANGED vars \/ \E c \in Calls : CallerNext(c)
  <2>1. UNCHANGED <<owner, running, multi, handles, pc>>
    BY <1>6 DEF Tick, vars, CallerNext, Issue, SubmitPush, WakeupTest, WakeupCall, Await
  <2>. QED
    BY <2>1 DEF FreedInv
<1>. QED
  BY <1>1, <1>2, <1>3, <1>4, <1>5, <1>6 DEF Next, RunNext, ShutdownNext

\* The transfer of the call is still to come, or under way.
ToRead(c) ==
  \/ ~Accepted(c) \/ Queued(c) \/ c \in retryQueue
  \/ c \in handles \ messages /\ pc # "stopped"

BodyInv == \A c \in Calls : ReadsBody(c) /\ ToRead(c) => FromStart(c)

\* ScheduleRetry repeats a call that reads a body only when it rewinds it.
LEMMA RetryRewinds ==
  ASSUME TypeOK, NEW c \in Calls, ReadsBody(c), ScheduleRetry(c)
  PROVE  body'[RequestOf[c]] = "start"
<1>. DEFINE req == RequestFor(c)
<1>1. RequestOf[c] \in Requests /\ req.content \in Contents
  BY CallsAssumption, ConfigAssumption DEF RequestFor
<1>2. HasContent(req) /\ req.method \notin {"Get", "Head", "Delete"}
  BY DEF ReadsBody
<1>3. req.content.canReplay
  BY <1>2 DEF ScheduleRetry, Retries, RetriesAfter, IsReplaySafe
<1>4. req.content.rewinds
  BY <1>1, <1>3 DEF Contents, NoContent, MemoryContent, SeekableStreamContent,
     PipeStreamContent, PlainContent
<1>. QED
  BY <1>1, <1>2, <1>4 DEF ScheduleRetry, ReplayedBody, TypeOK

\* A step that takes nothing back and leaves the body where it was, or at its
\* start, keeps what is known of a call.
LEMMA StaysFromStart ==
  ASSUME NEW c \in Calls, FromStart(c),
         \A d \in Calls : sent[d] > 0 => sent'[d] > 0,
         body'[RequestOf[c]] \in {body[RequestOf[c]], "start"}
  PROVE  FromStart(c)'
BY DEF FromStart, SentBefore

\* BodyInv is inductive, given where the envelopes are.
LEMMA BodyStep ==
  ASSUME IInv, LifeInv, FreedInv, BodyInv, [Next]_vars
  PROVE  BodyInv'
<1>. USE DEF ownerVars, queueVars, threadVars, curlVars, retryVars, callVars,
     requestVars
<1>. SUFFICES ASSUME NEW c \in Calls, ReadsBody(c), ToRead(c)'
              PROVE  FromStart(c)'
  BY DEF BodyInv, ReadsBody, HasContent, RequestFor
<1>0. TypeOK /\ messages \subseteq handles /\ \A d \in Calls : CallInv(d)
  BY DEF IInv
<1>1. \A d \in Calls : sent[d] > 0 => sent'[d] > 0
  <2>1. ASSUME NEW d \in Calls, NEW next, PrepareContext(d, next)
        PROVE  sent' = sent \/ sent' = [sent EXCEPT ![d] = @ + 1]
    BY <2>1 DEF PrepareContext, EasyFails, EasyAdded
  <2>2. sent' = sent \/ \E d \in Calls : sent' = [sent EXCEPT ![d] = @ + 1]
    <3>1. CASE DrainQueue
      <4>1. Head(inQueue) \in Calls
        BY <1>0, <3>1 DEF DrainQueue, TypeOK
      <4>2. PrepareContext(Head(inQueue), "drain")
        BY <3>1 DEF DrainQueue
      <4>. QED
        BY <2>1, <4>1, <4>2
    <3>2. ASSUME NEW d \in Calls, AdmitDueRetry(d)
          PROVE  sent' = sent \/ sent' = [sent EXCEPT ![d] = @ + 1]
      BY <2>1, <3>2 DEF AdmitDueRetry
    <3>. QED
      BY <3>1, <3>2, QuietKeeps DEF Next, RunNext, QuietStep, CallerNext, Issue,
         SubmitPush, WakeupTest, WakeupCall, Await, ScheduleRetry, DeliverResult,
         NotifyListener, OnCompleteReturns
  <2>. SUFFICES ASSUME NEW d \in Calls, sent[d] > 0 PROVE sent'[d] > 0
    OBVIOUS
  <2>3. sent \in [Calls -> Nat]
    BY <1>0 DEF TypeOK
  <2>4. ASSUME NEW e \in Calls, sent' = [sent EXCEPT ![e] = @ + 1] PROVE sent'[d] > 0
    BY <2>3, <2>4
  <2>. QED
    BY <2>2, <2>4
<1>2. ASSUME ToRead(c), body' = body PROVE FromStart(c)'
  BY <1>1, <1>2, StaysFromStart DEF BodyInv
<1>3. ASSUME NEW d \in Calls, CallerNext(d) PROVE FromStart(c)'
  <2>1. body' = body /\ UNCHANGED <<retryQueue, handles, messages, pc>>
    BY <1>3 DEF CallerNext, Issue, SubmitPush, WakeupTest, WakeupCall, Await
  <2>2. Accepted(c) => Accepted(c)' /\ (Queued(c)' => Queued(c))
    <3>1. ASSUME Accepted(c) PROVE Accepted(c)'
      BY <1>0, <1>3, <3>1 DEF CallerNext, Issue, SubmitPush, WakeupTest, WakeupCall,
         Await, Submitted, Accepted, TypeOK
    <3>2. ASSUME Accepted(c), Queued(c)' PROVE Queued(c)
      <4>1. CASE inQueue' = inQueue
        BY <3>2, <4>1 DEF Queued
      <4>2. CASE inQueue' = Append(inQueue, d) /\ caller[d] = "push"
        <5>1. c # d
          BY <3>2, <4>2 DEF Accepted
        <5>2. Among(inQueue', c) <=> Among(inQueue, c) \/ c = d
          BY <1>0, <4>2, AmongAppend DEF TypeOK
        <5>. QED
          BY <3>2, <5>1, <5>2 DEF Queued
      <4>. QED
        BY <1>3, <4>1, <4>2 DEF CallerNext, Issue, SubmitPush, WakeupTest, WakeupCall,
           Await
    <3>. QED
      BY <3>1, <3>2
  <2>. QED
    BY <1>2, <2>1, <2>2 DEF ToRead
<1>4. CASE Start
  <2>1. handles = {} /\ body' = body
    BY <1>4 DEF Start, FreedInv
  <2>. QED
    BY <1>2, <1>4, <2>1 DEF Start, ToRead, Accepted, Queued
<1>5. CASE Shutdown \/ ShutdownNext
  BY <1>2, <1>5 DEF Shutdown, ShutdownNext, CloseQueue, ThreadWait, MultiCleanup,
     ToRead, Accepted, Queued
<1>6. CASE LeaveRun
  BY <1>2, <1>6 DEF LeaveRun, ToRead, Accepted, Queued
<1>7. ASSUME NEW d \in Calls, NEW next \in {"drain", "admit"}, PrepareContext(d, next),
             ToRead(d), pc = next, UNCHANGED <<caller, messages, body>>,
             Queued(c)' => Queued(c), retryQueue' \subseteq retryQueue
      PROVE  FromStart(c)'
  <2>1. handles' \subseteq handles \cup {d} /\ pc # "stopped"
    BY <1>7 DEF PrepareContext, EasyFails, EasyAdded
  <2>2. ToRead(c)
    BY <1>7, <2>1 DEF ToRead, Accepted
  <2>. QED
    BY <1>2, <1>7, <2>2
<1>8. CASE DrainQueue
  <2>. DEFINE d == Head(inQueue)
  <2>1. d \in Calls /\ inQueue \in Seq(Calls) /\ inQueue # <<>> /\ inQueue' = Tail(inQueue)
    BY <1>0, <1>8 DEF DrainQueue, TypeOK
  <2>2. OnceIn(inQueue, d) /\ OnceIn(inQueue, c)
    BY <1>0, <2>1 DEF CallInv
  <2>3. ToRead(d) /\ (Queued(c)' => Queued(c))
    BY <2>1, <2>2, AmongTail DEF ToRead, Queued
  <2>. QED
    BY <1>7, <1>8, <2>1, <2>3 DEF DrainQueue
<1>9. ASSUME NEW d \in Calls, AdmitDueRetry(d) PROVE FromStart(c)'
  BY <1>7, <1>9 DEF AdmitDueRetry, Due, ToRead, Queued
<1>10. CASE MultiPerform
  <2>1. PICK done \in SUBSET (handles \ messages) :
          /\ messages' = messages \cup done
          /\ body' = [r \in Requests |->
                        IF \E d \in done : RequestOf[d] = r /\ ReadsBody(d)
                        THEN "read" ELSE body[r]]
    BY <1>10 DEF MultiPerform
  <2>2. ToRead(c) /\ c \notin done
    BY <1>0, <1>10, <2>1 DEF MultiPerform, ToRead, Accepted, Queued, CallInv, InClient
  <2>3. RequestOf[c] \in Requests
    BY CallsAssumption
  <2>4. CASE \E d \in done : RequestOf[d] = RequestOf[c]
    <3>1. PICK d \in done : RequestOf[d] = RequestOf[c]
      BY <2>4
    <3>2. d \in Calls \ {c} /\ d \in handles
      BY <1>0, <2>1, <2>2, <3>1 DEF TypeOK
    <3>3. sent[d] > 0
      BY <1>0, <3>2 DEF CallInv, TypeOK
    <3>. QED
      BY <1>1, <3>1, <3>2, <3>3 DEF FromStart, SentBefore
  <2>5. CASE ~\E d \in done : RequestOf[d] = RequestOf[c]
    <3>1. body'[RequestOf[c]] = body[RequestOf[c]]
      BY <2>1, <2>3, <2>5
    <3>. QED
      BY <1>1, <2>2, <3>1, StaysFromStart DEF BodyInv
  <2>. QED
    BY <2>4, <2>5
<1>11. ASSUME NEW d \in Calls, ScheduleRetry(d) PROVE FromStart(c)'
  <2>1. CASE d = c
    BY <1>0, <1>11, <2>1, RetryRewinds DEF FromStart
  <2>2. CASE d # c
    <3>1. ToRead(c)
      BY <1>11, <2>2 DEF ScheduleRetry, MessageRead, ToRead, Accepted, Queued
    <3>2. body'[RequestOf[c]] \in {body[RequestOf[c]], "start"}
      <4>1. body' = [body EXCEPT ![RequestOf[d]] = ReplayedBody(RequestFor(d), @)]
        BY <1>11 DEF ScheduleRetry
      <4>. QED
        BY <1>0, <4>1, CallsAssumption DEF ReplayedBody, TypeOK
    <3>. QED
      BY <1>1, <3>1, <3>2, StaysFromStart DEF BodyInv
  <2>. QED
    BY <2>1, <2>2
<1>12. ASSUME NEW d \in Calls, DeliverResult(d) PROVE FromStart(c)'
  BY <1>2, <1>12 DEF DeliverResult, MessageRead, ToRead, Accepted, Queued
<1>13. CASE WhileRunning \/ QueueDrained \/ RetriesAdmitted \/ MultiPoll
            \/ MessagesRead \/ NotifyListener \/ OnCompleteReturns
  <2>1. UNCHANGED <<caller, inQueue, retryQueue, handles, messages, body>>
    BY <1>13 DEF WhileRunning, QueueDrained, RetriesAdmitted, MultiPoll, MessagesRead,
       NotifyListener, OnCompleteReturns
  <2>2. pc # "stopped"
    BY <1>0, <1>13 DEF WhileRunning, QueueDrained, RetriesAdmitted, MultiPoll,
       MessagesRead, NotifyListener, OnCompleteReturns
  <2>. QED
    BY <1>2, <2>1, <2>2 DEF ToRead, Accepted, Queued
<1>14. CASE Tick \/ UNCHANGED vars
  BY <1>2, <1>14 DEF Tick, vars, ToRead, Accepted, Queued
<1>. QED
  BY <1>3, <1>4, <1>5, <1>6, <1>8, <1>9, <1>10, <1>11, <1>12, <1>13, <1>14
     DEF Next, RunNext

\* No attempt of a call begins in the middle of its body, the repeated ones
\* included, unless the application has sent the same request object before:
\* what ScheduleRetry lets through, ReplayedBody rewinds.
THEOREM BodyCorrect == Spec => []BodyFromStart
<1>1. Init => FreedInv /\ BodyInv
  BY CallsAssumption DEF Init, FreedInv, BodyInv, FromStart
<1>2. TypeOK /\ LifeInv /\ FreedInv /\ [Next]_vars => FreedInv'
  BY FreedStep
<1>3. IInv /\ LifeInv /\ FreedInv /\ BodyInv /\ [Next]_vars => BodyInv'
  BY BodyStep
<1>4. IInv /\ BodyInv => BodyFromStart
  BY DEF IInv, TypeOK, BodyInv, ToRead, BodyFromStart
<1>. QED
  BY <1>1, <1>2, <1>3, <1>4, TypeCorrect, Invariance, LifeInvariance, PTL DEF Spec
=============================================================================
