----------------------------- MODULE HttpClient -----------------------------
(***************************************************************************)
(* THttpClient of http.bmx: the threads that call Send and SendAsync, the  *)
(* client's own thread (Run), the thread that starts and shuts the client  *)
(* down, and what they share: the submission queue, the curl multi handle, *)
(* the retry queue, and the fields of the request objects.                 *)
(*                                                                         *)
(* A member of Calls is one call of Send or SendAsync, and with it the     *)
(* envelope Submit creates; several calls may use the same request object, *)
(* one after the other.  A call in FromListener is made by a completion    *)
(* listener, which runs on the client's thread.                            *)
(*                                                                         *)
(* libcurl is external: handles is the multi stack, messages the transfers *)
(* whose completion curl has still to report.                              *)
(***************************************************************************)
EXTENDS Naturals, Sequences, FiniteSets, RetryPolicy

CONSTANTS Calls, Blocking, FromListener, Requests,
          RequestOf,   \* the request object of a call
          Config,      \* how a request object is configured
          Replies,     \* how a transfer may end
          MayShutdown, \* whether the application ever calls Shutdown
          MaxStarts,   \* how often it calls Start
          EasyMayFail, \* whether curl_easy_init may return Null
          None

ASSUME CallsAssumption ==
  /\ Blocking \subseteq Calls
  /\ FromListener \subseteq Calls
  /\ RequestOf \in [Calls -> Requests]
  /\ None \notin Calls

ASSUME ConfigAssumption ==
  \A r \in Requests :
    /\ Config[r].method \in EHttpMethod
    /\ Config[r].content \in Contents
    /\ Config[r].sink \in {"memory", "stream"}
    /\ Config[r].policy.maxAttempts \in Nat
    /\ Config[r].policy.backoffFactor \in Nat
    /\ Config[r].policy.maxBackoff \in Nat

ASSUME RepliesAssumption ==
  \A res \in Replies : res.curlCode \in Int /\ res.status \in Nat /\ res.retryAfter \in Nat

ASSUME BoundsAssumption ==
  MaxStarts \in Nat /\ MayShutdown \in BOOLEAN /\ EasyMayFail \in BOOLEAN

VARIABLES
  owner,     \* the thread that calls Start and Shutdown
  starts,    \* how often it has called Start
  running,   \* _running
  multi,     \* whether _multi.multiHandlePtr is set
  inQueue,   \* _inQueue._q
  closed,    \* _inQueue._closed
  wakeup,    \* a wake-up that multiPoll has not seen yet
  pc,        \* where the client's thread is in Run
  cur,       \* the call it is answering
  resume,    \* where it goes on after the listener
  handles,   \* the calls whose easy handle is on the multi stack
  messages,  \* those whose completion message has not been read
  reply,     \* how their transfer ended
  retryQueue, \* _retryQueue
  attempts,  \* env.retry.attempts
  delay,     \* env.retry.nextAtMS - now, when it lies ahead
  sent,      \* how often a handle was put on the multi stack for the call
  answers,   \* how many results were made for it (a waiter's _done: answers > 0)
  caller,    \* where the thread that makes the call is
  listener,  \* request._listener, named by the call that set it
  response,  \* request._response, named by the call it answers
  body,      \* where the request's content stands
  notified   \* the results each listener was given

ownerVars   == <<owner, starts, running, multi>>
queueVars   == <<inQueue, closed, wakeup>>
threadVars  == <<pc, cur, resume>>
curlVars    == <<handles, messages, reply>>
retryVars   == <<retryQueue, attempts, delay>>
callVars    == <<sent, answers, caller>>
requestVars == <<listener, response, body, notified>>

vars == <<ownerVars, queueVars, threadVars, curlVars, retryVars, callVars, requestVars>>

----------------------------------------------------------------------------
RequestFor(c) == Config[RequestOf[c]]

NoReply == [curlCode |-> 0, status |-> 0, retryAfter |-> 0]

\* The methods whose body PrepareContext hands to a read callback.
ReadsBody(c) ==
  HasContent(RequestFor(c)) /\ RequestFor(c).method \notin {"Get", "Head", "Delete"}

CallerStates ==
  {"idle", "push", "wake", "waking", "await", "returned", "refused"}

Accepted(c) == caller[c] \in {"wake", "waking", "await", "returned"}

\* A call its maker knows to be over: Send has returned or thrown, SendAsync
\* has thrown or its listener has been given the result.
Over(c) ==
  \/ caller[c] \in {"idle", "refused"}
  \/ c \in Blocking /\ caller[c] = "returned"
  \/ c \notin Blocking /\ caller[c] = "returned" /\ c \in notified[c]

InMidCall(c) == caller[c] \notin {"idle", "returned", "refused"}

\* The types; a call waits for its retry no longer than its policy's maxBackoffSec,
\* whatever the server asks for and however many attempts there were.
TypeOK ==
  /\ owner \in {"idle", "close", "join", "cleanup"}
  /\ starts \in 0 .. MaxStarts
  /\ running \in BOOLEAN
  /\ multi \in {"open", "freed"}
  /\ inQueue \in Seq(Calls)
  /\ closed \in BOOLEAN
  /\ wakeup \in BOOLEAN
  /\ pc \in {"off", "loop", "drain", "admit", "perform", "poll", "info",
             "notify", "callback", "leave", "stopped"}
  /\ cur \in Calls \cup {None}
  /\ cur # None <=> pc \in {"notify", "callback"}
  /\ resume \in {"drain", "admit", "info"}
  /\ handles \subseteq Calls
  /\ messages \subseteq Calls
  /\ reply \in [Calls -> Replies \cup {NoReply}]
  /\ retryQueue \subseteq Calls
  /\ attempts \in [Calls -> Nat]
  /\ delay \in [Calls -> Nat]
  /\ \A c \in Calls : delay[c] <= RequestFor(c).policy.maxBackoff
  /\ sent \in [Calls -> Nat]
  /\ answers \in [Calls -> Nat]
  /\ caller \in [Calls -> CallerStates]
  /\ listener \in [Requests -> Calls \cup {None}]
  /\ response \in [Requests -> Calls \cup {None}]
  /\ body \in [Requests -> {"start", "read"}]
  /\ notified \in [Calls -> SUBSET Calls]

Init ==
  /\ owner = "idle" /\ starts = 0 /\ running = FALSE /\ multi = "open"
  /\ inQueue = <<>> /\ closed = FALSE /\ wakeup = FALSE
  /\ pc = "off" /\ cur = None /\ resume = "info"
  /\ handles = {} /\ messages = {} /\ reply = [c \in Calls |-> NoReply]
  /\ retryQueue = {}
  /\ attempts = [c \in Calls |-> 0]
  /\ delay = [c \in Calls |-> 0]
  /\ sent = [c \in Calls |-> 0]
  /\ answers = [c \in Calls |-> 0]
  /\ caller = [c \in Calls |-> "idle"]
  /\ listener = [r \in Requests |-> None]
  /\ response = [r \in Requests |-> None]
  /\ body = [r \in Requests |-> "start"]
  /\ notified = [c \in Calls |-> {}]

----------------------------------------------------------------------------
(* The threads that send.                                                  *)

\* Send or SendAsync is entered.  Bound on the users: a request object is
\* sent again only when its earlier calls are over, and a listener makes its
\* own calls one at a time.
Issue(c) ==
  /\ caller[c] = "idle"
  /\ \A d \in Calls : RequestOf[d] = RequestOf[c] => Over(d)
  /\ c \in FromListener =>
       pc = "callback" /\ \A d \in FromListener : ~InMidCall(d)
  /\ caller' = [caller EXCEPT ![c] = "push"]
  /\ listener' = IF c \in Blocking THEN listener
                 ELSE [listener EXCEPT ![RequestOf[c]] = c]
  /\ UNCHANGED <<ownerVars, queueVars, threadVars, curlVars, retryVars,
                 sent, answers, response, body, notified>>

\* Submit up to _inQueue.Push, which throws when the queue is closed.
SubmitPush(c) ==
  /\ caller[c] = "push"
  /\ IF closed
     THEN /\ caller' = [caller EXCEPT ![c] = "refused"]
          /\ UNCHANGED <<inQueue, attempts>>
     ELSE /\ caller' = [caller EXCEPT ![c] = "wake"]
          /\ inQueue' = Append(inQueue, c)
          /\ attempts' = [attempts EXCEPT ![c] = 1]
  /\ UNCHANGED <<ownerVars, closed, wakeup, threadVars, curlVars,
                 retryQueue, delay, sent, answers, requestVars>>

Submitted(c) == IF c \in Blocking THEN "await" ELSE "returned"

\* multiWakeup, which Submit calls with no lock held: the test of
\* multiHandlePtr ...
WakeupTest(c) ==
  /\ caller[c] = "wake"
  /\ caller' = [caller EXCEPT ![c] = IF multi = "open" THEN "waking" ELSE Submitted(c)]
  /\ UNCHANGED <<ownerVars, queueVars, threadVars, curlVars, retryVars,
                 sent, answers, requestVars>>

\* Mutant: Submit forgets to wake the poll.
SilentWakeupCall(c) ==
  /\ caller[c] = "waking"
  /\ caller' = [caller EXCEPT ![c] = Submitted(c)]
  /\ UNCHANGED <<ownerVars, queueVars, threadVars, curlVars, retryVars,
                 sent, answers, requestVars>>

\* ... and the call of curl_multi_wakeup.
WakeupCall(c) ==
  /\ caller[c] = "waking"
  /\ caller' = [caller EXCEPT ![c] = Submitted(c)]
  /\ wakeup' = TRUE
  /\ UNCHANGED <<ownerVars, inQueue, closed, threadVars, curlVars, retryVars,
                 sent, answers, requestVars>>

\* TWaiter.Await returns and Send stores the response.
Await(c) ==
  /\ caller[c] = "await"
  /\ answers[c] > 0
  /\ caller' = [caller EXCEPT ![c] = "returned"]
  /\ response' = [response EXCEPT ![RequestOf[c]] = c]
  /\ UNCHANGED <<ownerVars, queueVars, threadVars, curlVars, retryVars,
                 sent, answers, listener, body, notified>>

CallerNext(c) ==
  Issue(c) \/ SubmitPush(c) \/ WakeupTest(c) \/ WakeupCall(c) \/ Await(c)

----------------------------------------------------------------------------
(* The thread that owns the client.                                        *)

\* Start.  The code has no guard; the owner starts a client that has no
\* thread, at most MaxStarts times.
Start ==
  /\ owner = "idle" /\ pc \in {"off", "stopped"} /\ starts < MaxStarts
  /\ running' = TRUE
  /\ starts' = starts + 1
  /\ pc' = "loop"
  /\ UNCHANGED <<owner, multi, queueVars, cur, resume, curlVars, retryVars,
                 callVars, requestVars>>

\* Mutant: the thread is not told to stop before it is waited for.
RunningNotCleared ==
  /\ owner = "idle" /\ MayShutdown /\ running
  /\ owner' = "close"
  /\ UNCHANGED <<starts, running, multi, queueVars, threadVars, curlVars,
                 retryVars, callVars, requestVars>>

\* Shutdown, one step for each thing other threads can see.
Shutdown ==
  /\ owner = "idle" /\ MayShutdown /\ running
  /\ running' = FALSE
  /\ owner' = "close"
  /\ UNCHANGED <<starts, multi, queueVars, threadVars, curlVars, retryVars,
                 callVars, requestVars>>

CloseQueue ==
  /\ owner = "close"
  /\ closed' = TRUE
  /\ owner' = "join"
  /\ UNCHANGED <<starts, running, multi, inQueue, wakeup, threadVars, curlVars,
                 retryVars, callVars, requestVars>>

\* Mutant: Shutdown frees the multi handle without waiting for the thread.
ThreadNotWaitedFor ==
  /\ owner = "join"
  /\ owner' = "cleanup"
  /\ UNCHANGED <<starts, running, multi, queueVars, threadVars, curlVars,
                 retryVars, callVars, requestVars>>

ThreadWait ==
  /\ owner = "join" /\ pc = "stopped"
  /\ owner' = "cleanup"
  /\ UNCHANGED <<starts, running, multi, queueVars, threadVars, curlVars,
                 retryVars, callVars, requestVars>>

MultiCleanup ==
  /\ owner = "cleanup"
  /\ owner' = "idle"
  /\ multi' = "freed"
  /\ handles' = {} /\ messages' = {}
  /\ UNCHANGED <<starts, running, queueVars, threadVars, reply, retryVars,
                 callVars, requestVars>>

ShutdownNext == CloseQueue \/ ThreadWait \/ MultiCleanup

----------------------------------------------------------------------------
(* The client's thread: Run.                                               *)

\* Mutant: the failure path goes on to add the handle.
EasyFailsYetAdded(c, next) ==
  /\ EasyMayFail
  /\ answers' = [answers EXCEPT ![c] = @ + 1]
  /\ handles' = IF multi = "open" THEN handles \cup {c} ELSE handles
  /\ pc' = "notify" /\ cur' = c /\ resume' = next
  /\ UNCHANGED sent

\* PrepareContext, going on at next.  curl_easy_init may fail: the waiter is
\* answered at once, the request keeps its old response.  Otherwise the new
\* handle goes on the multi stack, if there still is one.
EasyFails(c, next) ==
  /\ EasyMayFail
  /\ answers' = [answers EXCEPT ![c] = @ + 1]
  /\ pc' = "notify" /\ cur' = c /\ resume' = next
  /\ UNCHANGED <<handles, sent>>

EasyAdded(c, next) ==
  /\ IF multi = "open"
     THEN /\ handles' = handles \cup {c}
          /\ sent' = [sent EXCEPT ![c] = @ + 1]
     ELSE UNCHANGED <<handles, sent>>
  /\ pc' = next
  /\ UNCHANGED <<answers, cur, resume>>

PrepareContext(c, next) == EasyFails(c, next) \/ EasyAdded(c, next)

WhileRunning ==
  /\ pc = "loop"
  /\ pc' = IF running THEN "drain" ELSE "leave"
  /\ UNCHANGED <<ownerVars, queueVars, cur, resume, curlVars, retryVars,
                 callVars, requestVars>>

DrainQueue ==
  /\ pc = "drain" /\ inQueue # <<>>
  /\ inQueue' = Tail(inQueue)
  /\ PrepareContext(Head(inQueue), "drain")
  /\ UNCHANGED <<ownerVars, closed, wakeup, messages, reply, retryVars, caller,
                 requestVars>>

QueueDrained ==
  /\ pc = "drain" /\ inQueue = <<>>
  /\ pc' = "admit"
  /\ UNCHANGED <<ownerVars, queueVars, cur, resume, curlVars, retryVars,
                 callVars, requestVars>>

\* AdmitDueRetries: the call at the top of the retry queue is due.
Due(c) == c \in retryQueue /\ delay[c] = 0

AdmitDueRetry(c) ==
  /\ pc = "admit" /\ Due(c)
  /\ retryQueue' = retryQueue \ {c}
  /\ PrepareContext(c, "admit")
  /\ UNCHANGED <<ownerVars, queueVars, messages, reply, attempts, delay, caller,
                 requestVars>>

RetriesAdmitted ==
  /\ pc = "admit" /\ \A c \in retryQueue : ~Due(c)
  /\ pc' = "perform"
  /\ UNCHANGED <<ownerVars, queueVars, cur, resume, curlVars, retryVars,
                 callVars, requestVars>>

\* multiPerform: any of the running transfers end, each in any of the ways a
\* transfer may end, having read from their request's body.
MultiPerform ==
  /\ pc = "perform"
  /\ pc' = "poll"
  /\ \E done \in SUBSET (handles \ messages) :
       /\ messages' = messages \cup done
       /\ \E ends \in [done -> Replies] :
            reply' = [c \in Calls |-> IF c \in done THEN ends[c] ELSE reply[c]]
       /\ body' = [r \in Requests |->
                     IF \E c \in done : RequestOf[c] = r /\ ReadsBody(c)
                     THEN "read" ELSE body[r]]
  /\ UNCHANGED <<ownerVars, queueVars, cur, resume, handles, retryVars, callVars,
                 listener, response, notified>>

\* multiPoll, which sleeps a second at most and not at all after a wake-up.
MultiPoll ==
  /\ pc = "poll"
  /\ pc' = "info"
  /\ wakeup' = FALSE
  /\ UNCHANGED <<ownerVars, inQueue, closed, cur, resume, curlVars, retryVars,
                 callVars, requestVars>>

MessagesRead ==
  /\ pc = "info" /\ messages = {}
  /\ pc' = "loop"
  /\ UNCHANGED <<ownerVars, queueVars, cur, resume, curlVars, retryVars,
                 callVars, requestVars>>

\* Mutants: the easy handle is left on the stack; the message is left in the
\* list curl keeps.
HandleKept(c) ==
  /\ pc = "info" /\ c \in messages
  /\ messages' = messages \ {c}
  /\ UNCHANGED <<handles, reply>>

\* A completion message is read and its easy handle taken off the stack.
MessageRead(c) ==
  /\ pc = "info" /\ c \in messages
  /\ messages' = messages \ {c}
  /\ handles' = handles \ {c}
  /\ UNCHANGED reply

Retries(c) ==
  RetriesAfter(RequestFor(c), reply[c], RequestFor(c).policy, attempts[c])

\* Mutants: the retry is not pushed on the retry queue; the attempt is not
\* counted.
RetryForgotten(c) ==
  /\ MessageRead(c)
  /\ Retries(c)
  /\ \E ms \in ComputeRetrySleep(reply[c], RequestFor(c).policy, attempts[c]) :
       delay' = [delay EXCEPT ![c] = ms]
  /\ attempts' = [attempts EXCEPT ![c] = @ + 1]
  /\ body' = [body EXCEPT ![RequestOf[c]] = ReplayedBody(RequestFor(c), @)]
  /\ wakeup' = TRUE
  /\ UNCHANGED <<ownerVars, inQueue, closed, threadVars, retryQueue, callVars,
                 listener, response, notified>>

RetryNotCounted(c) ==
  /\ MessageRead(c)
  /\ Retries(c)
  /\ \E ms \in ComputeRetrySleep(reply[c], RequestFor(c).policy, attempts[c]) :
       delay' = [delay EXCEPT ![c] = ms]
  /\ retryQueue' = retryQueue \cup {c}
  /\ body' = [body EXCEPT ![RequestOf[c]] = ReplayedBody(RequestFor(c), @)]
  /\ wakeup' = TRUE
  /\ UNCHANGED <<ownerVars, inQueue, closed, threadVars, attempts, callVars,
                 listener, response, notified>>

\* PrepareForReplay and ScheduleRetry.
ScheduleRetry(c) ==
  /\ MessageRead(c)
  /\ Retries(c)
  /\ \E ms \in ComputeRetrySleep(reply[c], RequestFor(c).policy, attempts[c]) :
       delay' = [delay EXCEPT ![c] = ms]
  /\ attempts' = [attempts EXCEPT ![c] = @ + 1]
  /\ retryQueue' = retryQueue \cup {c}
  /\ body' = [body EXCEPT ![RequestOf[c]] = ReplayedBody(RequestFor(c), @)]
  /\ wakeup' = TRUE
  /\ UNCHANGED <<ownerVars, inQueue, closed, threadVars, callVars, listener,
                 response, notified>>

\* Mutants: the request does not get its response; only a request with a
\* listener has its waiter told.
ResponseNotStored(c) ==
  /\ MessageRead(c)
  /\ ~Retries(c)
  /\ answers' = [answers EXCEPT ![c] = @ + 1]
  /\ pc' = "notify" /\ cur' = c /\ resume' = "info"
  /\ UNCHANGED <<ownerVars, queueVars, retryVars, sent, caller, requestVars>>

WaiterNotTold(c) ==
  /\ MessageRead(c)
  /\ ~Retries(c)
  /\ response' = [response EXCEPT ![RequestOf[c]] = c]
  /\ answers' = IF listener[RequestOf[c]] = None THEN answers
                ELSE [answers EXCEPT ![c] = @ + 1]
  /\ pc' = "notify" /\ cur' = c /\ resume' = "info"
  /\ UNCHANGED <<ownerVars, queueVars, retryVars, sent, caller, listener, body,
                 notified>>

\* The result is final: the request gets its response and the waiter is told.
DeliverResult(c) ==
  /\ MessageRead(c)
  /\ ~Retries(c)
  /\ response' = [response EXCEPT ![RequestOf[c]] = c]
  /\ answers' = [answers EXCEPT ![c] = @ + 1]
  /\ pc' = "notify" /\ cur' = c /\ resume' = "info"
  /\ UNCHANGED <<ownerVars, queueVars, retryVars, sent, caller, listener, body,
                 notified>>

\* The request's listener is read now, after the waiter was told.
NotifyListener ==
  /\ pc = "notify"
  /\ LET l == listener[RequestOf[cur]] IN
       IF l = None
       THEN /\ pc' = resume /\ cur' = None
            /\ UNCHANGED notified
       ELSE /\ pc' = "callback"
            /\ notified' = [notified EXCEPT ![l] = @ \cup {cur}]
            /\ UNCHANGED cur
  /\ UNCHANGED <<ownerVars, queueVars, resume, curlVars, retryVars, callVars,
                 listener, response, body>>

\* OnComplete returns, which it cannot do in the middle of a call of its own.
OnCompleteReturns ==
  /\ pc = "callback"
  /\ \A d \in FromListener : ~InMidCall(d)
  /\ pc' = resume /\ cur' = None
  /\ UNCHANGED <<ownerVars, queueVars, resume, curlVars, retryVars, callVars,
                 requestVars>>

\* The best-effort drain after the loop throws the messages away.
LeaveRun ==
  /\ pc = "leave"
  /\ messages' = {}
  /\ pc' = "stopped"
  /\ UNCHANGED <<ownerVars, queueVars, cur, resume, handles, reply, retryVars,
                 callVars, requestVars>>

RunNext ==
  \/ WhileRunning \/ DrainQueue \/ QueueDrained \/ RetriesAdmitted
  \/ MultiPerform \/ MultiPoll \/ MessagesRead
  \/ NotifyListener \/ OnCompleteReturns \/ LeaveRun
  \/ \E c \in Calls : AdmitDueRetry(c) \/ ScheduleRetry(c) \/ DeliverResult(c)

----------------------------------------------------------------------------
\* The wall clock moves on.
Tick ==
  /\ \E c \in retryQueue : delay[c] > 0
  /\ delay' = [c \in Calls |-> IF delay[c] > 0 THEN delay[c] - 1 ELSE 0]
  /\ UNCHANGED <<ownerVars, queueVars, threadVars, curlVars, retryQueue,
                 attempts, callVars, requestVars>>

Next ==
  \/ \E c \in Calls : CallerNext(c)
  \/ Start \/ Shutdown \/ ShutdownNext
  \/ RunNext
  \/ Tick

Spec == Init /\ [][Next]_vars

\* A transfer ends in the end: the idle timeout, a minute unless the
\* application changes it, sees to that.
TransferEnds(c) == MultiPerform /\ c \in messages'

\* A thread that is inside the library goes on; whether anybody ever sends a
\* request or stops the client is up to the application.  It does start the
\* client once: Start must be called before any request is sent.
Fairness ==
  /\ \A c \in Calls :
       /\ WF_vars(SubmitPush(c) \/ WakeupTest(c) \/ WakeupCall(c) \/ Await(c))
       /\ SF_vars(TransferEnds(c))
  /\ WF_vars(Start /\ starts = 0)
  /\ WF_vars(ShutdownNext)
  /\ WF_vars(RunNext)
  /\ WF_vars(Tick)

FairSpec == Spec /\ Fairness

----------------------------------------------------------------------------
(* Properties.                                                             *)

Among(s, c)  == \E i \in 1 .. Len(s) : s[i] = c
OnceIn(s, c) == \A i, j \in 1 .. Len(s) : s[i] = c /\ s[j] = c => i = j

Queued(c)   == Among(inQueue, c)
InClient(c) == Queued(c) \/ c \in handles \/ c \in retryQueue

\* An accepted call nobody has answered is in exactly one of the three places
\* a call can wait in (the submission queue, the multi stack, the retry
\* queue), once, until the multi handle is gone; an answered call is in none.
\* Run, ScheduleRetry and AdmitDueRetries move envelopes between them.
InOnePlace ==
  \A c \in Calls :
    /\ ~(Queued(c) /\ c \in handles)
    /\ ~(Queued(c) /\ c \in retryQueue)
    /\ ~(c \in handles /\ c \in retryQueue)
    /\ OnceIn(inQueue, c)
    /\ answers[c] > 0 => ~InClient(c)
    /\ Accepted(c) /\ answers[c] = 0 => InClient(c) \/ multi = "freed"

\* No call is answered twice, however often it was retried and whether its
\* answer came from Run or from the failure path of PrepareContext; and a
\* call that Submit refused is not answered at all.
AnsweredOnce ==
  \A c \in Calls : /\ answers[c] <= 1
                   /\ ~Accepted(c) => answers[c] = 0

\* How often HTTP lets the request of a call be sent: a method that is not
\* idempotent, a body that cannot be read again and an output stream that has
\* taken bytes all allow one attempt, unless the policy lets a POST with a
\* replayable body be repeated.
Repeatable(req) ==
  /\ req.sink = "memory"
  /\ \/ req.method \in {"Get", "Head"}
     \/ /\ req.method \in {"Put", "Delete", "Options", "Trace"}
        /\ HasContent(req) => req.content.canReplay
     \/ /\ req.method = "Post" /\ req.policy.allowPostReplay
        /\ req.content.canReplay

AttemptLimit(c) ==
  IF Repeatable(RequestFor(c)) /\ RequestFor(c).policy.maxAttempts > 1
  THEN RequestFor(c).policy.maxAttempts ELSE 1

\* The wire sees a call no more often than the policy and the nature of the
\* request allow.
AttemptsBounded == \A c \in Calls : sent[c] <= AttemptLimit(c)

\* The count of attempts in a call's envelope agrees with the handles made for
\* it: one ahead while the call waits for its next attempt, equal during the
\* attempt.  Only a handle on the stack can have a message.
CountsAgree ==
  /\ messages \subseteq handles
  /\ \A c \in Calls :
       /\ ~Accepted(c) => ~InClient(c) /\ sent[c] = 0
       /\ Queued(c) \/ c \in retryQueue =>
            attempts[c] = sent[c] + 1 /\ attempts[c] <= AttemptLimit(c)
       /\ c \in handles => attempts[c] = sent[c] /\ sent[c] >= 1

\* The thread does not go to sleep over a submitted call: when it is about to
\* poll, each call still queued has a wake-up pending or about to be sent.
NoLostWakeup ==
  pc = "poll" =>
    wakeup \/ \A i \in 1 .. Len(inQueue) : caller[inQueue[i]] \in {"wake", "waking"}

\* The transfer of a call reads its request's body from the first byte, the
\* retries like the first attempt, unless the application has sent the request
\* object before: no handle is on the stack with its body half read, except a
\* finished one.  Run throws the messages of finished ones away when it stops.
SentBefore(c) == \E d \in Calls \ {c} : RequestOf[d] = RequestOf[c] /\ sent[d] > 0

FromStart(c) == body[RequestOf[c]] = "start" \/ SentBefore(c)

BodyFromStart ==
  pc # "stopped" => \A c \in handles \ messages : ReadsBody(c) => FromStart(c)

\* When a listener runs, request.Response() is the response it was called
\* about, whoever sends or has sent the same request object; the exception is
\* a call answered because curl_easy_init failed, whose last attempt never
\* went out.
WentOut(c) == attempts[c] = sent[c]

ResponseIsCurrent ==
  pc = "callback" /\ WentOut(cur) => response[RequestOf[cur]] = cur

\* Between the return of Shutdown and another Start the client's own thread does
\* nothing: it has stopped, no call is answered, no listener runs, and no transfer
\* begins, ends or is retried.  It says nothing of the callers: a Submit that has
\* read multiHandlePtr before may still wake the freed handle up.
SilentWhenDown ==
  [][closed /\ owner = "idle" /\ ~running =>
       /\ UNCHANGED <<answers, notified, sent, handles, messages>>
       /\ multi = "freed" /\ pc = "stopped"]_vars

\* Shutdown returns.
ShutdownReturns == owner = "close" ~> owner = "idle"

\* Send returns or throws.
SendReturns ==
  \A c \in Blocking : caller[c] = "push" ~> caller[c] \in {"returned", "refused"}

\* A thread that has seen multiHandlePtr set calls curl_multi_wakeup while
\* the handle exists.
WakeupOnLiveHandle == \A c \in Calls : caller[c] = "waking" => multi = "open"

----------------------------------------------------------------------------
\* The exchange every call goes through, whatever the threads do.
Status(c) ==
  IF answers[c] > 0 THEN "answered"
  ELSE IF Accepted(c) THEN "pending"
  ELSE IF caller[c] = "refused" THEN "refused" ELSE "idle"

Exchange == INSTANCE HttpExchange WITH
  Limit  <- [c \in Calls |-> AttemptLimit(c)],
  tries  <- sent,
  status <- [c \in Calls |-> Status(c)]

\* The client implements HttpExchange.
ImplementsExchange == Exchange!ExchangeSpec

\* Every accepted call is answered.
EveryCallAnswered == Exchange!EveryCallAnswered
=============================================================================
