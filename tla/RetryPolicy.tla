---------------------------- MODULE RetryPolicy ----------------------------
(***************************************************************************)
(* The decisions of http.bmx about a finished attempt: may it be repeated, *)
(* and how long does the client wait before repeating it.  Everything here *)
(* is a pure function of the request, its policy and the response, so the  *)
(* module has no variables; HttpClient calls these operators where Run     *)
(* calls the functions of the same name.                                   *)
(*                                                                         *)
(* Time is counted in ticks, a tick standing for the smallest backoff the  *)
(* policy in hand distinguishes.  Statuses and curl codes keep the numbers *)
(* the source gives them.                                                  *)
(***************************************************************************)
EXTENDS Integers

EHttpMethod ==
  {"Get", "Post", "Put", "Delete", "Head", "Options", "Patch", "Trace",
   "Connect", "Query"}

\* The capabilities of a TContent, as its overrides answer them.  A request
\* without a body has NoContent.  A TStreamContent is replayable when its stream
\* has a size; its Rewind does not look whether Seek has worked, and is modelled
\* for the streams on which it does.
NoContent     == [kind |-> "none",   canReplay |-> FALSE, rewinds |-> FALSE, clones |-> FALSE]
MemoryContent == [kind |-> "memory", canReplay |-> TRUE,  rewinds |-> TRUE,  clones |-> TRUE]
SeekableStreamContent ==
  [kind |-> "stream", canReplay |-> TRUE,  rewinds |-> TRUE,  clones |-> TRUE]
PipeStreamContent ==
  [kind |-> "pipe",   canReplay |-> FALSE, rewinds |-> TRUE,  clones |-> TRUE]
\* TContent itself, from which an application derives its own content.
PlainContent  == [kind |-> "plain",  canReplay |-> FALSE, rewinds |-> FALSE, clones |-> FALSE]

Contents ==
  {NoContent, MemoryContent, SeekableStreamContent, PipeStreamContent, PlainContent}

HasContent(req) == req.content # NoContent

\* TSink.IsReplaySafe, which TStreamSink overrides.
SinkIsReplaySafe(req) == req.sink # "stream"

----------------------------------------------------------------------------
\* The fields TRetryPolicy starts with; maxAttempts 0 disables retries.
DefaultAllowMethods  == {"Get", "Head", "Put", "Delete", "Options", "Trace"}
DefaultRetryStatuses == {429, 502, 503, 504}
\* COULDNT_CONNECT, PARTIAL_FILE, OPERATION_TIMEDOUT, GOT_NOTHING, SEND_ERROR
\* and RECV_ERROR.
DefaultRetryCurlCodes == {7, 18, 28, 52, 55, 56}

DefaultPolicy ==
  [maxAttempts |-> 0, backoffFactor |-> 1, maxBackoff |-> 120,
   respectRetryAfter |-> TRUE, allowPostReplay |-> FALSE,
   allowMethods |-> DefaultAllowMethods,
   retryStatuses |-> DefaultRetryStatuses,
   retryCurlCodes |-> DefaultRetryCurlCodes]

----------------------------------------------------------------------------
ShouldRetry(req, res, policy) ==
  /\ \/ req.method \in policy.allowMethods
     \/ req.method = "Post" /\ policy.allowPostReplay
  /\ IF res.curlCode # 0
     THEN res.curlCode \in policy.retryCurlCodes
     ELSE res.status >= 400 /\ res.status \in policy.retryStatuses

IsReplaySafe(req, policy) ==
  \/ req.method \in {"Get", "Head"}
  \/ /\ req.method = "Post"
     /\ policy.allowPostReplay /\ HasContent(req) /\ req.content.canReplay
  \/ /\ req.method \in {"Put", "Delete", "Options", "Trace"}
     /\ HasContent(req) => req.content.canReplay

\* Mutants of RetriesAfter: the sink is not asked; one attempt too many.
SinkNotAsked(req, res, policy, attempts) ==
  /\ policy.maxAttempts > 0
  /\ ShouldRetry(req, res, policy)
  /\ attempts < policy.maxAttempts
  /\ IsReplaySafe(req, policy)

OneAttemptTooMany(req, res, policy, attempts) ==
  /\ policy.maxAttempts > 0
  /\ ShouldRetry(req, res, policy)
  /\ SinkIsReplaySafe(req)
  /\ attempts <= policy.maxAttempts
  /\ IsReplaySafe(req, policy)

\* The test Run makes before it schedules attempt number attempts + 1.
RetriesAfter(req, res, policy, attempts) ==
  /\ policy.maxAttempts > 0
  /\ ShouldRetry(req, res, policy)
  /\ SinkIsReplaySafe(req)
  /\ attempts < policy.maxAttempts
  /\ IsReplaySafe(req, policy)

\* Mutant: PrepareForReplay does nothing.
BodyNotRewound(req, body) == body

\* Whether the next attempt reads the body from its first byte.
ReplayedBody(req, body) ==
  IF HasContent(req) /\ (req.content.rewinds \/ req.content.clones)
  THEN "start" ELSE body

----------------------------------------------------------------------------
LesserOf(a, b) == IF a <= b THEN a ELSE b

\* Mutant: what Retry-After asks for is not capped.
RetryAfterNotCapped(res, policy, attempt) ==
  IF policy.respectRetryAfter /\ res.retryAfter > 0
  THEN {res.retryAfter}
  ELSE {ms \in 0 .. policy.maxBackoff :
          ms <= policy.backoffFactor * (2 ^ (attempt - 1))}

\* The waits ComputeRetrySleepMs may return.  A Retry-After header that names
\* a moment yet to come (res.retryAfter > 0) decides alone; otherwise the
\* jitter, a sine of the wall clock scaled into 0..1, picks any share of
\* backoffFactor * 2 ^ (attempt - 1), capped by maxBackoff.
ComputeRetrySleep(res, policy, attempt) ==
  IF policy.respectRetryAfter /\ res.retryAfter > 0
  THEN {LesserOf(res.retryAfter, policy.maxBackoff)}
  ELSE {ms \in 0 .. policy.maxBackoff :
          ms <= policy.backoffFactor * (2 ^ (attempt - 1))}
============================================================================
