---------------------------- MODULE MCHttpClient ----------------------------
(***************************************************************************)
(* Small applications of the client for TLC.                               *)
(***************************************************************************)
EXTENDS HttpClient, TLC

CONSTANTS c1, c2, c3, r1, r2, r3

Retrying(n) == [DefaultPolicy EXCEPT !.maxAttempts = n, !.maxBackoff = 1]

GetTwice  == [method |-> "Get", content |-> NoContent, sink |-> "memory",
              policy |-> Retrying(2)]
PutTwice  == [method |-> "Put", content |-> MemoryContent, sink |-> "memory",
              policy |-> Retrying(2)]
PostOnce  == [method |-> "Post", content |-> MemoryContent, sink |-> "memory",
              policy |-> Retrying(2)]
GetStream == [method |-> "Get", content |-> NoContent, sink |-> "stream",
              policy |-> Retrying(2)]

Ok        == [curlCode |-> 0,  status |-> 200, retryAfter |-> 0]
Busy      == [curlCode |-> 0,  status |-> 503, retryAfter |-> 2]
TimedOut  == [curlCode |-> 28, status |-> 0,   retryAfter |-> 0]

OkOrTimedOut == {Ok, TimedOut}
BusyReplies  == {Ok, Busy, TimedOut}

\* Three calls on three requests, and on two: the blocking call's request is
\* sent again from a listener.
ThreeRequests == c1 :> r1 @@ c2 :> r2 @@ c3 :> r3
ThreeConfigs  == r1 :> GetTwice @@ r2 :> PutTwice @@ r3 :> PostOnce
SharedRequest == c1 :> r1 @@ c2 :> r2 @@ c3 :> r1
SharedConfigs == r1 :> PutTwice @@ r2 :> GetStream
=============================================================================
