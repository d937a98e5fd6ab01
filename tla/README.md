# net.mod in TLA+

A model of the network modules of BlitzMax NG (`net.mod`): the HTTP client with
its queues, the part of curl its loop stands on, its cookie store and cookie
parser, and the reader of an HTTPS stream, checked with TLC on small instances
and, for the core, proved with TLAPS for all.

Contents: [the system](#the-system) · [modules](#modules) · [the runs](#the-runs)
· [bounds](#bounds) · [fairness](#fairness) · [what is proved](#what-is-proved) ·
[findings](#findings) · [known limits](#known-limits) · [what is not
modelled](#what-is-not-modelled) · [plan](#plan)

## The system

The repository holds 7158 files; nearly all of them are third-party sources
(curl, c-ares, mbedtls, libssh2, litehtml). The project's own logic is
in `http.mod` (4.7 k lines of BlitzMax), `libcurl.mod/curlmain.bmx` (a wrapper)
and `httpsstream.mod` (a reader on top of the wrapper).

### Components

| Component | State | Operations | Hard behaviour | Correct means |
|---|---|---|---|---|
| HTTP client engine (`http.bmx`, THttpClient, THttpRequest) | `_running`, `_inQueue`, `_multi`, `_retryQueue`; per call an envelope (attempts, due time, waiter) and an easy handle; per request `_listener`, `_response`, content | Send, SendAsync, Submit, Start, Shutdown; Run with PrepareContext, ScheduleRetry, AdmitDueRetries | three kinds of threads: the users', the owner's, the client's; shutdown at any moment; listeners that send again | a call is in one place, answered once and in the end, tried no more than allowed; Shutdown returns and leaves silence |
| Retry policy (`http.bmx`, TRetryPolicy, ShouldRetry, IsReplaySafe, ComputeRetrySleepMs) | none | decisions about a finished attempt | which methods, bodies and sinks may be repeated | nothing that must not be repeated is |
| Retry queue (`http.bmx`, TMinHeap, TTimeComparator) | a list | Push, Pop, Peek | sifts; a Long difference returned as an Int | earliest first, nothing lost |
| Waiter and submission queue (`http.bmx`, TWaiter, TConcurrentQueue) | mutex, condition variable, `_done`, `_q`, `_closed` | Await, Complete, Push, TryPop, PopWait, Close | missed signals | whoever waits is woken |
| Contents and sinks (`http.bmx`, TContent, TSink and subtypes) | read position; buffer | Read, Rewind, CloneContent; Write, IsReplaySafe | a second attempt, or a second sending, starts where the first stopped | every attempt reads the body from its start |
| Cookie store (`http_cookie.bmx`, THttpCookieStore) | a map from domain to a list of cookies | Add, Match, (Remove, All, Clear) | Match on the users' threads, Add on the client's, no lock | what is set is kept and sent where it belongs |
| Cookies and the Set-Cookie parser (`http_cookie.bmx`) | parser position; the builder's map of attributes | Parse, Attribute and its setters | quotes, stepping back in a loop, an exception for a flag with a wrong value | Parse returns what the field says, and ends |
| CA stores (`http_ca.bmx`) | the store a provider found | GetStore, VerifyBundle, ConfigureSSL | several places to look in, some missing | a store is used only if it exists |
| Header fields, helpers (`http_util.bmx`) | list of fields | Add, Get, formatting | the same field several times | – |
| URLs (`http_url.bmx`) | curl's URL handle | getters | – | – |
| libcurl wrapper (`curlmain.bmx`) | `multiHandlePtr`, the easy handles | newEasy, multiAdd, multiRemove, multiPerform, multiPoll, multiWakeup, multiInfoRead, multiCleanup | a handle freed while another thread uses it | – |
| curl's multi interface (`libcurl/lib/multi.c`, third-party, used by the client and the HTTPS stream) | the sets `process`, `pending`, `dirty`, `msgsent`; `xfers_alive`; `msglist`; the connection pool's limit; the wakeup socket pair | curl_multi_add_handle, remove_handle, perform, poll, wakeup, info_read | transfers that wait for a connection are moved on one at a time; messages of handles that were removed; a wake-up that arrives while the last is being read | no transfer is stranded, none reported twice or after it was taken off, no wake-up lost |
| HTTPS stream (`httpsstream.bmx`, `glue.c`) | a buffer that grows, the multi handle of one transfer | open, read, eof, close | a read loop that waits for the network, without a time limit; a chunk that does not fit | bytes come in order, once; nothing is written past the buffer; end of file only at the end |
| Other vendored libraries, HTML rendering | – | – | – | third-party |

### How they interact

`Send` and `SendAsync` call `Submit` on the user's thread: it reads the cookie
store (`NormalizeReqest`, `Match`), pushes an envelope on the submission queue
under its mutex, and wakes curl's poll with no lock held. The client's thread
runs `Run`: it empties the submission queue and the due part of the retry queue
onto the curl multi stack, lets curl work, sleeps in `multiPoll`, and handles
each finished transfer: another attempt (on the retry queue), or a result, which
goes first into the request, then to the waiter, then to the request's listener,
a callback on the client's thread that may call `SendAsync` again. Headers of a
response reach the cookie store during `multiPerform`. `Start` and `Shutdown`
are called by whichever thread owns the client; `Shutdown` clears `_running`,
closes the queue, waits for the thread and frees the multi handle. Nothing is
persisted, so a crash loses everything and there is no recovery to model.

## Modules

| Module | Models |
|---|---|
| `RetryPolicy` | the pure decisions: `ShouldRetry`, `IsReplaySafe`, the test in `Run`, `PrepareForReplay`, `ComputeRetrySleepMs`, the defaults of `TRetryPolicy`, what each `TContent` and `TSink` answers |
| `HttpExchange` | abstract: what the client promises for one call, with no thread, queue or timer |
| `HttpClient` | the engine: callers, owner, client thread, multi stack, retry queue; EXTENDS `RetryPolicy`, is mapped on `HttpExchange` by `INSTANCE ... WITH` |
| `HttpClientProofs` | theorems about `HttpClient` |
| `MinHeap`, `MinHeapProofs` | the retry queue, one loop turn of a sift at a time, and theorems about it |
| `WaiterQueue`, `WaiterQueueProofs` | `TConcurrentQueue` and `TWaiter`, lock by lock, with sleeping threads, signals and spurious wake-ups, and theorems about it; mapped on `Handoff` |
| `Handoff` | abstract: calls are accepted, taken in order, answered, and return |
| `CurlMulti` | curl's multi interface: one turn of the loop in `multi_runsingle` at a time |
| `MultiLoop`, `MultiLoopProofs` | `CurlMulti` composed with the loop of `Run` and the threads that submit, and theorems about both; mapped on `TransferStack` |
| `TransferStack` | abstract: what the client takes for granted of curl's stack |
| `HttpsStream`, `HttpsStreamProofs` | the HTTPS reader, and theorems about it; mapped on `ByteStream` |
| `ByteStream` | abstract: a stream that hands out what its source has given, and tells its end, and promises nothing once its memory was overrun |
| `CookieScope` | the pure functions of the cookie store, and beside them the documented rules |
| `CookieStore`, `CookieStoreProofs` | `Match` and `Add`, one call on the map or on a list and one turn of a loop over a list at a time, and theorems about them; EXTENDS `CookieScope` |
| `SetCookieParser`, `SetCookieParserProofs` | `TSetCookieParser.Parse`, a character at a time, and the theorem that it is right; EXTENDS `SetCookieField` |
| `SetCookieField` | what a Set-Cookie field says, part by part |
| `MCHttpClient`, `MCMinHeap`, `MCWaiterQueue`, `MCMultiLoop`, `MCHttpsStream`, `MCCookieStore`, `MCSetCookieParser` | instances for TLC |

How they fit together: `HttpClient` takes each operation of the queue and the
waiter for one step, and `WaiterQueue` shows that they may be taken so. It takes
the retry queue for a set from which any due call may be admitted, and `MinHeap`
shows that the root is the one due first. It takes curl's stack for a set of
transfers that end, each with one message, and a wake-up for a flag; `CurlMulti`
under the loop of `Run` (`MultiLoop`) shows that this is what the loop gets.

### HttpClient and the code

A member of `Calls` is one call of `Send` (those in `Blocking`) or `SendAsync`,
and the envelope `Submit` makes for it. `RequestOf` says which request object it
uses; two calls may share one, in turn. `FromListener` are the calls made by a
listener: `Issue` lets them start only while a listener runs, and
`OnCompleteReturns` waits for them.

| TLA+ | Code |
|---|---|
| `inQueue`, `closed` | `_inQueue._q`, `_closed`; each operation under the mutex is one step |
| `handles`, `messages`, `reply` | the easy handles on the multi stack, those whose completion curl has still to report, and how they ended |
| `retryQueue`, `attempts`, `delay` | `_retryQueue`, `env.retry.attempts`, `env.retry.nextAtMS` less the present time, in ticks |
| `answers` | how many results were made: a waiter's `_done` is `answers > 0` |
| `listener`, `response`, `body`, `notified` | `request._listener`, `request._response`, where the content's position is, what each listener was told |
| `pc`, `cur`, `resume` | where `Run` is: `loop`, `drain` (the queue), `admit` (due retries), `perform`, `poll`, `info` (messages), `notify`, `callback`, `leave`, `stopped` |
| `Issue`, `SubmitPush`, `WakeupTest`, `WakeupCall`, `Await` | `Send`/`SendAsync` step by step; `multiWakeup` is two steps, since it tests the handle and then uses it |
| `Shutdown`, `CloseQueue`, `ThreadWait`, `MultiCleanup` | `Shutdown` line by line |
| `DrainQueue`, `AdmitDueRetry` with `PrepareContext` | an envelope becomes an easy handle, or `curl_easy_init` fails (`EasyFails`) and the call is answered on the spot |
| `MultiPerform` | any set of transfers ends, each with any of `Replies`, having read of its request's content |
| `ScheduleRetry`, `DeliverResult`, `NotifyListener` | what `Run` does with a message |
| `LeaveRun` | the drain after the loop, which throws the messages away |

`AdmitDueRetries` pops while the root of the heap is due. `HttpClient` keeps the
retry queue as a set and admits any due call; `MinHeap` shows (and
`MinHeapProofs` proves) that the root is the one due first, so the loop admits
exactly the due ones. Which of two due calls goes first is left open.

A wake-up is a flag: curl remembers one until the next poll. The poll itself
does not block in this model; that it sleeps at most a second is in the code
(`pollMs`), and `NoLostWakeup` is the statement that it does not sleep over a
call at all. `MultiLoop` has the bytes and the sleep.

### WaiterQueue and the code

A call is a thread inside `Send`: it pushes (`PushLock`, then `Push` or
`PushThrows`) and waits (`AwaitLock`, then `AwaitWaits` or `AwaitReturns`). A
worker takes envelopes (`PopLock`; `Pop`, `PopWaits` or `PopNull`) and completes
their waiters (`DeliverLock`, `Deliver`). Workers in `Pollers` use `TryPop`, as
`Run` does, the others `PopWait`. A critical section is one step that takes the
lock and one that does its work and gives it back. `lock`, `q`, `closed`, `mu` and
`done` are `_lock`, `_q`, `_closed`, `_mu` and `_done`. The condition variables
belong to BRL.Threads and are external: to wait is to give the lock back and
fall asleep in one step, a signal wakes one sleeper of any, a broadcast all, and
a thread may wake for no reason.

`Closer` is the thread in `Shutdown`: `Stop` clears `_running`, `CloseLock` and
`Close` are the call of `Close`. From `Stop` on a poller may leave (`PollerLeaves`),
between two calls of `TryPop` or with an envelope in hand, as `Run` does at the top
of its loop and in the drain after it. `WaiterQueue` knows no multi stack: an
envelope is in the hands of its worker until the result is delivered.

### CurlMulti, MultiLoop and the code

`CurlMulti` names a transfer by its mid. `phase` says what the thread that owns
the multi handle is doing: outside curl (`app`), on its walk over the process set
(`walk`), in the loop of `multi_runsingle` for the transfer `cursor` (`run`), asleep
in the poll, or reading the wakeup pair (`drain`). Each state of a transfer that
changes a set or a connection is an action: `SetUp`, `GoesPending`, `Connects`,
`ConnectFails`, `Connecting`, `Performing`, `Again` (a redirect or a dead
connection), `Done`, `TimesOut`; `Complete` is what the end of the loop's turn does
when a transfer is over. `Woken(p, k)` are the transfers that k calls of
`process_pending_handles` move, each the first of the pending ones.

`MultiLoop` puts the loop of `Run` around it: drain, perform, poll, read the
messages, remove each handle. Its other threads push to the submission queue
and write to the wakeup pair. `Cancel` takes off a transfer that is not over, which
TCurlMulti lets an application do though the client never does it.

Abstractions: `CONNECTING` stands for the states from RESOLVING to DID,
`PERFORMING` for RATELIMITING too; a connection serves one transfer at a time
(HTTP/1); only the total limit on connections is there, not the one per host,
which goes through the same code; `ConnChanged` is `multi_ischanged`, a step that
may or may not happen, since a connection may be closed at any time; a time
limit passes while the poll sleeps; an interrupted poll is one that returns; a
mid is used once. Left out: the progress callback's abort, wildcard transfers,
multiplexing, connect_only, a multi handle marked dead, curl_multi_cleanup (which
`HttpClient` has).

### HttpsStream and the code

`reader`, `buffer`, `size`, `isEOF` are `curlReaderPtr`, `buffer` up to
`buffer_offset`, `buffer_size` and the stream's end of file; a byte of the body is
named by its position. `Read` begins a read and lets curl work only if the buffer
is empty; `WriteCallback`, `WriteCallbackOverruns` and `WriteCallbackFails` are the
write callback; `PerformLoopEnds` leaves the loop; `Copy` returns bytes and moves
the rest to the front; `PerformFails` is the read that returns -1.

The callback makes the buffer twice as large (`SizeFor`) when a chunk does not fit
and copies the chunk whether or not that was enough. In the code the buffer has
4096 bytes at first and a chunk up to 16384, so it need not be.
`WriteCallbackOverruns` is the undefined behaviour that follows: the process stops,
or goes on with the bytes past the end as they were written or with others
(`Foreign`); what else in the process is overwritten is not in the model. No
condition is put on the two sizes. `overrun` and `longest` are histories.

### SetCookieParser and the code

A character is one of the kinds the parser and the builder tell apart; a word the
builder knows (`Secure`, `Max-Age`, `true`, `Lax`, a date and so on, in any case) is
one character, and one name stands for the three flags. There is one action for each
branch of the `Select`, and `Final` for what comes after the loop. The builder's hash
map is a set of names with values: a later attribute replaces an earlier one of the
same name, and a value that is not kept (`false` for a flag, a negative Max-Age, an
unknown SameSite or date, none for any other name) removes it (`SetAttribute`, `Kept`).
`AsBoolean` throws for a flag with any other value; the exception leaves `Parse`
(`Throw`, the state `Thrown`).

What a field says is written in `SetCookieField` without a loop or a state (`IsCookie`,
`Cookie`, `IsRejected`): split at the first "=" and at semicolons, trim, unquote, and
take the last attribute under each name. `ParsesField` says that the two agree on
every field in which each quote that begins a value is closed.

### CookieStore and the code

The senders go through `Match`: for each domain one step that gets its list from
the map (`MatchLookup`) and one for each element (`MatchCookie`), until there are
no more (`ListMatched`). The loop counts positions (`index`), and the list may
change between two of its turns: when `Add` takes an element out, those behind it
move up and the next one is passed over; when `Add` then appends the new version,
a cookie that was taken before is taken again. Both are in the model. Then for
each domain with expired entries one that gets its list from the map
(`PurgeLookup`), one for each entry removed (`PurgeRemove`), one that tests the
list (`PurgeTest`) and one that drops it from the map if it was empty
(`DropDomain`). The client's thread goes through `Add`: look up the list, remove
the old version, make a list if there is none, append. Lists and cached cookies
have an identity (`Lists`, `id`), as the objects have: a thread may hold a list
that is no longer in the map, and expired entries that are no longer in a list. A
list is the set of its objects, in the order of their numbers: `Remove` takes the
first that compares equal (`WithoutSame`). Hosts are sequences of labels and paths
sequences of pieces, so that prefix and suffix are the questions the code asks of
the strings; case and percent-encoding are left out. `jar` is a history: the
cookies that should be there by the rules `ECookieAttribute` documents
(`DocumentedDomain`, `DocumentedPath`, `Lapsed`), which are written down apart
from the code's own.

`IsSameOrSubDomain` compares `subDomain[beforeMatch]`, a character code, with
the string `"."`. BlitzMax turns the number into its digits, so the comparison
is `"46" = "."` when it is made on a dot, and never true; the model says exactly
that (`DigitsOfDot`).

### MinHeap and the code

Positions count from 1, so that the parent of `i` is `i \div 2` for the code's
`(i - 1) / 2`. `Compare` wraps the difference of two times to an Int of `2 * Half`
values. `Fits` bounds the use: times in the queue differ by less than `Half`
(2^31 ms is 24 days; the default policy waits half a minute at most).

## The runs

| Run | Asks | Shows |
|---|---|---|
| `live` | a client that is never shut down, three calls (a `Send`, a `SendAsync`, one from a listener), retries after 503 with Retry-After and after timeouts | every call is answered and `Send` returns (`EveryCallAnswered`, `SendReturns`); no wait is longer than the policy's limit (part of `TypeOK`) |
| `shutdown` | the same with Shutdown at any moment, a second Start, `curl_easy_init` failing, a GET into a stream, and a PUT whose request a listener sends again | `InOnePlace`, `AnsweredOnce`, `AttemptsBounded`, `CountsAgree`, `NoLostWakeup`; `ShutdownReturns`, and after it the client's own thread does nothing (`SilentWhenDown`); a repeated PUT reads its body from the start (`BodyFromStart`); a listener sees the response it is called about (`ResponseIsCurrent`); and the client implements `HttpExchange` |
| `retryqueue` | six envelopes, six times, every order of pushes and pops | `HeapOrder`, `PeekIsEarliest`, `NothingLost` |
| `cookies_single` | an application that sends one request at a time | `Remembered`: a cookie stays until it lapses or is set again; `CookiesSent`: the cookies that apply are sent, none that was replaced and none that had lapsed when `Match` began |
| `cookies_threads` | two senders and the client's thread | `SentInScope`, `ListsConsistent`: even when threads interleave, nothing is sent out of scope, and no list in the map holds a cookie in two versions; a relative Path attribute is resolved (part of `TypeOK`) |
| `waiter_queue` | two senders, two sleeping workers and a polling one, and Shutdown at any moment | `NoSleepOverWork`: no signal is lost; `OneOwner`: an envelope is in one place; `WorkersLeave`: nobody sleeps on after Close; `AcceptedReturns`: an accepted call returns unless the pollers abandon it when they are told to stop; and that the types implement `Handoff` |
| `multi` | three submissions that compete for one connection, with redirects, errors, timeouts and an unfinished transfer taken off | `SetsAgree`, `NoStrandedPending`, `MessagesValid`: the multi handle is consistent at every step; `NoSleepOverWork`: the poll does not sleep over a submission or a free connection; `EverySubmissionReported`; and that loop and curl implement `TransferStack` |
| `httpsstream` | a body of seven bytes read through a buffer that starts with two, in chunks of up to five, with every failure | `InOrder`: the bytes come in order unless a chunk overran the buffer, which needs a chunk longer than the buffer was at first; `EofIsEnd`, `ReadReturns`, and that the reader implements `ByteStream` |
| `setcookie` | Parse of each short field and of lists of attributes | `Parses`: it ends; `ParsesField`: it returns what the field says, and throws only for a flag whose value is no boolean |
| `abandoned`, `freedhandle`, `cookies_race` | see [findings](#findings) | each is violated |

All runs have `CHECK_DEADLOCK FALSE` except `retryqueue`: an application may
stop sending, a body and a field come to their end, and then nothing happens any
more.

In `shutdown` a call from a listener uses the request object of the `Send` before
it, so that a request is sent again with the client's thread still at work on it.
`BodyFromStart` lets a request that the application sends a second time begin
where the first sending stopped, and `ResponseIsCurrent` leaves out the call that
is answered because curl could not be set up (see [known limits](#known-limits)).
`Remembered` and `CookiesSent` are asked of one sender since with two they are
false (`cookies_race`). `live` leaves out Shutdown since with it `SendReturns` is
false (`abandoned`). What is left true with it is what `shutdown` checks.

## Bounds

* Three calls: a blocking one, an asynchronous one and one from a listener are
  the three kinds there are; pairs of them are what the code's races need. Two
  attempts at most: the first, the retry, and the refusal of a third. Waits of
  0 or 1 tick: due at once, or later. `MaxStarts = 2` allows one restart after
  Shutdown. The requests are a GET (may be repeated), a PUT with a body (may be,
  when rewound), a POST (may not), a GET into a stream (may not). The other
  methods and contents differ in the operators of `RetryPolicy` only, and the
  proofs cover all of them.
* `Issue` bounds the users: a request object is sent again only when its earlier
  calls are over (that is: `Send` returned, or the listener was called). The
  owner starts a client only when it has no thread.
* A tick is the shortest wait that matters; the jitter of the backoff is a sine
  of the clock, so any wait from 0 up to the limit is possible and the model
  takes any.
* Six envelopes give a heap of three levels with both one and two children at the
  last parent, sifts of two turns in both directions. With `Half = 4` times from
  -3 to 2 reach both ends of what `Fits` allows.
* Cookies: three `Set-Cookie` headers and two seconds are enough for a cookie to
  be set, to lapse and to be replaced while another is kept; the URLs are a host,
  its subdomain, two paths of which one is a string prefix of the other, both
  schemes. `cookies_threads` has a cookie with a Domain attribute and one with a
  relative Path among its four.
* Waiter and queue: two senders and two sleeping workers are what a lost signal
  or a doubled envelope needs (one to be woken, one to take the envelope away);
  the third worker polls, as the client does.
* Multi: three transfers and one connection, so that one holds it and two wait;
  a pair that holds two bytes, read one at a time, is full and is drained in
  several steps. Transfer 1 may be taken off unfinished. Redirects are not
  counted: `Again` may happen any number of times.
* HTTPS: seven bytes, a buffer that starts at two, chunks of one to five bytes and
  reads of none, one or three make it grow twice, hold a rest while it grows, overrun
  it with the first chunk or a later one, and end a read short.
* Set-Cookie: all fields of up to three characters of all kinds; fields that begin
  with a name and "=" go on for up to six more of five kinds, up to seven of the
  four that separate and quote, and up to five of six kinds with a flag, a line feed
  and DEL among them; and all pairs of attributes with seven names and nine values,
  and triples of fewer. Seven hold a quoted value and an attribute with a quoted
  value; a triple sets a flag, removes it and sets it again.

## Fairness

`HttpClient!Fairness` asks only that code inside the library goes on: a caller
inside `Submit` or `Await` (weak), the client's thread (weak), Shutdown once it
has begun (weak), the clock (weak). Nobody is made to send a request or to stop
the client. The application is made to start the client once
(`WF_vars(Start /\ starts = 0)`), as every example does: a call submitted to a
client that never runs is never answered. `SF_vars(TransferEnds(c))` says that a
transfer on the stack ends if curl is given the chance again and again: the code
sets an idle timeout of a minute on every handle (`_idleTimeoutMs`). It is strong
because `MultiPerform` is enabled only now and then. That a listener returns is
part of `WF_vars(RunNext)`.

`WaiterQueue!Fairness`: a thread inside a critical section leaves it (weak), and
one that asks for a lock that is free again and again gets it (strong, which is
what the mutexes of a fair scheduler give; the critical sections are a few
statements and never call out). A thread in `PopWait` calls it again until it
returns Null; a poller goes on until it leaves, which it may do at any time once
`Stop` was taken, and with envelopes in the queue. So `AcceptedReturns` names the
calls that are not answered (`Abandoned`): those a poller left with, and those in
the queue when nobody is left. No spurious wake-up is made to happen, nobody has to
send, to stop or to close.

`MultiLoop!Fairness`: the loop goes on (weak: each of its steps is one of the same
thread), and a submitting thread makes its wake-up. A transfer that is run again
and again while it connects or performs leaves that state (strong): its server
answers, or its time limit passes, both of which are the world's doing and not
curl's; that it then is completed and reported, and that one which waits for a
connection is ever run again, is left to the code. `HttpsStream!Fairness`: a
thread inside `Read` goes on when the transfer is over or there is something to
copy. Nothing is asked of the network: no time limit is set on the stream's handle,
so a server that stalls keeps `Read` waiting, and `ReadReturns` does not deny it.
Nobody has to read. The parser is one thread in a loop: weak fairness of `Next`.

## What is proved

`HttpClientProofs`, for any finite or infinite set of calls, any requests,
policies and replies that satisfy the ASSUMEs of `HttpClient` (which say how the
constants are typed, no more):

* `TypeCorrect`: `Spec => []TypeOK`, with the bound on the wait for a retry.
* `PlacesCorrect`, `AnsweredOnceCorrect`, `AttemptsCorrect`, `CountsCorrect`:
  the four safety invariants `InOnePlace`, `AnsweredOnce`, `AttemptsBounded`,
  `CountsAgree`. None is inductive alone, so they come from one invariant,
  `IInv`, whose part `CallInv(c)` gathers what is known of one call. A retry is
  bounded (`RetriesRepeatable`) because the count in the envelope agrees with the
  number of handles made, the counts agree because a call waits in one place
  only, and it is answered once because the answer takes it from there. A step
  that moves no envelope keeps `CallInv` (`Unmoved`); `Prepared` does the work
  shared by `DrainQueue` and `AdmitDueRetry`.
* `NoLostWakeupCorrect` and `SilentCorrect` (an action property, of the client's own
  thread: a caller that has read `multiHandlePtr` before may still use the freed
  handle, see `freedhandle`) come from
  `LifeInv`, about the order in which Shutdown does things. The interesting part:
  `WakeupTest` skips the wake-up when the multi handle is gone, which loses no
  wake-up only because the queue was closed before (`multi = "freed" => closed`)
  and is empty whenever the thread of a restarted client has drained it.
* `ResponseCorrect`: `ResponseIsCurrent`, from `RequestInv`, about calls that share a
  request object: one of them is under way at a time (`OneUnderWay`), and while the
  client's thread is at work on an answer no other call of the request waits for its
  own (`CurrentAnswered`), so neither the thread nor a waiter that returns puts an
  older response into the request.
* `BodyCorrect`: `BodyFromStart`, from `BodyInv`: a call whose transfer is under way or
  still to come, in the queue or on the retry queue, finds its content at the start
  unless another call of the request was sent. A retry rewinds (`RetryRewinds`), and
  a client that is started again has no transfer of its earlier life on the stack
  (`FreedInv`).
* `ExchangeImplemented`: `Spec => ImplementsExchange`, every step of the client is
  one step of `HttpExchange` or none. The refinement mapping reads the status of a
  call from `answers` and `caller`, the tries from `sent`, the limit from the
  request's policy.

`MinHeapProofs`, for heaps of any size, any times and any `Half > 0`:

* `HeapOrderCorrect`, `PeekCorrect`, `NothingLostCorrect`, `HeapTypeCorrect` from
  the invariant `HeapInv`, which says what is in order in the middle of a sift:
  all but one position (`up`) or all but its children (`down`), and the position's
  children are due no earlier than its parent (`Bridged`), or a swap could undo
  what an earlier one did. `CompareOrders` is the arithmetic of the wrapped
  difference; `PeekCorrect` follows from the order by the smallest position that
  would contradict it.

`HttpsStreamProofs`, for a body of any length, a first buffer and chunks of any
size and reads of any counts (`StreamAssumption` says that these are natural
numbers, no more):

* `InOrderCorrect`, `EofCorrect` and `StreamImplemented` (`Spec =>
  ImplementsStream`), from `Inv`. That a chunk no longer than the first buffer finds
  room when the buffer was doubled once needs `size >= InitialSize`, and
  that an empty read means the end needs what `Reading` says of a read under way
  (it copies only if there is something to copy or the transfer is over).
  `CopyMoves` and `ChunkHolds` are the facts about sequences. The end of the stream
  does not depend on the bytes, so `EofIsEnd` holds in spite of an overrun.
* `NeverOverrun`: if no chunk is longer than the buffer was at first, none is ever
  written past its end, however much is still to be read. The code's sizes do not
  meet that condition; a first buffer of CURL_MAX_WRITE_SIZE would.

`WaiterQueueProofs`, for any calls and any finite set of workers, any of which
poll:

* `NoSleepCorrect` and `OneOwnerCorrect`, from `IInv`. `NoSleepOverWork` is
  inductive once the threads are typed: a push wakes a sleeper whenever there is
  one, so the workers on their way to the queue grow with it, and who takes an
  envelope was on the way. The weaker claim that some worker is on its way is not
  inductive: that one may take the first of two envelopes. `OneOwner` needs that a worker holds an
  envelope exactly while it delivers (`HeldInv`) and that no call is answered
  before it was pushed (`CallInv`). The lemmas `AppendedOnce` and `HeadGone` say
  what `Push` and `Pop` do to a queue that holds each envelope once. Mutual
  exclusion is not used: the body of a critical section is one step.
* `HandoffImplemented`: `Spec => ImplementsHandoff`. `Push` is `Accept`,
  `PushThrows` `Refuse`, `Pop` `Take`, `Deliver` `Answer`, `AwaitReturns` `Return`;
  locks, sleeps and wake-ups are no steps of it.

`MultiLoopProofs`, for any number of transfers, any limit of connections, any
capacity of the wakeup pair and any size of a read (`SizesAssumption`):

* `SetsCorrect`, `NoStrandedCorrect` and `MessagesCorrect`, from `MInv`: the types,
  `NoStrandedPending`, `MessagesValid` and `Sets`, which is `SetsAgree` with every
  set read from the states and one cardinality in place of a sum. The interesting
  one is `NoStrandedPending`. `process_pending_handles` moves a single transfer,
  so the invariant cannot say that nobody waits for a free connection, only that
  somebody is about to ask for one; each way a turn can end (`CompleteKeepsMInv`,
  `TurnKeepsMInv`, `PendingKeepsMInv`) moves the next, or leaves the one that was
  moved dirty. `WokenSome` (a non-empty set of pending transfers has a first one)
  needs well-foundedness of the numbers.
* `NoSleepCorrect`, from `LoopInv`: what was submitted since the queue was found
  empty has its wake-up on the way or a byte in the pair, until the poll reads the
  pair. The poll does not sleep while a transfer is dirty, so with
  `NoStrandedPending` nobody is pending for a free connection.
* `StackImplemented`: `Spec => ImplementsStack`, from `QueueInv` (`Standing(t)`: a
  transfer that is idle or queued is off the stack and was never reported, and one
  that was reported once has no message left). `Progress` is what the loop can tell
  of any step inside curl_multi_perform, `TakenOff` of a removal, and `StepKinds`
  says that there are no other steps.

`CookieStoreProofs`, for any threads, URLs and cookies that satisfy the ASSUMEs of
`CookieStore` (hosts and paths are not empty, paths begin with a slash), and any
bounds:

* `TypeCorrect` needs the pure functions: a domain that `ResolveCookieDomain` or the
  documentation gives is one of those `Match` looks under (`ResolvedDomain`,
  `DocumentedUnder`), and what `ResolveCookiePath` cuts off is a directory
  (`LastSlashExists`).
* `ListsCorrect` and `ScopeCorrect`, from `StoreInv`, for threads that interleave in
  any way. A list is the list of one domain for good (`MapInv`), which matters
  because `Add` may hold one that a `Match` has dropped meanwhile (`AddInv`); what is
  in a list has no Domain attribute (`ListInv`); and so `Match` takes cookies from the
  list of the host alone, where it looks once (`MatchInv`). `PathMatchesDirectory`:
  the prefix `PathMatches` asks for and the documented directories are the same.
* `RememberedCorrect` and `SentCorrect`: `Remembered` and `CookiesSent`, under two
  hypotheses that the runs `cookies_race` and the [known limits](#known-limits) show
  to be needed: one sender (`OneSender`), and cookies with an absolute Path, without a
  Domain attribute and with at most one of Max-Age and Expires (`PlainCookies`). They come from
  `SerialInv`: Match and Add take turns (`TurnInv`); what should be in the store is
  there, but for the version that Add has taken out and not yet replaced
  (`KeptInv`); what is there and has not expired should be (`NothingElse`); what
  Match has still to purge is in the store and has expired, so a fresh cookie is
  never taken for it (`PurgeInv`); and Match has found everything once it has looked
  under the host (`FoundInv`): the cookies it has passed in the list it looks at, which nobody changes
  meanwhile, and all the lists before. `CookiesSent` is about the time `Match` began
  (`began`), for a cookie may lapse while it is at work. Cookies have an absolute
  Path, since for others the code and the documentation differ.

`SetCookieParserProofs`, for fields of any length:

* `ParsesCorrect`: `ParsesField`, from `ParserInv`, which says for each state of the
  parser where it is in the part it reads (`InPart`), that nothing before that part
  ends `Parse` (`Passed`), and what the builder has by then (`Collected`: of the
  attributes that begin before that part the last under each name). A part begins
  where the last one ended (`NextPart`) and is known by its beginning, so the
  invariant speaks of places in the field and not of what was cut out of it. `First`,
  a least number, takes the place of induction: it is what the parser has found when
  it has passed over everything before (`FirstIs`). `UnquotedValue`, `ClosedValue` and
  `NoValue` are the three forms of a value, and `CollectedNext` adds an attribute or
  removes it. That every quote is closed is used where a value ends: the flag
  `quoted` is false then.
* `TurnsBounded`: the safety half of `Parses`. `TurnsLeft`, at first two turns for
  each character and one to return or throw, is a natural number that every turn makes
  smaller, although the loop steps back. That the parser has a turn to take until it
  returns or throws is ENABLED, which the run checks.

Only model-checked: liveness (`EveryCallAnswered`, `SendReturns`,
`ShutdownReturns`, `AcceptedReturns`, `WorkersLeave`, `EverySubmissionReported`,
`ReadReturns`, `Parses`), which the provers cannot do under fairness. Every
invariant, action property and refinement that a passing run checks is a theorem,
`Remembered` and `CookiesSent` under the two hypotheses named above.

## Findings

Each is a run that TLC finds violated; PROJECT.json quotes the line that says
otherwise.

* `abandoned`: Shutdown during a call leaves `Send` waiting for ever. `Run` leaves
  its loop when `_running` is cleared and throws the rest away; no waiter is told.
* `freedhandle`: `Submit` calls `multiWakeup` with no lock held; between its test
  of `multiHandlePtr` and the call of curl, Shutdown may free the handle.
* `cookies_race`: `Match` removes by name, domain and path what it saw expired
  earlier, and so removes the fresh cookie that has replaced it.

## Known limits

What the code does, and the models with it, though one may not expect it. The
properties above are stated so that they are true in spite of these.

* `Run` reads `request._listener` after the waiter was told (`http.bmx:945`). An
  application that sends the same request again with `SendAsync` as soon as `Send`
  has returned may have its listener called with the result of `Send`.
* When `curl_easy_init` fails (`http.bmx:1006`), the listener runs while the request
  still has its previous response, or none.
* `IsSameOrSubDomain` (`http_cookie.bmx:853`) is never true of a cookie with a
  Domain attribute, so such a cookie is never stored.
* Expires is heeded although Max-Age is set and has not run out
  (`http_cookie.bmx:365`).
* A semicolon inside a quoted value ends it and leaves the parser's quoted flag
  set (`http_cookie.bmx:1006`), so that a quote in a later, unquoted value ends
  that one.
* The HTTPS reader doubles its buffer once for a chunk (`glue.c:38`), from 4096 bytes
  (`glue.c:61`), while curl hands over up to 16384 (`CURL_MAX_WRITE_SIZE`,
  `curl.h:266`): a longer chunk is written past the end of the buffer
  (`glue.c:49`). curl's own documentation of the callback says "you must not make any
  assumptions. It may be one byte, it may be thousands"
  (`libcurl/docs/libcurl/opts/CURLOPT_WRITEFUNCTION.md:43`). `InOrder`,
  `ImplementsStream` and `NeverOverrun` say how far the reader can be relied on.
* No time limit is set on the stream's handle (`httpsstream.bmx:49-66`,
  `glue.c:55-80`): a server that stalls keeps `Read` waiting for ever.
* `AsBoolean` throws for a flag with a value that is no boolean, as in
  `a=b; Secure=1` (`http_cookie.bmx:508`). The exception leaves `Parse`, `PutCookie`
  and `_HeaderRead`, a callback of curl's, on the client's thread. The parser's model
  has the throw; `HttpClient` does not, and does not say what becomes of the thread.
* An attribute named `MaxAge` and one named `Max-Age` are kept under the same name
  (`http_cookie.bmx:530`).
* A cookie without a Path is kept for the directory of the URL's path
  (`http_cookie.bmx:811`), while the documentation says "it defaults to the path of the
  current document URL" (`http_cookie.bmx:912`).
* `Match` reads a list by position while `Add` changes it (`http_cookie.bmx:654`): a
  cookie may be left out of a request, or go out in the version that was replaced and
  in the new one.
* Shutdown frees the multi handle under a caller that is about to wake it up (the run
  `freedhandle`); `SilentWhenDown` speaks of the client's own thread only.
* `TStreamContent.Rewind` (`http.bmx:1705`) does not look whether `Seek` has worked;
  the model takes a replayable stream for one on which it does.
* When a connection changed during a turn, curl may wake a pending transfer and turn
  once more for it at once (`multi.c:2733`); the model wakes it (`ConnChanged`) and
  runs it in the next curl_multi_perform.
* `Read` of no bytes sets the end of file, as does a transfer that failed:
  a reader cannot tell a body that was cut off from one that is complete.

## What is not modelled

* Third-party code (curl but for its multi interface, c-ares, mbedtls, libssh2,
  litehtml) and the thin wrappers `mbedtls.mod`, `libssh2.mod`, `html.mod`. It is
  all but a few thousand of the repository's lines: protocol and cipher
  implementations, tables and parsers, which the modules reach through
  the multi interface only. The models therefore cover a small share of the
  repository's lines and most of the lines of its own logic. Of
  `multi.c` the parts the modules never use are left out: the socket and
  event interface, push callbacks, `curl_multi_waitfds`, options.
* The request's header list, onto which `NormalizeReqest` puts a further Cookie
  field at each sending; the positions inside contents and the buffer of
  `TMemorySink`.
* The CA stores (`http_ca.bmx`): a search for files that exist.
* The text the builder makes of a date, and the formatting of cookies. Of
  `SetCookieParser` and `CookieStore` neither uses the other: the store's model takes
  cookies that are parsed.
* `http_url.bmx` wraps curl's URL parser; the models take a parsed URL.
* Redirects happen inside curl; that a hop's cookies and headers are treated as
  the request's own is in the list of hazards.
* The options `PrepareContext` sets on a handle (TLS, proxies, timeouts, user
  agent) are abstracted to whether the body is read.
* `THttpCookieStore.Remove`, `All` and `Clear` are called by nothing in the
  repository.
* What overlapping calls do to the memory of a list or a map: the cookie model
  makes each call on one atomic, and what it finds wrong is wrong even so.
* A listener that calls `Send` or `Shutdown`, or that lets the "closed" thrown by
  `Submit` escape, stops the client's thread. The model's listeners do not.
* Two `Start`s without a Shutdown in between.

## Plan

Done: `RetryPolicy`, `HttpExchange`, `HttpClient`, `HttpClientProofs`, `MinHeap`,
`MinHeapProofs`, `CookieScope`, `CookieStore`, `CookieStoreProofs`; `WaiterQueue` on
`Handoff`, `MultiLoop` (with `CurlMulti`) on `TransferStack`, `HttpsStream` on
`ByteStream`, `SetCookieParser` with `SetCookieField`; `WaiterQueueProofs`,
`HttpsStreamProofs`, `MultiLoopProofs` and `SetCookieParserProofs`.

Next, the most important behaviour first:

1. `RequestReuse`: a request object sent several times: the position of its
   content, the buffer of its sink, its header list, across retries and across
   sendings.
2. `CAStores`: the search of a provider over the files that exist.
