---------------------------- MODULE HttpsStream ----------------------------
(***************************************************************************)
(* TCurlStream of httpsstream.bmx and the reader behind it in glue.c: a    *)
(* transfer with a multi handle of its own, whose body the write callback  *)
(* puts into a buffer that grows, and Read, which lets curl work only when *)
(* that buffer is empty, and then until the transfer is over.              *)
(*                                                                         *)
(* A byte of the body is named by its position.  Curl, the server and      *)
(* realloc are external: the body comes in chunks of any length up to      *)
(* MaxChunk, the transfer may fail at any point, and so may a call of      *)
(* curl_multi_perform or of realloc.                                       *)
(*                                                                         *)
(* The write callback makes the buffer larger once and does not look       *)
(* whether that is enough.  A chunk that is longer still is written past   *)
(* the end of the buffer, and C leaves open what comes of it: the program  *)
(* stops, or goes on with the bytes past the end as they were written or   *)
(* with others.                                                            *)
(***************************************************************************)
EXTENDS Naturals, Sequences

CONSTANTS
  BodyLength,
  InitialSize, \* buffer_size at first, 4096 in the code
  MaxChunk,    \* the longest chunk curl hands to the write callback, 16384
  Counts,      \* the counts Read is called with
  MayFail      \* whether reader_init, realloc and curl_multi_perform may fail

ASSUME StreamAssumption ==
  /\ BodyLength \in Nat
  /\ InitialSize \in Nat
  /\ MaxChunk \in Nat
  /\ Counts \subseteq Nat
  /\ MayFail \in BOOLEAN

VARIABLES
  reader,   \* curlReaderPtr: "open", "none" when it is Null, or "closed"
  transfer, \* "running", "complete" or "failed"
  sent,     \* how many bytes of the body the server has sent
  buffer,   \* what buffer holds, up to buffer_offset
  size,     \* buffer_size
  pc,       \* where Read is
  count,    \* its argument
  got,      \* what the reads have returned, in order
  isEOF,
  longest,  \* history: the length of the longest chunk so far
  overrun   \* history: whether a chunk was written past the end of the buffer

readerVars == <<reader, transfer, sent, buffer, size, longest, overrun>>
vars == <<readerVars, pc, count, got, isEOF>>

\* What is found where a byte of the body was overwritten.
Foreign == 0

TypeOK ==
  /\ reader \in {"open", "none", "closed"}
  /\ transfer \in {"running", "complete", "failed"}
  /\ sent \in 0 .. BodyLength
  /\ buffer \in Seq(0 .. BodyLength)
  /\ size \in Nat
  /\ pc \in {"idle", "perform", "copy", "aborted"}
  /\ count \in Counts \cup {0}
  /\ got \in Seq(0 .. BodyLength)
  /\ isEOF \in BOOLEAN
  /\ longest \in 0 .. MaxChunk
  /\ overrun \in BOOLEAN

\* bmx_hstream_curl_reader_init.
Init ==
  /\ reader \in IF MayFail THEN {"open", "none"} ELSE {"open"}
  /\ transfer = "running" /\ sent = 0
  /\ buffer = <<>> /\ size = InitialSize
  /\ longest = 0 /\ overrun = FALSE
  /\ pc = "idle" /\ count = 0 /\ got = <<>> /\ isEOF = FALSE

----------------------------------------------------------------------------
\* Read of a stream that has no reader returns -1.
ReadNoReader == pc = "idle" /\ reader = "none" /\ UNCHANGED vars

\* Read: curl works only when there is nothing in the buffer.
Read ==
  /\ pc = "idle" /\ reader = "open"
  /\ count' \in Counts
  /\ pc' = IF buffer = <<>> THEN "perform" ELSE "copy"
  /\ UNCHANGED <<readerVars, got, isEOF>>

Chunk(k) == [i \in 1 .. k |-> sent + i]

\* size - offset of two size_t: past the end of the buffer it wraps round to a
\* number that no chunk is longer than.
Short(k) == Len(buffer) <= size /\ size - Len(buffer) < k

\* Mutant: the buffer is not made larger.
NotGrown(k) == size

\* The buffer is doubled, once, when less than k bytes of it are free.
SizeFor(k) == IF Short(k) THEN 2 * size ELSE size

Larger(a, b) == IF a >= b THEN a ELSE b

\* Curl hands over the next k bytes of the body.
Arrives(k) ==
  /\ pc = "perform" /\ transfer = "running" /\ sent + k <= BodyLength
  /\ sent' = sent + k
  /\ longest' = Larger(longest, k)

\* Mutant: a chunk that makes the buffer grow replaces what was in it.
GrownAfresh(k) ==
  /\ Arrives(k)
  /\ Len(buffer) + k <= SizeFor(k)
  /\ size' = SizeFor(k)
  /\ buffer' = IF Short(k) THEN Chunk(k) ELSE buffer \o Chunk(k)
  /\ UNCHANGED <<reader, transfer, overrun, pc, count, got, isEOF>>

\* curl_multi_perform hands a chunk to the write callback, and it fits.
WriteCallback(k) ==
  /\ Arrives(k)
  /\ Len(buffer) + k <= SizeFor(k)
  /\ size' = SizeFor(k)
  /\ buffer' = buffer \o Chunk(k)
  /\ UNCHANGED <<reader, transfer, overrun, pc, count, got, isEOF>>

\* It does not fit and is copied all the same.
WriteCallbackOverruns(k) ==
  /\ Arrives(k)
  /\ Len(buffer) + k > SizeFor(k)
  /\ size' = SizeFor(k)
  /\ overrun' = TRUE
  /\ \E spoilt \in SUBSET {i \in 1 .. k : Len(buffer) + i > SizeFor(k)} :
       buffer' = buffer \o [i \in 1 .. k |-> IF i \in spoilt THEN Foreign ELSE sent + i]
  /\ pc' \in {"perform", "aborted"}
  /\ UNCHANGED <<reader, transfer, count, got, isEOF>>

\* realloc fails, and with it the transfer.
WriteCallbackFails(k) ==
  /\ MayFail
  /\ Arrives(k)
  /\ Short(k)
  /\ transfer' = "failed"
  /\ UNCHANGED <<reader, buffer, size, overrun, pc, count, got, isEOF>>

TransferEnds ==
  /\ pc = "perform" /\ transfer = "running"
  /\ transfer' \in IF sent = BodyLength THEN {"complete", "failed"} ELSE {"failed"}
  /\ UNCHANGED <<reader, sent, buffer, size, longest, overrun, pc, count, got, isEOF>>

\* Mutant: the loop goes on until the transfer is complete.
LoopsUntilComplete ==
  /\ pc = "perform" /\ transfer = "complete"
  /\ pc' = "copy"
  /\ UNCHANGED <<readerVars, count, got, isEOF>>

\* The loop ends: no transfer is running, or its message was read.
PerformLoopEnds ==
  /\ pc = "perform" /\ transfer # "running"
  /\ pc' = "copy"
  /\ UNCHANGED <<readerVars, count, got, isEOF>>

\* curl_multi_perform reports an error and Read returns -1.
PerformFails ==
  /\ MayFail
  /\ pc = "perform"
  /\ pc' = "idle" /\ count' = 0
  /\ UNCHANGED <<readerVars, got, isEOF>>

\* Mutant: the loop is left after one call of curl_multi_perform.
CopyEarly ==
  /\ pc \in {"perform", "copy"}
  /\ LET n == IF count < Len(buffer) THEN count ELSE Len(buffer) IN
       /\ got' = got \o SubSeq(buffer, 1, n)
       /\ buffer' = SubSeq(buffer, n + 1, Len(buffer))
       /\ isEOF' = (isEOF \/ n = 0)
  /\ pc' = "idle" /\ count' = 0
  /\ UNCHANGED <<reader, transfer, sent, size, longest, overrun>>

\* Read returns what the buffer holds, count bytes at most; nothing is the end.
Copy ==
  /\ pc = "copy"
  /\ LET n == IF count < Len(buffer) THEN count ELSE Len(buffer) IN
       /\ got' = got \o SubSeq(buffer, 1, n)
       /\ buffer' = SubSeq(buffer, n + 1, Len(buffer))
       /\ isEOF' = (isEOF \/ n = 0)
  /\ pc' = "idle" /\ count' = 0
  /\ UNCHANGED <<reader, transfer, sent, size, longest, overrun>>

\* Close, which takes the handle off and frees the buffer.
Close ==
  /\ pc = "idle" /\ reader = "open"
  /\ reader' = "closed"
  /\ UNCHANGED <<transfer, sent, buffer, size, longest, overrun, pc, count, got, isEOF>>

Network ==
  \/ TransferEnds
  \/ \E k \in 1 .. MaxChunk :
       WriteCallback(k) \/ WriteCallbackOverruns(k) \/ WriteCallbackFails(k)

Next ==
  \/ ReadNoReader \/ Read \/ Network \/ PerformLoopEnds \/ PerformFails \/ Copy
  \/ Close

Spec == Init /\ [][Next]_vars

\* A thread inside Read goes on.  Nothing is asked of the network, on which no
\* time limit is set, nor of those who read and close.
Fairness == WF_vars(PerformLoopEnds) /\ WF_vars(Copy)

FairSpec == Spec /\ Fairness

----------------------------------------------------------------------------
(* Properties.                                                             *)

\* The bytes the write callback has taken in: all that was sent, or, when it
\* could not make room, all before the chunk that failed the transfer.
Accepted == Len(got) + Len(buffer)

\* What the reads have returned and the buffer still holds is, in this order,
\* the beginning of the body, without a gap or a byte twice.
Ordered ==
  /\ \A i \in 1 .. Len(got) : got[i] = i
  /\ \A i \in 1 .. Len(buffer) : buffer[i] = Len(got) + i

\* The bytes come in order, as long as the transfer lasts and after it, unless a
\* chunk was written past the end of the buffer; and that never happens while
\* no chunk is longer than the buffer was at first, however much of what came
\* before is still to be read.
InOrder ==
  /\ ~overrun => Ordered /\ Len(buffer) <= size
  /\ longest <= InitialSize => ~overrun
  /\ Accepted <= sent
  /\ transfer # "failed" => Accepted = sent

\* A read of at least one byte tells Eof only when the transfer is over and
\* everything was read; if the transfer did not fail, that is the whole body.
EofIsEnd ==
  [][isEOF' # isEOF /\ count > 0 =>
       /\ transfer # "running" /\ buffer' = <<>>
       /\ transfer = "complete" => Len(got') = BodyLength]_vars

\* Read returns when it has something to copy or the transfer is over, in
\* whichever way it ended.
ReadReturns ==
  pc = "copy" \/ (pc = "perform" /\ transfer # "running") ~> pc = "idle"

Stream == INSTANCE ByteStream WITH
  available <- Accepted, ended <- transfer # "running", taken <- Len(got),
  asked <- count, eof <- isEOF, broken <- overrun

\* The reader implements ByteStream, which promises nothing once a chunk was
\* written past the end of the buffer.
ImplementsStream == Stream!Spec
=============================================================================
