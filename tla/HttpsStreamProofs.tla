------------------------- MODULE HttpsStreamProofs -------------------------
(***************************************************************************)
(* The reader of an HTTPS stream hands out the body in order, whatever its *)
(* length, the size of the buffer, the chunks and the counts, until a      *)
(* chunk is written past the end of the buffer; how large a chunk must be  *)
(* for that; and that the reader implements ByteStream.                    *)
(***************************************************************************)
EXTENDS HttpsStream, SequenceTheorems, TLAPS

Bytes == 0 .. BodyLength

\* What else is known between two steps: no count is set
\* outside Read, a Read that copies has something to
\* copy or the transfer is over, a transfer is complete when all was sent, and the
\* buffer does not shrink.
Reading ==
  /\ pc = "idle" => count = 0
  /\ pc = "copy" => buffer # <<>> \/ transfer # "running"
  /\ transfer = "complete" => sent = BodyLength
  /\ size >= InitialSize

Inv == TypeOK /\ InOrder /\ Reading

\* The types of the constants.
LEMMA ConstantTypes ==
  /\ BodyLength \in Nat /\ InitialSize \in Nat /\ MaxChunk \in Nat
  /\ \A n \in Counts : n \in Nat
BY StreamAssumption

\* A chunk holds the next k bytes of the body.
LEMMA ChunkHolds ==
  ASSUME NEW k \in Nat, k > 0, sent \in Nat, sent + k <= BodyLength
  PROVE  /\ Chunk(k) \in Seq(Bytes) /\ Len(Chunk(k)) = k
         /\ \A i \in 1 .. k : Chunk(k)[i] = sent + i
<1>1. \A i \in 1 .. k : sent + i \in Bytes
  BY ConstantTypes DEF Bytes
<1>. QED
  BY <1>1 DEF Chunk

\* What the write callback is called with, and what it leaves of the history.
LEMMA ArrivesTypes ==
  ASSUME Inv, NEW k \in 1 .. MaxChunk, Arrives(k)
  PROVE  /\ k \in Nat /\ k > 0 /\ sent \in Nat /\ size \in Nat /\ longest \in Nat
         /\ Len(buffer) \in Nat /\ Len(got) \in Nat
         /\ pc = "perform" /\ transfer = "running"
         /\ sent + k <= BodyLength /\ sent' = sent + k /\ sent' \in 0 .. BodyLength
         /\ longest' \in 0 .. MaxChunk /\ longest' >= longest /\ longest' >= k
         /\ Len(got) + Len(buffer) = sent
<1>1. /\ k \in Nat /\ k > 0 /\ sent \in Nat /\ size \in Nat /\ longest \in 0 .. MaxChunk
      /\ Len(buffer) \in Nat /\ Len(got) \in Nat
  BY ConstantTypes DEF Inv, TypeOK
<1>2. /\ pc = "perform" /\ transfer = "running"
      /\ sent + k <= BodyLength /\ sent' = sent + k
      /\ longest' = IF longest >= k THEN longest ELSE k
  BY DEF Arrives, Larger
<1>3. sent' \in 0 .. BodyLength
  BY <1>1, <1>2, ConstantTypes
<1>4. longest' \in 0 .. MaxChunk /\ longest' >= longest /\ longest' >= k
  BY <1>1, <1>2, ConstantTypes
<1>5. Len(got) + Len(buffer) = sent
  BY <1>2 DEF Inv, InOrder, Accepted
<1>. QED
  BY <1>1, <1>2, <1>3, <1>4, <1>5

\* What Copy takes and leaves.
Taken == IF count < Len(buffer) THEN count ELSE Len(buffer)

\* Copy moves the first bytes of the buffer behind what was returned before.
LEMMA CopyMoves ==
  ASSUME got \in Seq(Bytes), buffer \in Seq(Bytes), count \in Nat
  PROVE  LET g == got \o SubSeq(buffer, 1, Taken)
             b == SubSeq(buffer, Taken + 1, Len(buffer))
         IN /\ Taken \in Nat /\ Taken <= Len(buffer)
            /\ g \in Seq(Bytes) /\ Len(g) = Len(got) + Taken
            /\ b \in Seq(Bytes) /\ Len(b) = Len(buffer) - Taken
            /\ \A i \in 1 .. Len(got) : g[i] = got[i]
            /\ \A i \in 1 .. Taken : g[Len(got) + i] = buffer[i]
            /\ \A i \in 1 .. Len(b) : b[i] = buffer[Taken + i]
<1>. DEFINE n == Taken
            l == Len(buffer)
            a == SubSeq(buffer, 1, n)
            b == SubSeq(buffer, n + 1, l)
            g == got \o a
<1>1. l \in Nat /\ n \in Nat /\ n <= l /\ \A i \in 1 .. l : buffer[i] \in Bytes
  BY DEF Taken
<1>. HIDE DEF n, l
<1>2. /\ a \in Seq(Bytes) /\ Len(a) = n
      /\ \A i \in 1 .. n : a[i] = buffer[i]
  <2>1. \A i \in 1 .. n : buffer[i] \in Bytes
    BY <1>1
  <2>. QED
    BY <1>1, <2>1, SubSeqProperties
<1>3. /\ b \in Seq(Bytes) /\ Len(b) = l - n
      /\ \A i \in 1 .. l - n : b[i] = buffer[n + i]
  <2>1. \A i \in n + 1 .. l : buffer[i] \in Bytes
    BY <1>1
  <2>. DEFINE m == n + 1
  <2>2. m \in Int /\ l \in Int /\ l - m + 1 = l - n /\ \A i \in 1 .. l - n : m + i - 1 = n + i
    BY <1>1
  <2>3. \A i \in m .. l : buffer[i] \in Bytes
    BY <2>1
  <2>4. b = SubSeq(buffer, m, l)
    OBVIOUS
  <2>. HIDE DEF b, m
  <2>5. /\ b \in Seq(Bytes) /\ Len(b) = IF m <= l THEN l - m + 1 ELSE 0
        /\ \A i \in 1 .. l - m + 1 : b[i] = buffer[m + i - 1]
    BY <2>2, <2>3, <2>4, SubSeqProperties
  <2>6. Len(b) = l - n
    BY <1>1, <2>2, <2>5 DEF m
  <2>. QED
    BY <2>2, <2>5, <2>6
<1>. HIDE DEF a, b
<1>4. /\ g \in Seq(Bytes) /\ Len(g) = Len(got) + n
      /\ \A i \in 1 .. Len(got) + n : g[i] = IF i <= Len(got) THEN got[i] ELSE a[i - Len(got)]
  BY <1>2, ConcatProperties
<1>. HIDE DEF g
<1>5. Len(got) \in Nat
  OBVIOUS
<1>6. \A i \in 1 .. Len(got) : g[i] = got[i]
  BY <1>1, <1>4, <1>5
<1>7. ASSUME NEW i \in 1 .. n PROVE g[Len(got) + i] = buffer[i]
  <2>1. Len(got) + i \in 1 .. Len(got) + n /\ ~(Len(got) + i <= Len(got))
    BY <1>1, <1>5
  <2>2. g[Len(got) + i] = a[Len(got) + i - Len(got)]
    BY <1>4, <2>1
  <2>3. Len(got) + i - Len(got) = i
    BY <1>5, <1>1
  <2>. QED
    BY <1>2, <2>2, <2>3
<1>8. \A i \in 1 .. Len(b) : b[i] = buffer[n + i]
  BY <1>3
<1>. QED
  BY <1>1, <1>3, <1>4, <1>6, <1>7, <1>8 DEF n, l, a, b, g

\* What a buffer holds to which c was appended.
LEMMA AppendedHolds ==
  ASSUME NEW c \in Seq(Bytes), buffer \in Seq(Bytes)
  PROVE  /\ buffer \o c \in Seq(Bytes) /\ Len(buffer \o c) = Len(buffer) + Len(c)
         /\ \A i \in 1 .. Len(buffer) + Len(c) :
              (buffer \o c)[i] = IF i <= Len(buffer) THEN buffer[i] ELSE c[i - Len(buffer)]
BY ConcatProperties

\* Init and each step keep what is known of the stream.
LEMMA InitInv == Init => Inv
<1>. SUFFICES ASSUME Init PROVE Inv
  OBVIOUS
<1>. USE ConstantTypes DEF Init
<1>1. TypeOK
  <2>1. <<>> \in Seq(0 .. BodyLength)
    BY EmptySeq
  <2>2. reader \in {"open", "none", "closed"}
    BY StreamAssumption
  <2>3. sent \in 0 .. BodyLength /\ size \in Nat /\ longest \in 0 .. MaxChunk
    OBVIOUS
  <2>4. isEOF \in BOOLEAN /\ overrun \in BOOLEAN
    OBVIOUS
  <2>5. /\ transfer \in {"running", "complete", "failed"}
        /\ pc \in {"idle", "perform", "copy", "aborted"} /\ count \in Counts \cup {0}
    OBVIOUS
  <2>. QED
    BY <2>1, <2>2, <2>3, <2>4, <2>5 DEF TypeOK
<1>2. InOrder
  BY DEF InOrder, Ordered, Accepted
<1>. QED
  BY <1>1, <1>2 DEF Inv, Reading

\* A chunk that fits is appended to the buffer.
LEMMA WriteKeepsInv ==
  ASSUME Inv, NEW k \in 1 .. MaxChunk, WriteCallback(k)
  PROVE  Inv'
<1>0. /\ Len(buffer) + k <= SizeFor(k) /\ size' = SizeFor(k)
      /\ buffer' = buffer \o Chunk(k)
      /\ UNCHANGED <<reader, transfer, overrun, pc, count, got, isEOF>>
      /\ Arrives(k)
  BY DEF WriteCallback
<1>1. /\ k \in Nat /\ k > 0 /\ sent \in Nat /\ size \in Nat /\ longest \in Nat
      /\ Len(buffer) \in Nat /\ Len(got) \in Nat
      /\ pc = "perform" /\ transfer = "running"
      /\ sent + k <= BodyLength /\ sent' = sent + k /\ sent' \in 0 .. BodyLength
      /\ longest' \in 0 .. MaxChunk /\ longest' >= longest /\ longest' >= k
      /\ Len(got) + Len(buffer) = sent
  BY <1>0, ArrivesTypes
<1>2. /\ Chunk(k) \in Seq(Bytes) /\ Len(Chunk(k)) = k
      /\ \A i \in 1 .. k : Chunk(k)[i] = sent + i
  BY <1>1, ChunkHolds
<1>3. buffer \in Seq(Bytes) /\ got \in Seq(Bytes)
  BY DEF Inv, TypeOK, Bytes
<1>4. /\ buffer' \in Seq(Bytes) /\ Len(buffer') = Len(buffer) + k
      /\ \A i \in 1 .. Len(buffer) + k :
           buffer'[i] = IF i <= Len(buffer) THEN buffer[i] ELSE Chunk(k)[i - Len(buffer)]
  BY <1>0, <1>2, <1>3, AppendedHolds
<1>5. ASSUME Ordered, NEW i \in 1 .. Len(buffer')
      PROVE  buffer'[i] = Len(got) + i
  <2>0. i \in 1 .. Len(buffer) + k
    BY <1>5, <1>4
  <2>1. CASE i <= Len(buffer)
    <3>1. i \in 1 .. Len(buffer) /\ buffer'[i] = buffer[i]
      BY <2>0, <2>1, <1>1, <1>4
    <3>. QED
      BY <1>5, <3>1 DEF Ordered
  <2>2. CASE i > Len(buffer)
    <3>1. i - Len(buffer) \in 1 .. k
      BY <2>0, <2>2, <1>1
    <3>2. buffer'[i] = Chunk(k)[i - Len(buffer)]
      BY <2>0, <2>2, <1>1, <1>4
    <3>3. Chunk(k)[i - Len(buffer)] = sent + (i - Len(buffer))
      BY <3>1, <1>2
    <3>4. sent + (i - Len(buffer)) = Len(got) + i
      BY <2>0, <1>1
    <3>. QED
      BY <3>2, <3>3, <3>4
  <2>. QED
    BY <2>0, <2>1, <2>2, <1>1
<1>6. size' \in Nat /\ size' >= size /\ Len(buffer) + k <= size'
  BY <1>0, <1>1 DEF SizeFor
<1>7. TypeOK'
  BY <1>0, <1>1, <1>4, <1>6 DEF Inv, TypeOK, Bytes
<1>8. InOrder'
  <2>1. Accepted' = sent'
    <3>1. Len(got') + Len(buffer') = Len(got) + (Len(buffer) + k)
      BY <1>0, <1>4
    <3>. QED
      BY <3>1, <1>1 DEF Accepted
  <2>2. sent' <= sent'
    BY <1>1
  <2>3. Ordered => Ordered'
    BY <1>0, <1>5 DEF Ordered
  <2>4. ~overrun' => Ordered' /\ Len(buffer') <= size'
    BY <1>0, <1>4, <1>6, <2>3 DEF Inv, InOrder
  <2>5. longest' <= InitialSize => ~overrun'
    BY <1>0, <1>1, ConstantTypes DEF Inv, InOrder
  <2>. QED
    BY <2>1, <2>2, <2>4, <2>5 DEF InOrder
<1>9. Reading'
  <2>1. size' >= InitialSize
    BY <1>1, <1>6, ConstantTypes DEF Inv, Reading
  <2>. QED
    BY <1>0, <1>1, <2>1 DEF Inv, Reading
<1>. QED
  BY <1>7, <1>8, <1>9 DEF Inv

\* A chunk that does not fit is longer than the buffer was at first, or one before
\* it was.
LEMMA OverrunKeepsInv ==
  ASSUME Inv, NEW k \in 1 .. MaxChunk, WriteCallbackOverruns(k)
  PROVE  /\ Inv'
         /\ overrun' = TRUE
<1>0. /\ Len(buffer) + k > SizeFor(k) /\ size' = SizeFor(k) /\ overrun' = TRUE
      /\ pc' \in {"perform", "aborted"}
      /\ UNCHANGED <<reader, transfer, count, got, isEOF>>
      /\ Arrives(k)
  BY DEF WriteCallbackOverruns
<1>1. /\ k \in Nat /\ k > 0 /\ sent \in Nat /\ size \in Nat /\ longest \in Nat
      /\ Len(buffer) \in Nat /\ Len(got) \in Nat
      /\ pc = "perform" /\ transfer = "running"
      /\ sent + k <= BodyLength /\ sent' = sent + k /\ sent' \in 0 .. BodyLength
      /\ longest' \in 0 .. MaxChunk /\ longest' >= longest /\ longest' >= k
      /\ Len(got) + Len(buffer) = sent
  BY <1>0, ArrivesTypes
<1>2. buffer' \in Seq(Bytes) /\ Len(buffer') = Len(buffer) + k
  <2>1. PICK spoilt \in SUBSET {i \in 1 .. k : Len(buffer) + i > SizeFor(k)} :
          buffer' = buffer \o [i \in 1 .. k |-> IF i \in spoilt THEN Foreign ELSE sent + i]
    BY DEF WriteCallbackOverruns
  <2>2. PICK c : c = [i \in 1 .. k |-> IF i \in spoilt THEN Foreign ELSE sent + i]
    OBVIOUS
  <2>3. \A i \in 1 .. k : (IF i \in spoilt THEN Foreign ELSE sent + i) \in Bytes
    BY <1>1, ConstantTypes DEF Bytes, Foreign
  <2>4. c \in Seq(Bytes) /\ Len(c) = k
    BY <1>1, <2>2, <2>3
  <2>5. buffer \in Seq(Bytes) /\ buffer' = buffer \o c
    BY <2>1, <2>2 DEF Inv, TypeOK, Bytes
  <2>. QED
    BY <2>4, <2>5, AppendedHolds
<1>3. size' \in Nat /\ size' >= size
  BY <1>0, <1>1 DEF SizeFor
<1>4. ~(longest' <= InitialSize)
  <2>. SUFFICES ASSUME longest' <= InitialSize PROVE FALSE
    OBVIOUS
  <2>1. longest <= InitialSize /\ k <= InitialSize
    BY <1>1, ConstantTypes
  <2>2. Len(buffer) <= size
    BY <2>1 DEF Inv, InOrder
  <2>3. k <= size
    BY <1>1, <2>1, ConstantTypes DEF Inv, Reading
  <2>. QED
    BY <1>0, <1>1, <2>2, <2>3 DEF SizeFor, Short
<1>5. TypeOK'
  BY <1>0, <1>1, <1>2, <1>3 DEF Inv, TypeOK, Bytes
<1>6. InOrder'
  <2>1. Len(got') + Len(buffer') = Len(got) + (Len(buffer) + k)
    BY <1>0, <1>2
  <2>2. Accepted' = sent' /\ sent' <= sent'
    BY <1>1, <2>1 DEF Accepted
  <2>. QED
    BY <1>0, <1>4, <2>2 DEF InOrder
<1>7. Reading'
  <2>1. size' >= InitialSize
    BY <1>1, <1>3, ConstantTypes DEF Inv, Reading
  <2>. QED
    BY <1>0, <1>1, <2>1 DEF Inv, Reading
<1>. QED
  BY <1>0, <1>5, <1>6, <1>7 DEF Inv

\* What Copy does, in the words of CopyMoves.
LEMMA CopyStep ==
  ASSUME Inv, Copy
  PROVE  /\ got \in Seq(Bytes) /\ buffer \in Seq(Bytes) /\ count \in Nat
         /\ Len(got) \in Nat /\ Len(buffer) \in Nat /\ sent \in Nat /\ size \in Nat
         /\ isEOF' = (isEOF \/ Taken = 0)
         /\ pc = "copy" /\ pc' = "idle" /\ count' = 0
         /\ UNCHANGED <<reader, transfer, sent, size, longest, overrun>>
         /\ Taken \in Nat /\ Taken <= Len(buffer)
         /\ got' \in Seq(Bytes) /\ Len(got') = Len(got) + Taken
         /\ buffer' \in Seq(Bytes) /\ Len(buffer') = Len(buffer) - Taken
         /\ \A i \in 1 .. Len(got) : got'[i] = got[i]
         /\ \A i \in 1 .. Taken : got'[Len(got) + i] = buffer[i]
         /\ \A i \in 1 .. Len(buffer') : buffer'[i] = buffer[Taken + i]
         /\ Taken = 0 /\ count > 0 => buffer = <<>> /\ buffer' = <<>>
<1>1. /\ got \in Seq(Bytes) /\ buffer \in Seq(Bytes) /\ count \in Nat
      /\ Len(got) \in Nat /\ Len(buffer) \in Nat /\ sent \in Nat /\ size \in Nat
  BY ConstantTypes DEF Inv, TypeOK, Bytes
<1>2. /\ got' = got \o SubSeq(buffer, 1, Taken)
      /\ buffer' = SubSeq(buffer, Taken + 1, Len(buffer))
      /\ isEOF' = (isEOF \/ Taken = 0)
      /\ pc = "copy" /\ pc' = "idle" /\ count' = 0
      /\ UNCHANGED <<reader, transfer, sent, size, longest, overrun>>
  BY DEF Copy, Taken
<1>3. /\ Taken \in Nat /\ Taken <= Len(buffer)
      /\ got' \in Seq(Bytes) /\ Len(got') = Len(got) + Taken
      /\ buffer' \in Seq(Bytes) /\ Len(buffer') = Len(buffer) - Taken
      /\ \A i \in 1 .. Len(got) : got'[i] = got[i]
      /\ \A i \in 1 .. Taken : got'[Len(got) + i] = buffer[i]
      /\ \A i \in 1 .. Len(buffer') : buffer'[i] = buffer[Taken + i]
  BY <1>1, <1>2, CopyMoves
<1>4. Taken = 0 /\ count > 0 => Len(buffer) = 0
  BY <1>1 DEF Taken
<1>5. Taken = 0 /\ count > 0 => buffer = <<>> /\ buffer' = <<>>
  <2>. SUFFICES ASSUME Taken = 0, count > 0 PROVE buffer = <<>> /\ buffer' = <<>>
    OBVIOUS
  <2>1. Len(buffer) = 0 /\ Len(buffer') = 0
    BY <1>3, <1>4
  <2>. QED
    BY <2>1, <1>1, <1>3
<1>. QED
  BY <1>1, <1>2, <1>3, <1>5

\* Copy returns the beginning of the buffer.
LEMMA CopyKeepsInv ==
  ASSUME Inv, Copy
  PROVE  Inv'
<1>. DEFINE n == Taken
<1>1. /\ Len(got) \in Nat /\ Len(buffer) \in Nat /\ sent \in Nat /\ size \in Nat
      /\ pc = "copy" /\ pc' = "idle" /\ count' = 0
      /\ UNCHANGED <<reader, transfer, sent, size, longest, overrun>>
      /\ isEOF' = (isEOF \/ n = 0)
  BY CopyStep
<1>2. /\ n \in Nat /\ n <= Len(buffer)
      /\ got' \in Seq(Bytes) /\ Len(got') = Len(got) + n
      /\ buffer' \in Seq(Bytes) /\ Len(buffer') = Len(buffer) - n
      /\ \A i \in 1 .. Len(got) : got'[i] = got[i]
      /\ \A i \in 1 .. n : got'[Len(got) + i] = buffer[i]
      /\ \A i \in 1 .. Len(buffer') : buffer'[i] = buffer[n + i]
  BY CopyStep
<1>. HIDE DEF n
<1>3. TypeOK'
  BY <1>1, <1>2 DEF Inv, TypeOK, Bytes
<1>4. InOrder'
  <2>1. ASSUME Ordered, NEW i \in 1 .. Len(got') PROVE got'[i] = i
    <3>1. CASE i <= Len(got)
      <4>1. i \in 1 .. Len(got)
        BY <3>1, <2>1, <1>1, <1>2
      <4>. QED
        BY <2>1, <4>1, <1>2 DEF Ordered
    <3>2. CASE i > Len(got)
      <4>1. i - Len(got) \in 1 .. n /\ i - Len(got) \in 1 .. Len(buffer)
        BY <3>2, <2>1, <1>1, <1>2
      <4>2. got'[Len(got) + (i - Len(got))] = buffer[i - Len(got)]
        BY <4>1, <1>2
      <4>3. buffer[i - Len(got)] = Len(got) + (i - Len(got))
        BY <2>1, <4>1 DEF Ordered
      <4>4. Len(got) + (i - Len(got)) = i
        BY <1>1, <1>2
      <4>. QED
        BY <4>2, <4>3, <4>4
    <3>. QED
      BY <3>1, <3>2, <1>1, <1>2
  <2>2. ASSUME Ordered, NEW i \in 1 .. Len(buffer') PROVE buffer'[i] = Len(got') + i
    <3>1. n + i \in 1 .. Len(buffer)
      BY <2>2, <1>1, <1>2
    <3>2. buffer'[i] = Len(got) + (n + i)
      BY <2>2, <3>1, <1>2 DEF Ordered
    <3>. QED
      BY <3>2, <1>1, <1>2
  <2>3. Accepted' = Accepted
    BY <1>1, <1>2 DEF Accepted
  <2>4. Ordered => Ordered'
    BY <2>1, <2>2 DEF Ordered
  <2>5. ~overrun' => Ordered' /\ Len(buffer') <= size'
    BY <1>1, <1>2, <2>4 DEF Inv, InOrder
  <2>. QED
    BY <2>3, <2>5, <1>1 DEF Inv, InOrder
<1>5. Reading'
  BY <1>1 DEF Inv, Reading
<1>. QED
  BY <1>3, <1>4, <1>5 DEF Inv

\* Init and every step keep Inv.
LEMMA StepKeepsInv == Inv /\ [Next]_vars => Inv'
<1>. SUFFICES ASSUME Inv, [Next]_vars PROVE Inv'
  OBVIOUS
<1>. USE DEF Inv
<1>1. CASE ReadNoReader \/ UNCHANGED vars
  <2>1. UNCHANGED <<reader, transfer, sent, buffer, size, longest, overrun, pc, count, got, isEOF>>
    BY <1>1 DEF ReadNoReader, vars, readerVars
  <2>. QED
    BY <2>1 DEF TypeOK, InOrder, Ordered, Accepted, Reading
<1>2. CASE Read
  <2>1. UNCHANGED <<reader, transfer, sent, buffer, size, longest, overrun, got, isEOF>>
    BY <1>2 DEF Read, readerVars
  <2>2. count' \in Counts /\ pc' = IF buffer = <<>> THEN "perform" ELSE "copy"
    BY <1>2 DEF Read
  <2>. QED
    BY <2>1, <2>2 DEF TypeOK, InOrder, Ordered, Accepted, Reading
<1>3. CASE TransferEnds
  <2>1. UNCHANGED <<reader, sent, buffer, size, longest, overrun, pc, count, got, isEOF>>
    BY <1>3 DEF TransferEnds
  <2>2. /\ pc = "perform" /\ transfer = "running" /\ transfer' \in {"complete", "failed"}
        /\ transfer' = "complete" => sent = BodyLength
    BY <1>3 DEF TransferEnds
  <2>3. TypeOK' /\ InOrder'
    BY <2>1, <2>2 DEF TypeOK, InOrder, Ordered, Accepted
  <2>4. Reading'
    BY <2>1, <2>2 DEF Reading
  <2>. QED
    BY <2>3, <2>4
<1>4. ASSUME NEW k \in 1 .. MaxChunk, WriteCallback(k) PROVE Inv'
  BY <1>4, WriteKeepsInv
<1>5. ASSUME NEW k \in 1 .. MaxChunk, WriteCallbackOverruns(k) PROVE Inv'
  BY <1>5, OverrunKeepsInv
<1>6. ASSUME NEW k \in 1 .. MaxChunk, WriteCallbackFails(k) PROVE Inv'
  <2>1. /\ UNCHANGED <<reader, buffer, size, overrun, pc, count, got, isEOF>>
        /\ transfer' = "failed" /\ Arrives(k)
    BY <1>6 DEF WriteCallbackFails
  <2>2. /\ pc = "perform" /\ sent \in Nat /\ sent' \in 0 .. BodyLength /\ k \in Nat
        /\ sent' = sent + k /\ Len(got) + Len(buffer) = sent
        /\ longest \in Nat /\ longest' \in 0 .. MaxChunk /\ longest' >= longest
    BY <2>1, ArrivesTypes
  <2>3. TypeOK'
    BY <2>1, <2>2 DEF TypeOK
  <2>4. InOrder'
    <3>1. longest' <= InitialSize => ~overrun'
      BY <2>1, <2>2, ConstantTypes DEF InOrder
    <3>2. Accepted' = sent /\ sent <= sent'
      BY <2>1, <2>2 DEF Accepted
    <3>3. ~overrun' => Ordered' /\ Len(buffer') <= size'
      BY <2>1 DEF InOrder, Ordered
    <3>. QED
      BY <2>1, <3>1, <3>2, <3>3 DEF InOrder
  <2>5. Reading'
    BY <2>1, <2>2 DEF Reading
  <2>. QED
    BY <2>3, <2>4, <2>5
<1>7. CASE PerformLoopEnds
  BY <1>7 DEF PerformLoopEnds, readerVars, TypeOK, InOrder, Ordered, Accepted, Reading
<1>8. CASE PerformFails
  BY <1>8 DEF PerformFails, readerVars, TypeOK, InOrder, Ordered, Accepted, Reading
<1>9. CASE Copy
  BY <1>9, CopyKeepsInv
<1>10. CASE Close
  BY <1>10 DEF Close, TypeOK, InOrder, Ordered, Accepted, Reading
<1>. QED
  BY <1>1, <1>2, <1>3, <1>4, <1>5, <1>6, <1>7, <1>8, <1>9, <1>10 DEF Next, Network

\* The reader keeps its invariant.
LEMMA InvCorrect == Spec => []Inv
BY InitInv, StepKeepsInv, PTL DEF Spec

\* The bytes come in order, each once, through a buffer of any size that grows,
\* until a chunk is written past its end, which a chunk no longer than the buffer
\* was at first never is: the write callback and Read of glue.c together.
THEOREM InOrderCorrect == Spec => []InOrder
<1>1. Inv => InOrder
  BY DEF Inv
<1>. QED
  BY <1>1, InvCorrect, PTL

\* Nothing is ever written past the end of a buffer that holds the longest chunk
\* from the start.
THEOREM NeverOverrun ==
  ASSUME MaxChunk <= InitialSize
  PROVE  Spec => [](overrun = FALSE)
<1>1. Inv => overrun = FALSE
  <2>. SUFFICES ASSUME Inv PROVE overrun = FALSE
    OBVIOUS
  <2>1. longest <= InitialSize
    BY ConstantTypes DEF Inv, TypeOK
  <2>. QED
    BY <2>1 DEF Inv, InOrder, TypeOK
<1>. QED
  BY <1>1, InvCorrect, PTL

\* A read of at least one byte tells the end only when the transfer is over and
\* all was read.
THEOREM EofCorrect == Spec => EofIsEnd
<1>1. ASSUME Inv, [Next]_vars
      PROVE  [isEOF' # isEOF /\ count > 0 =>
                /\ transfer # "running" /\ buffer' = <<>>
                /\ transfer = "complete" => Len(got') = BodyLength]_vars
  <2>1. CASE Copy
    <3>. SUFFICES ASSUME isEOF' # isEOF, count > 0
                  PROVE  /\ transfer # "running" /\ buffer' = <<>>
                         /\ transfer = "complete" => Len(got') = BodyLength
      OBVIOUS
    <3>1. /\ isEOF' = (isEOF \/ Taken = 0) /\ pc = "copy"
          /\ Len(got) \in Nat /\ Len(got') = Len(got) + Taken
          /\ Taken = 0 => buffer = <<>> /\ buffer' = <<>>
      BY <1>1, <2>1, CopyStep
    <3>2. Taken = 0
      <4>1. isEOF \in BOOLEAN
        BY <1>1 DEF Inv, TypeOK
      <4>2. (isEOF \/ Taken = 0) # isEOF
        BY <3>1
      <4>. QED
        BY <4>1, <4>2, Zenon
    <3>3. transfer # "running" /\ buffer = <<>> /\ buffer' = <<>>
      BY <1>1, <3>1, <3>2 DEF Inv, Reading
    <3>4. transfer = "complete" => Len(got') = BodyLength
      <4>1. Len(buffer) = 0 /\ Len(got') = Len(got)
        BY <3>1, <3>2, <3>3
      <4>2. transfer = "complete" => Len(got) + Len(buffer) = BodyLength
        BY <1>1 DEF Inv, Reading, InOrder, Accepted
      <4>. QED
        BY <3>1, <4>1, <4>2
    <3>. QED
      BY <3>3, <3>4
  <2>2. CASE UNCHANGED vars
    BY <2>2
  <2>3. CASE ~Copy /\ ~UNCHANGED vars
    <3>1. UNCHANGED isEOF
      BY <1>1, <2>3 DEF Next, Network, ReadNoReader, vars, Read, TransferEnds, WriteCallback,
        WriteCallbackOverruns, WriteCallbackFails, PerformLoopEnds, PerformFails, Close
    <3>. QED
      BY <3>1
  <2>. QED
    BY <2>1, <2>2, <2>3
<1>. QED
  BY <1>1, InvCorrect, PTL DEF Spec, EofIsEnd

\* A chunk that fits, and one that was refused, are steps of a ByteStream that
\* works.
LEMMA CallbackImplements ==
  ASSUME Inv, overrun = FALSE, NEW k \in 1 .. MaxChunk,
         WriteCallback(k) \/ WriteCallbackFails(k)
  PROVE  Stream!Works
<1>1. Accepted \in Nat /\ Len(got) \in Nat /\ Len(buffer) \in Nat
  BY DEF Inv, TypeOK, Accepted
<1>2. CASE WriteCallback(k)
  <2>1. /\ buffer' = buffer \o Chunk(k) /\ Arrives(k)
        /\ UNCHANGED <<transfer, overrun, count, got, isEOF>>
    BY <1>2 DEF WriteCallback
  <2>2. /\ k \in Nat /\ k > 0 /\ sent \in Nat /\ sent + k <= BodyLength
        /\ transfer = "running"
    BY <2>1, ArrivesTypes
  <2>3. Chunk(k) \in Seq(Bytes) /\ Len(Chunk(k)) = k
    BY <2>2, ChunkHolds
  <2>4. buffer \in Seq(Bytes)
    BY DEF Inv, TypeOK, Bytes
  <2>5. Len(buffer') = Len(buffer) + k
    BY <2>1, <2>3, <2>4, AppendedHolds
  <2>6. Accepted' \in Nat /\ Accepted' > Accepted
    BY <1>1, <2>1, <2>2, <2>5 DEF Accepted
  <2>. QED
    BY <2>1, <2>2, <2>6 DEF Stream!Works, Stream!Grow
<1>3. CASE WriteCallbackFails(k)
  <2>1. /\ UNCHANGED <<overrun, buffer, count, got, isEOF>>
        /\ transfer = "running" /\ transfer' = "failed"
    BY <1>3 DEF WriteCallbackFails, Arrives
  <2>. QED
    BY <2>1 DEF Stream!Works, Stream!End, Accepted
<1>. QED
  BY <1>2, <1>3

\* Copy hands out bytes, tells the end, or does what a read of nothing does.
LEMMA CopyImplements ==
  ASSUME Inv, overrun = FALSE, Copy
  PROVE  Stream!Works
<1>1. /\ count \in Nat /\ Len(got) \in Nat /\ Len(buffer) \in Nat
      /\ isEOF' = (isEOF \/ Taken = 0)
      /\ pc = "copy" /\ count' = 0 /\ UNCHANGED <<transfer, overrun>>
      /\ Taken \in Nat /\ Taken <= Len(buffer)
      /\ Len(got') = Len(got) + Taken /\ Len(buffer') = Len(buffer) - Taken
      /\ Taken = 0 /\ count > 0 => buffer = <<>>
  BY CopyStep
<1>2. UNCHANGED Accepted
  BY <1>1 DEF Accepted
<1>3. CASE count = 0
  <2>1. Taken = 0
    BY <1>1, <1>3 DEF Taken
  <2>2. isEOF' = TRUE
    BY <1>1, <2>1
  <2>3. Len(got') = Len(got)
    BY <1>1, <2>1
  <2>. QED
    BY <1>1, <1>2, <1>3, <2>2, <2>3 DEF Stream!Works, Stream!ReadNothing
<1>4. CASE count > 0 /\ Taken = 0
  <2>1. buffer = <<>> /\ Len(buffer) = 0
    BY <1>1, <1>4
  <2>2. transfer # "running" /\ Accepted = Len(got) /\ Len(got') = Len(got)
    BY <1>1, <1>4, <2>1 DEF Inv, Reading, Accepted
  <2>. QED
    BY <1>1, <1>2, <1>4, <2>2 DEF Stream!Works, Stream!TellEnd
<1>5. CASE count > 0 /\ Taken # 0
  <2>1. Len(got') \in Len(got) + 1 .. Accepted
    BY <1>1, <1>5 DEF Accepted
  <2>2. Len(got') - Len(got) <= count
    <3>1. Taken <= count
      BY <1>1 DEF Taken
    <3>. QED
      BY <1>1, <3>1
  <2>3. UNCHANGED isEOF
    BY <1>1, <1>5 DEF Inv, TypeOK
  <2>. QED
    BY <1>1, <1>2, <1>5, <2>1, <2>2, <2>3 DEF Stream!Works, Stream!Take
<1>. QED
  BY <1>1, <1>3, <1>4, <1>5

\* Every step of the reader is a step of ByteStream or none.
THEOREM StreamImplemented == Spec => ImplementsStream
<1>1. Init => Stream!Init
  BY DEF Init, Stream!Init, Accepted
<1>2. ASSUME Inv, [Next]_vars
      PROVE  [Stream!Next]_(Stream!vars)
  <2>1. CASE overrun = TRUE
    <3>1. overrun' = TRUE
      BY <1>2, <2>1 DEF Next, Network, ReadNoReader, vars, readerVars, Read, TransferEnds,
        WriteCallback, WriteCallbackOverruns, WriteCallbackFails, PerformLoopEnds,
        PerformFails, Copy, Close
    <3>. QED
      BY <3>1 DEF Stream!Next
  <2>2. CASE overrun = FALSE
    <3>1. CASE UNCHANGED vars
      BY <3>1 DEF vars, readerVars, Stream!vars, Accepted
    <3>2. CASE ReadNoReader
      BY <3>2 DEF ReadNoReader, vars, readerVars, Stream!vars, Accepted
    <3>3. CASE Read
      <4>1. /\ UNCHANGED <<transfer, overrun, got, buffer, isEOF>>
            /\ count' \in Nat /\ count \in Nat
        BY <1>2, <3>3, ConstantTypes DEF Read, readerVars, Inv, TypeOK
      <4>2. CASE count = 0
        BY <2>2, <4>1, <4>2 DEF Stream!Next, Stream!Works, Stream!Ask, Accepted
      <4>3. CASE count # 0
        BY <1>2, <3>3, <4>3 DEF Inv, Reading, Read
      <4>. QED
        BY <4>2, <4>3
    <3>4. CASE TransferEnds
      BY <2>2, <3>4 DEF TransferEnds, Stream!Next, Stream!Works, Stream!End, Accepted
    <3>5. ASSUME NEW k \in 1 .. MaxChunk, WriteCallback(k) \/ WriteCallbackFails(k)
          PROVE  Stream!Next
      BY <1>2, <2>2, <3>5, CallbackImplements DEF Stream!Next
    <3>6. ASSUME NEW k \in 1 .. MaxChunk, WriteCallbackOverruns(k)
          PROVE  Stream!Next
      BY <1>2, <3>6, OverrunKeepsInv DEF Stream!Next
    <3>7. CASE PerformLoopEnds \/ Close
      BY <3>7 DEF PerformLoopEnds, Close, readerVars, Stream!vars, Accepted
    <3>8. CASE PerformFails
      <4>1. /\ UNCHANGED <<transfer, overrun, got, buffer, isEOF>>
            /\ count' = 0 /\ count \in Nat
        BY <1>2, <3>8, ConstantTypes DEF PerformFails, readerVars, Inv, TypeOK
      <4>2. CASE count = 0
        BY <4>1, <4>2 DEF Stream!vars, Accepted
      <4>3. CASE count > 0
        BY <2>2, <4>1, <4>3 DEF Stream!Next, Stream!Works, Stream!GiveUp, Accepted
      <4>. QED
        BY <4>1, <4>2, <4>3
    <3>9. CASE Copy
      BY <1>2, <2>2, <3>9, CopyImplements DEF Stream!Next
    <3>. QED
      BY <1>2, <3>1, <3>2, <3>3, <3>4, <3>5, <3>6, <3>7, <3>8, <3>9 DEF Next, Network
  <2>. QED
    BY <1>2, <2>1, <2>2 DEF Inv, TypeOK
<1>. QED
  BY <1>1, <1>2, InvCorrect, PTL DEF Spec, ImplementsStream, Stream!Spec
=============================================================================
