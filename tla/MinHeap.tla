------------------------------ MODULE MinHeap ------------------------------
(***************************************************************************)
(* TMinHeap of http.bmx with TTimeComparator: the retry queue, which holds *)
(* envelopes in the order of the time of their next attempt.  One thread   *)
(* uses it; a step is the change a call makes before it sifts, or a turn   *)
(* of the loop of _SiftUp or _SiftDown.                                    *)
(*                                                                         *)
(* Positions are counted from 1, so that the parent of i is i \div 2.      *)
(***************************************************************************)
EXTENDS Integers, Sequences, FiniteSets

CONSTANTS Envelopes,
          Times,  \* the milliseconds an attempt may be due at
          Half    \* an Int holds -Half .. Half - 1: 2 ^ 31 in the program

ASSUME TimesAssumption == Times \subseteq Int
ASSUME HalfAssumption == Half \in Nat \ {0}

VARIABLES data,   \* _data
          phase,  \* which sift is under way
          index,  \* its position
          inside  \* history: what was pushed and not popped

vars == <<data, phase, index, inside>>

Entry == [env : Envelopes, nextAtMS : Times]

TypeOK ==
  /\ data \in Seq(Entry)
  /\ phase \in {"rest", "up", "down"}
  /\ index \in {1} \cup 1 .. Len(data)
  /\ phase = "rest" => index = 1
  /\ inside \subseteq Entry

Init == data = <<>> /\ phase = "rest" /\ index = 1 /\ inside = {}

----------------------------------------------------------------------------
\* The number an Int holds after it was given n.
ToInt(n) == ((n + Half) % (2 * Half)) - Half

\* Mutant: the difference is returned as a narrower number.
CompareAsShort(a, b) ==
  ((a.nextAtMS - b.nextAtMS + Half \div 2) % Half) - Half \div 2

\* TTimeComparator.Compare: the difference of two Longs, returned as an Int.
Compare(a, b) == ToInt(a.nextAtMS - b.nextAtMS)

Swapped(s, i, j) == [s EXCEPT ![i] = s[j], ![j] = s[i]]

\* Bound on the use of the queue: the times in it lie close enough for their
\* difference to fit in an Int.
Fits(t) ==
  \A e \in inside :
    t - e.nextAtMS < Half /\ e.nextAtMS - t < Half

\* Mutant: the sift starts one past the last position.
PushOnePast(env, t) ==
  /\ phase = "rest"
  /\ \A e \in inside : e.env # env
  /\ Fits(t)
  /\ LET item == [env |-> env, nextAtMS |-> t] IN
       /\ data' = Append(data, item)
       /\ inside' = inside \cup {item}
  /\ phase' = "up"
  /\ index' = Len(data) + 2

Push(env, t) ==
  /\ phase = "rest"
  /\ \A e \in inside : e.env # env
  /\ Fits(t)
  /\ LET item == [env |-> env, nextAtMS |-> t] IN
       /\ data' = Append(data, item)
       /\ inside' = inside \cup {item}
  /\ phase' = "up"
  /\ index' = Len(data) + 1

SiftUp ==
  /\ phase = "up"
  /\ IF index > 1 /\ Compare(data[index], data[index \div 2]) < 0
     THEN /\ data' = Swapped(data, index, index \div 2)
          /\ index' = index \div 2
          /\ UNCHANGED phase
     ELSE /\ phase' = "rest" /\ index' = 1
          /\ UNCHANGED data
  /\ UNCHANGED inside

\* Mutant: the last entry is not moved to the root before it is removed.
PopLosesLast ==
  /\ phase = "rest" /\ data # <<>>
  /\ inside' = inside \ {data[1]}
  /\ data' = SubSeq(data, 1, Len(data) - 1)
  /\ phase' = "down" /\ index' = 1

Pop ==
  /\ phase = "rest" /\ data # <<>>
  /\ inside' = inside \ {data[1]}
  /\ data' = SubSeq([data EXCEPT ![1] = data[Len(data)]], 1, Len(data) - 1)
  /\ phase' = "down" /\ index' = 1

\* Mutant: the right child is compared with the parent only.
LastSmaller(s, i) ==
  LET left  == 2 * i
      right == 2 * i + 1
  IN IF right <= Len(s) /\ Compare(s[right], s[i]) < 0 THEN right
     ELSE IF left <= Len(s) /\ Compare(s[left], s[i]) < 0 THEN left ELSE i

\* The position among i and its children whose entry comes first.
Smallest(s, i) ==
  LET left  == 2 * i
      right == 2 * i + 1
      first == IF left <= Len(s) /\ Compare(s[left], s[i]) < 0 THEN left ELSE i
  IN IF right <= Len(s) /\ Compare(s[right], s[first]) < 0 THEN right ELSE first

SiftDown ==
  /\ phase = "down"
  /\ LET smallest == Smallest(data, index) IN
       IF smallest # index
       THEN /\ data' = Swapped(data, index, smallest)
            /\ index' = smallest
            /\ UNCHANGED phase
       ELSE /\ phase' = "rest" /\ index' = 1
            /\ UNCHANGED data
  /\ UNCHANGED inside

Next ==
  \/ \E env \in Envelopes, t \in Times : Push(env, t)
  \/ Pop \/ SiftUp \/ SiftDown

Spec == Init /\ [][Next]_vars

----------------------------------------------------------------------------
\* Between calls no entry is due before its parent.
HeapOrder ==
  phase = "rest" =>
    \A i \in 2 .. Len(data) : data[i \div 2].nextAtMS <= data[i].nextAtMS

\* Peek and Pop give AdmitDueRetries the envelope that is due first: when that
\* one is not due yet, none is, and the loop may leave the others alone.
PeekIsEarliest ==
  phase = "rest" /\ data # <<>> =>
    \A e \in inside : data[1].nextAtMS <= e.nextAtMS

\* An envelope pushed is in the heap, once, until it is popped; the swaps and
\* the removal of the last position lose or double none.
NothingLost ==
  /\ {data[i] : i \in 1 .. Len(data)} = inside
  /\ \A i, j \in 1 .. Len(data) : data[i] = data[j] => i = j
============================================================================
