--------------------------- MODULE MinHeapProofs ---------------------------
(***************************************************************************)
(* The retry queue gives its earliest envelope, for any number of them.    *)
(***************************************************************************)
EXTENDS MinHeap, TLAPS, WellFoundedInduction, NaturalsInduction

\* A non-empty set of numbers has a smallest one.
LEMMA SmallestNumber ==
  ASSUME NEW S \in SUBSET Nat, S # {}
  PROVE  \E n \in S : \A m \in S : n <= m
<1>1. IsWellFoundedOn(OpToRel(<, Nat), Nat)
  BY NatLessThanWellFounded
<1>2. PICK n \in S : \A m \in S : ~(<<m, n>> \in OpToRel(<, Nat))
  BY <1>1, WFMin
<1>4. \A m \in S : ~(m < n)
  BY <1>2 DEF OpToRel
<1>. QED
  BY <1>4

\* The remainder of a number that is smaller than the divisor.
LEMMA SmallRemainder ==
  \A m \in Nat, n \in Nat : n < m => n % m = n
BY SMT

\* TTimeComparator orders two times that are close enough as numbers do.
LEMMA CompareOrders ==
  ASSUME NEW a \in Entry, NEW b \in Entry,
         a.nextAtMS - b.nextAtMS < Half, b.nextAtMS - a.nextAtMS < Half
  PROVE  Compare(a, b) = a.nextAtMS - b.nextAtMS
<1>1. a.nextAtMS \in Times /\ b.nextAtMS \in Times
  BY DEF Entry
<1>2. a.nextAtMS \in Int /\ b.nextAtMS \in Int /\ Half \in Nat /\ Half > 0
  <2>1. a.nextAtMS \in Int /\ b.nextAtMS \in Int
    BY <1>1, TimesAssumption
  <2>2. Half \in Nat /\ Half > 0
    BY HalfAssumption
  <2>. QED BY <2>1, <2>2
<1>. DEFINE n == a.nextAtMS - b.nextAtMS + Half
           m == 2 * Half
<1>3. n \in Nat /\ m \in Nat /\ n < m
  BY <1>2
<1>4. n % m = n
  <2>. HIDE DEF n, m
  <2>. QED BY <1>3, SmallRemainder
<1>. QED
  BY <1>2, <1>4 DEF Compare, ToInt

----------------------------------------------------------------------------
(* What the calls do to the list.                                          *)

\* Exchanging two positions moves their entries and no other.
LEMMA SwapMoves ==
  ASSUME NEW s \in Seq(Entry), NEW i \in 1 .. Len(s), NEW j \in 1 .. Len(s)
  PROVE  /\ Swapped(s, i, j) \in Seq(Entry)
         /\ Len(Swapped(s, i, j)) = Len(s)
         /\ Swapped(s, i, j)[i] = s[j]
         /\ Swapped(s, i, j)[j] = s[i]
         /\ \A k \in 1 .. Len(s) \ {i, j} : Swapped(s, i, j)[k] = s[k]
<1>1. s \in [1 .. Len(s) -> Entry] /\ s[i] \in Entry /\ s[j] \in Entry
  OBVIOUS
<1>2. Swapped(s, i, j) \in Seq(Entry)
  BY <1>1 DEF Swapped
<1>3. Len(Swapped(s, i, j)) = Len(s)
  BY <1>1 DEF Swapped
<1>. QED
  BY <1>1, <1>2, <1>3 DEF Swapped

\* A list holds each member of a set once.
HoldsOnce(s, set) ==
  /\ \A i \in 1 .. Len(s) : s[i] \in set
  /\ \A e \in set : \E i \in 1 .. Len(s) : s[i] = e
  /\ \A i, j \in 1 .. Len(s) : s[i] = s[j] => i = j

\* This is what NothingLost says of the heap.
LEMMA HoldsInside == NothingLost <=> HoldsOnce(data, inside)
BY DEF NothingLost, HoldsOnce

\* Exchanging two positions neither loses nor doubles an entry.
LEMMA SwapKeeps ==
  ASSUME NEW s \in Seq(Entry), NEW i \in 1 .. Len(s), NEW j \in 1 .. Len(s),
         NEW set, HoldsOnce(s, set)
  PROVE  HoldsOnce(Swapped(s, i, j), set)
<1>. DEFINE w == Swapped(s, i, j)
            at(k) == IF k = i THEN j ELSE IF k = j THEN i ELSE k
<1>1. Len(w) = Len(s) /\ \A k \in 1 .. Len(s) : w[k] = s[at(k)]
  <2>1. /\ Len(w) = Len(s) /\ w[i] = s[j] /\ w[j] = s[i]
        /\ \A k \in 1 .. Len(s) \ {i, j} : w[k] = s[k]
    BY SwapMoves
  <2>. HIDE DEF w
  <2>. QED BY <2>1
<1>2. \A k \in 1 .. Len(s) : at(k) \in 1 .. Len(s) /\ at(at(k)) = k
  OBVIOUS
<1>. HIDE DEF w, at
<1>3. \A k \in 1 .. Len(w) : w[k] \in set
  BY <1>1, <1>2 DEF HoldsOnce
<1>4. ASSUME NEW e \in set
      PROVE  \E k \in 1 .. Len(w) : w[k] = e
  <2>1. PICK k \in 1 .. Len(s) : s[k] = e
    BY DEF HoldsOnce
  <2>2. at(k) \in 1 .. Len(w) /\ w[at(k)] = e
    BY <1>1, <1>2, <2>1
  <2>. QED BY <2>2
<1>5. \A k, l \in 1 .. Len(w) : w[k] = w[l] => k = l
  <2>. SUFFICES ASSUME NEW k \in 1 .. Len(s), NEW l \in 1 .. Len(s), w[k] = w[l]
                PROVE  k = l
    BY <1>1
  <2>1. /\ at(k) \in 1 .. Len(s) /\ at(l) \in 1 .. Len(s)
        /\ s[at(k)] = s[at(l)]
    BY <1>1, <1>2
  <2>2. at(k) = at(l)
    BY <2>1 DEF HoldsOnce
  <2>. QED BY <1>2, <2>2
<1>6. HoldsOnce(w, set)
  BY <1>3, <1>4, <1>5 DEF HoldsOnce
<1>. QED
  BY <1>6 DEF w

\* What is left of a list when its last entry has taken the place of the first.
LastToRoot(s) == SubSeq([s EXCEPT ![1] = s[Len(s)]], 1, Len(s) - 1)

\* The list that is left, position by position.
LEMMA RootReplaced ==
  ASSUME NEW s \in Seq(Entry), s # <<>>
  PROVE  /\ LastToRoot(s) \in Seq(Entry)
         /\ Len(LastToRoot(s)) = Len(s) - 1
         /\ \A k \in 1 .. Len(s) - 1 :
              LastToRoot(s)[k] = IF k = 1 THEN s[Len(s)] ELSE s[k]
<1>. DEFINE t == [s EXCEPT ![1] = s[Len(s)]]
<1>1. Len(s) \in Nat /\ Len(s) >= 1 /\ s[Len(s)] \in Entry
  OBVIOUS
<1>2. t \in Seq(Entry) /\ Len(t) = Len(s)
  BY <1>1
<1>3. \A k \in 1 .. Len(s) : t[k] = IF k = 1 THEN s[Len(s)] ELSE s[k]
  BY <1>1
<1>. HIDE DEF t
<1>4. LastToRoot(s) = SubSeq(t, 1, Len(s) - 1)
  BY DEF LastToRoot, t
<1>. QED
  BY <1>1, <1>2, <1>3, <1>4

\* Replacing the root that way removes the root's entry and no other.
LEMMA RootRemoved ==
  ASSUME NEW s \in Seq(Entry), s # <<>>, NEW set, HoldsOnce(s, set)
  PROVE  HoldsOnce(LastToRoot(s), set \ {s[1]})
<1>. DEFINE r == LastToRoot(s)
<1>1. /\ Len(s) \in Nat /\ Len(s) >= 1
      /\ Len(r) = Len(s) - 1
      /\ \A k \in 1 .. Len(s) - 1 : r[k] = IF k = 1 THEN s[Len(s)] ELSE s[k]
  BY RootReplaced
<1>. HIDE DEF r
<1>2. \A k \in 1 .. Len(r) : r[k] \in set \ {s[1]}
  BY <1>1 DEF HoldsOnce
<1>3. ASSUME NEW e \in set \ {s[1]}
      PROVE  \E k \in 1 .. Len(r) : r[k] = e
  <2>1. PICK k \in 1 .. Len(s) : s[k] = e
    BY DEF HoldsOnce
  <2>2. k # 1
    BY <2>1
  <2>3. CASE k = Len(s)
    <3>1. 1 \in 1 .. Len(r) /\ r[1] = e
      BY <1>1, <2>1, <2>2, <2>3
    <3>. QED BY <3>1
  <2>4. CASE k # Len(s)
    <3>1. k \in 1 .. Len(r) /\ r[k] = e
      BY <1>1, <2>1, <2>2, <2>4
    <3>. QED BY <3>1
  <2>. QED BY <2>3, <2>4
<1>4. \A k, l \in 1 .. Len(r) : r[k] = r[l] => k = l
  BY <1>1 DEF HoldsOnce
<1>5. HoldsOnce(r, set \ {s[1]})
  BY <1>2, <1>3, <1>4 DEF HoldsOnce
<1>. QED
  BY <1>5 DEF r

----------------------------------------------------------------------------
(* The inductive invariant: HeapOrder, but for the place of a sift.        *)

Time(s, i) == s[i].nextAtMS

\* Every entry but those in `out' is due no earlier than its parent ...
OrderedBut(s, out) ==
  \A i \in 2 .. Len(s) \ out : Time(s, i \div 2) <= Time(s, i)

\* ... and the children of position k no earlier than its parent.
Bridged(s, k) ==
  k > 1 => \A i \in 2 .. Len(s) : i \div 2 = k => Time(s, k \div 2) <= Time(s, i)

Children(k) == {2 * k, 2 * k + 1}

Close(set) == \A e, f \in set : e.nextAtMS - f.nextAtMS < Half

HeapInv ==
  /\ TypeOK
  /\ HoldsOnce(data, inside)
  /\ Close(inside)
  /\ phase = "rest" => OrderedBut(data, {})
  /\ phase = "up"   => OrderedBut(data, {index}) /\ Bridged(data, index)
  /\ phase = "down" => OrderedBut(data, Children(index)) /\ Bridged(data, index)

\* Comparing two entries of the heap compares their times.
LEMMA CompareInside ==
  ASSUME HeapInv, NEW i \in 1 .. Len(data), NEW j \in 1 .. Len(data)
  PROVE  Compare(data[i], data[j]) < 0 <=> Time(data, i) < Time(data, j)
<1>1. data[i] \in inside /\ data[j] \in inside /\ data[i] \in Entry /\ data[j] \in Entry
  BY DEF HeapInv, HoldsOnce, TypeOK
<1>2. Compare(data[i], data[j]) = data[i].nextAtMS - data[j].nextAtMS
  BY <1>1, CompareOrders DEF HeapInv, Close
<1>3. data[i].nextAtMS \in Int /\ data[j].nextAtMS \in Int
  BY <1>1, TimesAssumption DEF Entry
<1>. QED
  BY <1>2, <1>3 DEF Time

\* The times of entries are numbers.
LEMMA TimesAreNumbers ==
  ASSUME NEW s \in Seq(Entry), NEW i \in 1 .. Len(s)
  PROVE  Time(s, i) \in Int
<1>1. s[i] \in Entry
  OBVIOUS
<1>. QED
  BY <1>1, TimesAssumption DEF Entry, Time

\* A position but the first has a parent, which comes before it.
LEMMA ParentIsBefore ==
  \A i \in Nat : i >= 2 => i \div 2 \in Nat /\ i \div 2 >= 1 /\ i \div 2 < i
                           /\ i \in Children(i \div 2)
BY DEF Children

----------------------------------------------------------------------------
(* The heap keeps HeapInv.                                                 *)

\* Push adds the entry at the end, where only it may be out of order, and
\* keeps the times close.
LEMMA PushKeeps ==
  ASSUME HeapInv, NEW env \in Envelopes, NEW t \in Times, Push(env, t)
  PROVE  HeapInv'
<1>. DEFINE item == [env |-> env, nextAtMS |-> t]
            n == Len(data) + 1
<1>1. /\ data \in Seq(Entry) /\ inside \subseteq Entry /\ item \in Entry
      /\ Len(data) \in Nat /\ phase = "rest" /\ index = 1
  BY DEF HeapInv, TypeOK, Entry, Push
<1>2. /\ data' = Append(data, item) /\ inside' = inside \cup {item}
      /\ phase' = "up" /\ index' = n
      /\ \A e \in inside : e.env # env
      /\ Fits(t)
  BY DEF Push
<1>3. /\ data' \in Seq(Entry) /\ Len(data') = n /\ data'[n] = item
      /\ \A i \in 1 .. Len(data) : data'[i] = data[i]
  BY <1>1, <1>2
<1>4. item \notin inside
  <2>1. item.env = env
    OBVIOUS
  <2>. HIDE DEF item
  <2>. QED BY <1>2, <2>1
<1>5. TypeOK'
  BY <1>1, <1>2, <1>3 DEF TypeOK
<1>6. HoldsOnce(data, inside)' 
  <2>. HIDE DEF item
  <2>1. \A i \in 1 .. Len(data') : data'[i] \in inside'
    BY <1>1, <1>2, <1>3 DEF HeapInv, HoldsOnce
  <2>2. \A e \in inside' : \E i \in 1 .. Len(data') : data'[i] = e
    <3>1. \A e \in inside : \E i \in 1 .. Len(data) : data'[i] = e
      BY <1>3 DEF HeapInv, HoldsOnce
    <3>2. n \in 1 .. Len(data') /\ 1 .. Len(data) \subseteq 1 .. Len(data')
      BY <1>1, <1>3
    <3>. QED BY <1>2, <1>3, <3>1, <3>2
  <2>3. \A i, j \in 1 .. Len(data') : data'[i] = data'[j] => i = j
    <3>1. \A i \in 1 .. Len(data) : data'[i] # item
      BY <1>3, <1>4 DEF HeapInv, HoldsOnce
    <3>2. \A i, j \in 1 .. Len(data) : data'[i] = data'[j] => i = j
      BY <1>3 DEF HeapInv, HoldsOnce
    <3>3. \A i \in 1 .. Len(data') : i \in 1 .. Len(data) \/ i = n
      BY <1>1, <1>3
    <3>. QED BY <1>3, <3>1, <3>2, <3>3
  <2>. QED BY <2>1, <2>2, <2>3 DEF HoldsOnce
<1>7. Close(inside)'
  <2>1. item.nextAtMS = t /\ t \in Int /\ Half > 0
    BY TimesAssumption, HalfAssumption
  <2>. HIDE DEF item
  <2>2. \A e \in inside : t - e.nextAtMS < Half /\ e.nextAtMS - t < Half
    BY <1>2 DEF Fits
  <2>3. t - t < Half
    BY <2>1, HalfAssumption
  <2>4. \A e, f \in inside : e.nextAtMS - f.nextAtMS < Half
    BY DEF HeapInv, Close
  <2>. QED BY <1>2, <2>1, <2>2, <2>3, <2>4 DEF Close
<1>8. OrderedBut(data, {index})'
  <2>. SUFFICES ASSUME NEW i \in 2 .. Len(data') \ {n}
                PROVE  Time(data', i \div 2) <= Time(data', i)
    BY <1>2 DEF OrderedBut
  <2>1. i \in 2 .. Len(data) /\ i \div 2 \in 1 .. Len(data) /\ i \in 1 .. Len(data)
    BY <1>1, <1>3, ParentIsBefore
  <2>2. Time(data, i \div 2) <= Time(data, i)
    BY <1>1, <2>1 DEF HeapInv, OrderedBut
  <2>. QED BY <1>3, <2>1, <2>2 DEF Time
<1>9. Bridged(data, index)'
  <2>1. \A i \in 2 .. Len(data') : i \div 2 # index'
    BY <1>1, <1>2, <1>3
  <2>. QED BY <2>1 DEF Bridged
<1>. QED
  BY <1>2, <1>5, <1>6, <1>7, <1>8, <1>9 DEF HeapInv

\* Pop leaves at most the children of the root out of order.
LEMMA PopKeeps ==
  ASSUME HeapInv, Pop
  PROVE  HeapInv'
<1>1. /\ data \in Seq(Entry) /\ data # <<>> /\ inside \subseteq Entry
      /\ HoldsOnce(data, inside) /\ phase = "rest"
  BY DEF HeapInv, TypeOK, Pop
<1>2. /\ data' = LastToRoot(data) /\ inside' = inside \ {data[1]}
      /\ phase' = "down" /\ index' = 1
  BY DEF Pop, LastToRoot
<1>3. /\ data' \in Seq(Entry) /\ Len(data') = Len(data) - 1 /\ Len(data) \in Nat
      /\ \A k \in 1 .. Len(data) - 1 :
           data'[k] = IF k = 1 THEN data[Len(data)] ELSE data[k]
  BY <1>1, <1>2, RootReplaced
<1>4. TypeOK'
  BY <1>1, <1>2, <1>3 DEF TypeOK
<1>5. HoldsOnce(data, inside)'
  BY <1>1, <1>2, RootRemoved
<1>6. Close(inside)'
  BY <1>2 DEF HeapInv, Close
<1>7. OrderedBut(data, Children(1))'
  <2>. SUFFICES ASSUME NEW i \in 2 .. Len(data') \ Children(1)
                PROVE  Time(data', i \div 2) <= Time(data', i)
    BY DEF OrderedBut, Children
  <2>1. /\ i \in 2 .. Len(data) /\ i \in 1 .. Len(data) - 1 /\ i # 1
        /\ i \div 2 \in 1 .. Len(data) - 1 /\ i \div 2 # 1
    BY <1>3, ParentIsBefore DEF Children
  <2>2. Time(data, i \div 2) <= Time(data, i)
    BY <1>1, <2>1 DEF HeapInv, OrderedBut
  <2>. QED BY <1>3, <2>1, <2>2 DEF Time
<1>8. Bridged(data, 1)'
  BY DEF Bridged
<1>. QED
  BY <1>2, <1>4, <1>5, <1>6, <1>7, <1>8 DEF HeapInv

\* A turn of _SiftUp moves the place that may be out of order to its parent, or
\* finds that it is in order.
LEMMA SiftUpKeeps ==
  ASSUME HeapInv, SiftUp
  PROVE  HeapInv'
<1>. DEFINE p == index \div 2
<1>1. /\ data \in Seq(Entry) /\ inside \subseteq Entry /\ phase = "up"
      /\ HoldsOnce(data, inside) /\ Close(inside)
      /\ OrderedBut(data, {index}) /\ Bridged(data, index)
      /\ inside' = inside /\ Len(data) \in Nat /\ index \in Nat /\ index >= 1
      /\ index > 1 => index \in 1 .. Len(data)
  BY DEF HeapInv, TypeOK, SiftUp
<1>2. index > 1 => p \in 1 .. Len(data) /\ p < index
  BY <1>1, ParentIsBefore
<1>3. \A i \in 1 .. Len(data) : Time(data, i) \in Int
  BY <1>1, TimesAreNumbers
<1>4. CASE index > 1 /\ Compare(data[index], data[p]) < 0
  <2>1. data' = Swapped(data, index, p) /\ index' = p /\ phase' = "up"
    BY <1>1, <1>4 DEF SiftUp
  <2>2. Time(data, index) < Time(data, p)
    BY <1>1, <1>2, <1>4, CompareInside
  <2>3. /\ data' \in Seq(Entry) /\ Len(data') = Len(data)
        /\ data'[index] = data[p] /\ data'[p] = data[index]
        /\ \A k \in 1 .. Len(data) \ {index, p} : data'[k] = data[k]
    <3>1. index \in 1 .. Len(data) /\ p \in 1 .. Len(data)
      BY <1>1, <1>2, <1>4
    <3>2. data \in Seq(Entry)
      BY <1>1
    <3>. HIDE DEF p
    <3>. QED BY <2>1, <3>1, <3>2, SwapMoves, ZenonT(30)
  <2>4. TypeOK'
    BY <1>1, <1>2, <1>4, <2>1, <2>3 DEF TypeOK
  <2>5. HoldsOnce(data, inside)'
    BY <1>1, <1>2, <1>4, <2>1, SwapKeeps
  <2>6. /\ Time(data', index) = Time(data, p) /\ Time(data', p) = Time(data, index)
        /\ \A k \in 1 .. Len(data) \ {index, p} : Time(data', k) = Time(data, k)
    BY <2>3 DEF Time
  <2>7. OrderedBut(data, {index})'
    <3>. SUFFICES ASSUME NEW i \in 2 .. Len(data), i # p
                  PROVE  Time(data', i \div 2) <= Time(data', i)
      BY <2>1, <2>3 DEF OrderedBut
    <3>1. i \div 2 \in 1 .. Len(data) /\ i \in 1 .. Len(data) /\ i \div 2 # i
      BY <1>1, ParentIsBefore
    <3>2. CASE i = index
      BY <1>2, <1>3, <1>4, <2>2, <2>6, <3>1, <3>2
    <3>3. CASE i # index /\ i \div 2 = index
      <4>1. Time(data, p) <= Time(data, i)
        BY <1>1, <1>4, <3>3 DEF Bridged
      <4>. QED BY <2>6, <3>1, <3>3, <4>1
    <3>4. CASE i # index /\ i \div 2 # index
      <4>1. Time(data, i \div 2) <= Time(data, i)
        BY <1>1, <3>4 DEF OrderedBut
      <4>2. Time(data', i) = Time(data, i)
        BY <2>6, <3>1, <3>4
      <4>3. CASE i \div 2 = p
        <5>1. Time(data', i \div 2) = Time(data, index)
          BY <2>6, <4>3
        <5>2. /\ Time(data, index) \in Int /\ Time(data, p) \in Int
              /\ Time(data, i) \in Int
          BY <1>1, <1>2, <1>3, <1>4, <3>1
        <5>. QED BY <2>2, <4>1, <4>2, <4>3, <5>1, <5>2
      <4>4. CASE i \div 2 # p
        <5>1. Time(data', i \div 2) = Time(data, i \div 2)
          BY <2>6, <3>1, <3>4, <4>4
        <5>. QED BY <4>1, <4>2, <5>1
      <4>. QED BY <4>3, <4>4
    <3>. QED BY <3>2, <3>3, <3>4
  <2>8. Bridged(data, index)'
    <3>. SUFFICES ASSUME p > 1, NEW i \in 2 .. Len(data), i \div 2 = p
                  PROVE  Time(data', p \div 2) <= Time(data', i)
      BY <2>1, <2>3 DEF Bridged
    <3>1. /\ p \in 2 .. Len(data) /\ p # index /\ p \div 2 \in 1 .. Len(data)
          /\ p \div 2 < p /\ p < index /\ i \in 1 .. Len(data) /\ i # p
      BY <1>1, <1>2, <1>4, ParentIsBefore
    <3>2. Time(data, p \div 2) <= Time(data, p)
      BY <1>1, <3>1 DEF OrderedBut
    <3>3. Time(data', p \div 2) = Time(data, p \div 2)
      BY <1>1, <2>6, <3>1
    <3>4. Time(data, p) <= Time(data', i)
      <4>1. CASE i = index
        BY <1>3, <2>6, <3>1, <4>1
      <4>2. CASE i # index
        BY <1>1, <2>6, <3>1, <4>2 DEF OrderedBut
      <4>. QED BY <4>1, <4>2
    <3>5. /\ Time(data, p \div 2) \in Int /\ Time(data, p) \in Int
          /\ Time(data', i) \in Int
      BY <1>2, <1>3, <1>4, <2>6, <3>1
    <3>. QED BY <3>2, <3>3, <3>4, <3>5
  <2>. QED
    BY <1>1, <2>1, <2>4, <2>5, <2>7, <2>8 DEF HeapInv
<1>5. CASE ~(index > 1 /\ Compare(data[index], data[p]) < 0)
  <2>1. data' = data /\ index' = 1 /\ phase' = "rest"
    BY <1>1, <1>5 DEF SiftUp
  <2>2. index > 1 => Time(data, p) <= Time(data, index)
    BY <1>1, <1>2, <1>3, <1>5, CompareInside
  <2>3. OrderedBut(data, {})
    <3>. SUFFICES ASSUME NEW i \in 2 .. Len(data)
                  PROVE  Time(data, i \div 2) <= Time(data, i)
      BY DEF OrderedBut
    <3>1. CASE i = index
      BY <1>1, <2>2, <3>1
    <3>2. CASE i # index
      BY <1>1, <3>2 DEF OrderedBut
    <3>. QED BY <3>1, <3>2
  <2>4. TypeOK'
    BY <1>1, <2>1 DEF TypeOK
  <2>. QED
    BY <1>1, <2>1, <2>3, <2>4 DEF HeapInv
<1>. QED
  BY <1>4, <1>5

\* Smallest picks a position no child of index is due before, and another
\* position than index only when that one is due earlier.
LEMMA SmallestChild ==
  ASSUME HeapInv, index >= 1
  PROVE  LET m == Smallest(data, index) IN
           /\ \A c \in Children(index) :
                c <= Len(data) => Time(data, m) <= Time(data, c)
           /\ m # index =>
                /\ index \in 1 .. Len(data) /\ m \in 1 .. Len(data)
                /\ m \in Children(index) /\ m \div 2 = index
                /\ Time(data, m) < Time(data, index)
<1>. DEFINE left == 2 * index
            right == 2 * index + 1
            first == IF left <= Len(data) /\ Compare(data[left], data[index]) < 0
                     THEN left ELSE index
            m == IF right <= Len(data) /\ Compare(data[right], data[first]) < 0
                 THEN right ELSE first
<1>1. m = Smallest(data, index)
  BY DEF Smallest
<1>2. Len(data) \in Nat /\ index \in Nat /\ data \in Seq(Entry)
  BY DEF HeapInv, TypeOK
<1>3. \A i \in 1 .. Len(data) : Time(data, i) \in Int
  BY <1>2, TimesAreNumbers
<1>4. /\ left \in Nat /\ right \in Nat /\ left = 2 * index /\ right = left + 1
      /\ left \div 2 = index /\ right \div 2 = index /\ Children(index) = {left, right}
      /\ left > index
  BY <1>2 DEF Children
<1>5. left <= Len(data) =>
        /\ index \in 1 .. Len(data) /\ left \in 1 .. Len(data)
        /\ Compare(data[left], data[index]) < 0 <=> Time(data, left) < Time(data, index)
  BY <1>2, <1>4, CompareInside
<1>. HIDE DEF left, right
<1>6. /\ first \in {left, index}
      /\ first = left => left <= Len(data)
      /\ left <= Len(data) => /\ Time(data, first) <= Time(data, left)
                              /\ Time(data, first) <= Time(data, index)
                              /\ first = left => Time(data, left) < Time(data, index)
                              /\ first \in 1 .. Len(data)
  BY <1>2, <1>3, <1>4, <1>5
<1>. HIDE DEF first
<1>7. right <= Len(data) =>
        /\ left <= Len(data) /\ right \in 1 .. Len(data)
        /\ Compare(data[right], data[first]) < 0 <=> Time(data, right) < Time(data, first)
  BY <1>2, <1>4, <1>6, CompareInside
<1>8. CASE right <= Len(data) /\ Compare(data[right], data[first]) < 0
  <2>1. m = right
    BY <1>8
  <2>. HIDE DEF m
  <2>. QED BY <1>1, <1>2, <1>3, <1>4, <1>5, <1>6, <1>7, <1>8, <2>1
<1>9. CASE ~(right <= Len(data) /\ Compare(data[right], data[first]) < 0)
  <2>1. m = first
    BY <1>9
  <2>. HIDE DEF m
  <2>. QED BY <1>1, <1>2, <1>3, <1>4, <1>5, <1>6, <1>7, <1>9, <2>1
<1>. QED
  BY <1>8, <1>9

\* A turn of _SiftDown moves it to the child that is due first, or finds that it
\* is in order.
LEMMA SiftDownKeeps ==
  ASSUME HeapInv, SiftDown
  PROVE  HeapInv'
<1>. DEFINE m == Smallest(data, index)
<1>1. /\ data \in Seq(Entry) /\ inside \subseteq Entry /\ phase = "down"
      /\ HoldsOnce(data, inside) /\ Close(inside)
      /\ OrderedBut(data, Children(index)) /\ Bridged(data, index)
      /\ inside' = inside /\ Len(data) \in Nat /\ index \in Nat /\ index >= 1
  BY DEF HeapInv, TypeOK, SiftDown
<1>2. /\ \A c \in Children(index) : c <= Len(data) => Time(data, m) <= Time(data, c)
      /\ m # index =>
           /\ index \in 1 .. Len(data) /\ m \in 1 .. Len(data)
           /\ m \in Children(index) /\ m \div 2 = index
           /\ Time(data, m) < Time(data, index)
  BY <1>1, SmallestChild
<1>3. \A i \in 1 .. Len(data) : Time(data, i) \in Int
  BY <1>1, TimesAreNumbers
<1>4. CASE m # index
  <2>1. data' = Swapped(data, index, m) /\ index' = m /\ phase' = "down"
    BY <1>1, <1>4 DEF SiftDown
  <2>. HIDE DEF m
  <2>2. index \in 1 .. Len(data) /\ m \in 1 .. Len(data) /\ m > index
    BY <1>1, <1>2, <1>4 DEF Children
  <2>3. /\ data' \in Seq(Entry) /\ Len(data') = Len(data)
        /\ data'[index] = data[m] /\ data'[m] = data[index]
        /\ \A k \in 1 .. Len(data) \ {index, m} : data'[k] = data[k]
    <3>1. data \in Seq(Entry)
      BY <1>1
    <3>. QED BY <2>1, <2>2, <3>1, SwapMoves, ZenonT(30)
  <2>4. TypeOK'
    BY <1>1, <2>1, <2>2, <2>3 DEF TypeOK
  <2>5. HoldsOnce(data, inside)'
    BY <1>1, <2>1, <2>2, SwapKeeps
  <2>6. /\ Time(data', index) = Time(data, m) /\ Time(data', m) = Time(data, index)
        /\ \A k \in 1 .. Len(data) \ {index, m} : Time(data', k) = Time(data, k)
    BY <2>3 DEF Time
  <2>7. OrderedBut(data, Children(index))'
    <3>. SUFFICES ASSUME NEW i \in 2 .. Len(data), i \notin Children(m)
                  PROVE  Time(data', i \div 2) <= Time(data', i)
      BY <2>1, <2>3 DEF OrderedBut, Children
    <3>1. /\ i \div 2 \in 1 .. Len(data) /\ i \in 1 .. Len(data) /\ i \div 2 < i
          /\ i \div 2 # m /\ i \in Children(i \div 2)
      BY <1>1, ParentIsBefore
    <3>2. CASE i \div 2 = index
      <4>1. Time(data, m) <= Time(data, i)
        BY <1>2, <3>1, <3>2
      <4>. QED BY <1>2, <1>3, <1>4, <2>2, <2>6, <3>1, <3>2, <4>1
    <3>3. CASE i = index
      <4>1. Time(data, i \div 2) <= Time(data, m)
        BY <1>1, <1>2, <1>4, <2>2, <3>3 DEF Bridged
      <4>. QED BY <2>6, <3>1, <3>3, <4>1
    <3>4. CASE i \div 2 # index /\ i # index
      <4>1. i # m /\ i \notin Children(index)
        BY <1>1, <1>2, <1>4, <3>1, <3>4 DEF Children
      <4>2. Time(data, i \div 2) <= Time(data, i)
        BY <1>1, <4>1 DEF OrderedBut
      <4>. QED BY <2>6, <3>1, <3>4, <4>1, <4>2
    <3>. QED BY <3>2, <3>3, <3>4
  <2>8. Bridged(data, index)'
    <3>. SUFFICES ASSUME NEW i \in 2 .. Len(data), i \div 2 = m
                  PROVE  Time(data', m \div 2) <= Time(data', i)
      BY <2>1, <2>3 DEF Bridged
    <3>1. i \in 1 .. Len(data) /\ m < i /\ m \div 2 = index /\ i \notin Children(index)
      BY <1>1, <1>2, <1>4, <2>2, ParentIsBefore DEF Children
    <3>2. Time(data, m) <= Time(data, i)
      BY <1>1, <3>1 DEF OrderedBut
    <3>. QED BY <2>2, <2>6, <3>1, <3>2
  <2>. QED
    BY <1>1, <2>1, <2>4, <2>5, <2>7, <2>8 DEF HeapInv
<1>5. CASE m = index
  <2>1. data' = data /\ index' = 1 /\ phase' = "rest"
    BY <1>1, <1>5 DEF SiftDown
  <2>2. OrderedBut(data, {})
    <3>. SUFFICES ASSUME NEW i \in 2 .. Len(data)
                  PROVE  Time(data, i \div 2) <= Time(data, i)
      BY DEF OrderedBut
    <3>1. CASE i \in Children(index)
      <4>1. i \div 2 = index
        BY <1>1, <3>1 DEF Children
      <4>. QED BY <1>2, <1>5, <3>1, <4>1
    <3>2. CASE i \notin Children(index)
      BY <1>1, <3>2 DEF OrderedBut
    <3>. QED BY <3>1, <3>2
  <2>3. TypeOK'
    BY <1>1, <2>1 DEF TypeOK
  <2>. QED
    BY <1>1, <2>1, <2>2, <2>3 DEF HeapInv
<1>. QED
  BY <1>4, <1>5

----------------------------------------------------------------------------
\* HeapInv is an invariant.
THEOREM HeapInvariant == Spec => []HeapInv
<1>1. Init => HeapInv
  <2>. SUFFICES ASSUME Init PROVE HeapInv
    OBVIOUS
  <2>1. /\ data = <<>> /\ data \in Seq(Entry) /\ Len(data) = 0
        /\ inside = {} /\ phase = "rest" /\ index = 1
    BY DEF Init
  <2>2. TypeOK
    BY <2>1 DEF TypeOK
  <2>. QED
    BY <2>1, <2>2 DEF HeapInv, HoldsOnce, Close, OrderedBut
<1>2. HeapInv /\ [Next]_vars => HeapInv'
  <2>. SUFFICES ASSUME HeapInv, [Next]_vars PROVE HeapInv'
    OBVIOUS
  <2>1. CASE \E env \in Envelopes, t \in Times : Push(env, t)
    BY <2>1, PushKeeps
  <2>2. CASE Pop
    BY <2>2, PopKeeps
  <2>3. CASE SiftUp
    BY <2>3, SiftUpKeeps
  <2>4. CASE SiftDown
    BY <2>4, SiftDownKeeps
  <2>5. CASE UNCHANGED vars
    BY <2>5 DEF vars, HeapInv, TypeOK, HoldsOnce, Close, OrderedBut, Bridged, Time
  <2>. QED
    BY <2>1, <2>2, <2>3, <2>4, <2>5 DEF Next
<1>. QED
  BY <1>1, <1>2, PTL DEF Spec

\* TMinHeap keeps its list, the position of a sift and the set of what is in
\* it in their types.
THEOREM HeapTypeCorrect == Spec => []TypeOK
<1>1. HeapInv => TypeOK
  BY DEF HeapInv
<1>. QED
  BY <1>1, HeapInvariant, PTL

\* Push and Pop leave no entry due before its parent.
THEOREM HeapOrderCorrect == Spec => []HeapOrder
<1>1. HeapInv => HeapOrder
  BY DEF HeapInv, HeapOrder, OrderedBut, Time
<1>. QED
  BY <1>1, HeapInvariant, PTL

\* The swaps of the sifts and the removal in Pop lose or double no envelope.
THEOREM NothingLostCorrect == Spec => []NothingLost
<1>1. HeapInv => NothingLost
  BY HoldsInside DEF HeapInv
<1>. QED
  BY <1>1, HeapInvariant, PTL

\* Peek and Pop give the envelope that is due first: if some position were due
\* before the root, the first such one would be due before its parent.
THEOREM PeekCorrect == Spec => []PeekIsEarliest
<1>1. HeapInv => PeekIsEarliest
  <2>. SUFFICES ASSUME HeapInv, phase = "rest", data # <<>>, NEW e \in inside
                PROVE  data[1].nextAtMS <= e.nextAtMS
    BY DEF PeekIsEarliest
  <2>. DEFINE Before == {i \in 1 .. Len(data) : ~(Time(data, 1) <= Time(data, i))}
  <2>1. data \in Seq(Entry) /\ Len(data) \in Nat /\ Len(data) >= 1
    BY DEF HeapInv, TypeOK
  <2>2. \A i \in 1 .. Len(data) : Time(data, i) \in Int
    BY <2>1, TimesAreNumbers
  <2>3. Before = {}
    <3>. SUFFICES ASSUME Before # {} PROVE FALSE
      OBVIOUS
    <3>1. Before \in SUBSET Nat
      OBVIOUS
    <3>2. PICK i \in Before : \A j \in Before : i <= j
      <4>. HIDE DEF Before
      <4>. QED BY <3>1, SmallestNumber
    <3>3. i \in 2 .. Len(data) /\ i \in Nat
      BY <2>1, <2>2
    <3>4. i \div 2 \in 1 .. Len(data) /\ i \div 2 < i
      BY <2>1, <3>3, ParentIsBefore
    <3>5. i \div 2 \notin Before
      <4>. HIDE DEF Before
      <4>. QED BY <3>2, <3>3, <3>4
    <3>6. Time(data, 1) <= Time(data, i \div 2)
      BY <3>4, <3>5
    <3>7. Time(data, i \div 2) <= Time(data, i)
      BY <3>3 DEF HeapInv, OrderedBut
    <3>. QED
      BY <2>1, <2>2, <3>2, <3>3, <3>4, <3>6, <3>7
  <2>4. PICK i \in 1 .. Len(data) : data[i] = e
    BY DEF HeapInv, HoldsOnce
  <2>5. Time(data, 1) <= Time(data, i)
    BY <2>3
  <2>. QED
    BY <2>4, <2>5 DEF Time
<1>. QED
  BY <1>1, HeapInvariant, PTL
=============================================================================
