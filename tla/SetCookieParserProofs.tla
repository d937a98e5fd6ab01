------------------------ MODULE SetCookieParserProofs ------------------------
(***************************************************************************)
(* For every value of a Set-Cookie field, however long, in which each      *)
(* quote that begins a value is closed before the next semicolon, Parse    *)
(* returns the cookie the field describes, or none when it describes none, *)
(* and throws when it holds a flag whose value is refused.                 *)
(***************************************************************************)
EXTENDS SetCookieParser, TLAPS, WellFoundedInduction, NaturalsInduction

----------------------------------------------------------------------------
(* The first of some characters.                                           *)

\* Natural numbers, if there are any, have a least one.
LEMMA LeastExists ==
  ASSUME NEW J \in SUBSET Nat, J # {}
  PROVE  Min(J) \in J /\ \A m \in J : Min(J) <= m
<1>1. IsWellFoundedOn(OpToRel(<, Nat), Nat)
  BY NatLessThanWellFounded
<1>2. PICK j \in J : \A m \in J : ~(<<m, j>> \in OpToRel(<, Nat))
  BY <1>1, WFMin, ZenonT(30)
<1>3. ASSUME NEW m \in J PROVE j <= m
  <2>1. CASE m < j
    BY <1>2, <2>1 DEF OpToRel
  <2>2. CASE ~(m < j)
    BY <2>2
  <2>. QED
    BY <2>1, <2>2
<1>. QED
  BY <1>3 DEF Min

\* What First finds: one of the characters with none of them before it, or the
\* place after the last that was looked at.
LEMMA FirstFound ==
  ASSUME NEW t, NEW S, NEW a \in Nat, NEW b \in Nat
  PROVE  /\ First(t, S, a, b) \in (a .. b) \cup {b + 1}
         /\ First(t, S, a, b) <= b + 1
         /\ Lacks(t, S, a, First(t, S, a, b) - 1)
         /\ First(t, S, a, b) <= b => First(t, S, a, b) >= a /\ t[First(t, S, a, b)] \in S
<1>. DEFINE J == {k \in a .. b : t[k] \in S} \cup {b + 1}
<1>1. J \in SUBSET Nat /\ J # {}
  OBVIOUS
<1>2. Min(J) \in J /\ \A m \in J : Min(J) <= m
  BY <1>1, LeastExists
<1>3. First(t, S, a, b) = Min(J)
  BY DEF First
<1>4. ASSUME NEW k \in a .. Min(J) - 1 PROVE t[k] \notin S
  <2>1. Min(J) \in Nat /\ Min(J) <= b + 1
    BY <1>2
  <2>2. k \in a .. b /\ k < Min(J)
    BY <2>1
  <2>3. k \notin J
    BY <1>2, <2>1, <2>2
  <2>. QED
    BY <2>2, <2>3
<1>. QED
  BY <1>2, <1>3, <1>4 DEF Lacks

\* And nothing else is the first.
LEMMA FirstIs ==
  ASSUME NEW t, NEW S, NEW a \in Nat, NEW b \in Nat, NEW f \in Nat,
         f <= b + 1, Lacks(t, S, a, f - 1),
         f = b + 1 \/ (f >= a /\ t[f] \in S)
  PROVE  First(t, S, a, b) = f
<1>. DEFINE g == First(t, S, a, b)
<1>1. /\ g \in Nat /\ g <= b + 1
      /\ Lacks(t, S, a, g - 1)
      /\ g <= b => g >= a /\ t[g] \in S
  BY FirstFound
<1>. HIDE DEF g
<1>2. CASE g < f
  BY <1>1, <1>2 DEF Lacks
<1>3. CASE f < g
  BY <1>1, <1>3 DEF Lacks
<1>. QED
  BY <1>1, <1>2, <1>3 DEF g

\* A text without the spaces before it is trimmed to the same.
LEMMA TrimmedFrom ==
  ASSUME NEW t, NEW a \in Nat, NEW b \in Nat, NEW o \in Nat, a <= o, OnlySpaces(t, a, o - 1),
         o <= b + 1
  PROVE  Trimmed(t, a, b) = Trimmed(t, o, b)
<1>1. {k \in a .. b : t[k] \notin Blanks}
        = {k \in o .. b : t[k] \notin Blanks}
  BY DEF OnlySpaces, Blanks
<1>. QED
  BY <1>1 DEF Trimmed

----------------------------------------------------------------------------
(* Where the parts of a field are.                                         *)

\* The first "=" of a field, and the parts that follow it.
LEMMA Places ==
  ASSUME NEW t \in Seq(Characters)
  PROVE  /\ Equals(t) \in 1 .. Len(t) + 1
         /\ Lacks(t, {Equal}, 1, Equals(t) - 1)
         /\ \A s \in AttributeStarts(t) : s \in Equals(t) + 2 .. Len(t) + 1 /\ t[s - 1] = Semicolon
         /\ Equals(t) <= Len(t) =>
              \A s \in Starts(t) : s \in Equals(t) + 1 .. Len(t) + 1
<1>1. Len(t) \in Nat
  OBVIOUS
<1>2. Equals(t) \in 1 .. Len(t) + 1 /\ Lacks(t, {Equal}, 1, Equals(t) - 1)
  BY <1>1, FirstFound DEF Equals
<1>3. ASSUME NEW s \in AttributeStarts(t)
      PROVE  s \in Equals(t) + 2 .. Len(t) + 1 /\ t[s - 1] = Semicolon
  BY <1>3 DEF AttributeStarts
<1>4. ASSUME Equals(t) <= Len(t), NEW s \in Starts(t)
      PROVE  s \in Equals(t) + 1 .. Len(t) + 1
  BY <1>1, <1>2, <1>3, <1>4 DEF Starts
<1>. QED
  BY <1>2, <1>3, <1>4

\* A part ends at the first semicolon after it begins, and its value lies
\* between the two.
LEMMA PartPlaces ==
  ASSUME NEW t \in Seq(Characters), Equals(t) <= Len(t), NEW s \in Starts(t)
  PROVE  /\ s \in Nat /\ s >= 2 /\ Equals(t) \in Nat
         /\ End(t, s) \in s .. Len(t) + 1
         /\ Lacks(t, {Semicolon}, s, End(t, s) - 1)
         /\ End(t, s) <= Len(t) => t[End(t, s)] = Semicolon
         /\ NameEnd(t, s) \in s .. End(t, s)
         /\ Lacks(t, {Equal}, s, NameEnd(t, s) - 1)
         /\ ValueStart(t, s) \in s .. End(t, s) + 1
<1>1. Len(t) \in Nat /\ s \in Nat /\ s >= 2 /\ s <= Len(t) + 1 /\ Equals(t) \in Nat
  BY Places
<1>. DEFINE e == End(t, s)
<1>2. e \in s .. Len(t) + 1 /\ Lacks(t, {Semicolon}, s, e - 1) /\ (e <= Len(t) => t[e] = Semicolon)
  BY <1>1, FirstFound DEF End
<1>3. e - 1 \in Nat /\ NameEnd(t, s) = First(t, {Equal}, s, e - 1)
  BY <1>1, <1>2 DEF NameEnd
<1>. HIDE DEF e
<1>4. NameEnd(t, s) \in s .. e /\ Lacks(t, {Equal}, s, NameEnd(t, s) - 1)
  BY <1>1, <1>2, <1>3, FirstFound
<1>5. ValueStart(t, s) \in s .. e + 1
  BY <1>1, <1>2, <1>4 DEF ValueStart
<1>. QED
  BY <1>1, <1>2, <1>4, <1>5 DEF e

\* The next part begins after it, and there is none between.
LEMMA NextPart ==
  ASSUME NEW t \in Seq(Characters), Equals(t) <= Len(t), NEW s \in Starts(t)
  PROVE  /\ End(t, s) <= Len(t) => End(t, s) + 1 \in AttributeStarts(t)
         /\ \A r \in Starts(t) : r \in Nat /\ (r < End(t, s) + 1 <=> r <= s)
<1>1. /\ Len(t) \in Nat /\ s \in Nat /\ s >= 2 /\ Equals(t) \in Nat
      /\ End(t, s) \in s .. Len(t) + 1
      /\ Lacks(t, {Semicolon}, s, End(t, s) - 1)
      /\ End(t, s) <= Len(t) => t[End(t, s)] = Semicolon
  <2>1. Len(t) \in Nat
    OBVIOUS
  <2>. QED
    BY <2>1, PartPlaces
<1>4. s >= Equals(t) + 1
  BY <1>1, Places
<1>2. ASSUME End(t, s) <= Len(t) PROVE End(t, s) + 1 \in AttributeStarts(t)
  BY <1>1, <1>2, <1>4 DEF AttributeStarts
<1>3. ASSUME NEW r \in Starts(t) PROVE r \in Nat /\ (r < End(t, s) + 1 <=> r <= s)
  <2>1. r \in Nat /\ r >= Equals(t) + 1
    BY Places, <1>1
  <2>2. CASE r <= s
    BY <1>1, <2>1, <2>2
  <2>3. CASE r > s
    <3>1. t[r - 1] = Semicolon
      BY <1>1, <1>4, <2>1, <2>3 DEF Starts, AttributeStarts
    <3>2. r - 1 \notin s .. End(t, s) - 1
      BY <1>1, <3>1 DEF Lacks
    <3>. QED
      BY <1>1, <2>1, <2>3, <3>2
  <2>. QED
    BY <1>1, <2>1, <2>2, <2>3
<1>. QED
  BY <1>2, <1>3

----------------------------------------------------------------------------
(* The value of a part.                                                    *)

\* A value whose first character is not a quote, or that has none, is the text
\* from there to the end of the part.
LEMMA UnquotedValue ==
  ASSUME NEW t \in Seq(Characters), Equals(t) <= Len(t), NEW s \in Starts(t),
         NEW o \in Nat, ValueStart(t, s) <= o, o <= End(t, s),
         OnlySpaces(t, ValueStart(t, s), o - 1),
         o = End(t, s) \/ t[o] \notin {Space, Quote}
  PROVE  ~ IsQuoted(t, s) /\ ValueText(t, s) = Trimmed(t, o, End(t, s) - 1)
<1>. DEFINE e == End(t, s)
            v == ValueStart(t, s)
<1>1. Len(t) \in Nat
  OBVIOUS
<1>2. e \in Nat /\ e >= 2 /\ e <= Len(t) + 1 /\ v \in Nat /\ v >= 2
  BY <1>1, PartPlaces
<1>3. Lacks(t, Characters \ {Space}, v, o - 1)
  BY DEF Lacks, OnlySpaces
<1>4. o = e \/ t[o] \in Characters \ {Space}
  <2>1. CASE o < e
    <3>1. o \in 1 .. Len(t)
      BY <1>1, <1>2, <2>1
    <3>2. t[o] \in Characters
      BY <3>1
    <3>. QED
      BY <2>1, <3>2
  <2>. QED
    BY <1>2, <2>1
<1>5. Opening(t, s) = o
  <2>. DEFINE b == e - 1
  <2>1. b \in Nat /\ o <= b + 1 /\ (o = b + 1 \/ (o >= v /\ t[o] \in Characters \ {Space}))
    BY <1>2, <1>4
  <2>2. First(t, Characters \ {Space}, v, b) = o
    <3>. HIDE DEF b, v
    <3>. QED
      BY <1>2, <1>3, <2>1, FirstIs DEF v
  <2>. QED
    BY <2>2 DEF Opening
<1>6. ~ IsQuoted(t, s)
  BY <1>2, <1>5 DEF IsQuoted
<1>7. Trimmed(t, v, e - 1) = Trimmed(t, o, e - 1)
  <2>. DEFINE b == e - 1
  <2>1. b \in Nat /\ o <= b + 1
    BY <1>2
  <2>. HIDE DEF b
  <2>2. Trimmed(t, v, b) = Trimmed(t, o, b)
    BY <1>2, <2>1, TrimmedFrom
  <2>. QED
    BY <2>2 DEF b
<1>. QED
  BY <1>6, <1>7 DEF ValueText

\* An attribute without an "=" has no value.
LEMMA NoValue ==
  ASSUME NEW t \in Seq(Characters), Equals(t) <= Len(t), NEW s \in Starts(t),
         ValueStart(t, s) = End(t, s) + 1
  PROVE  ~ IsQuoted(t, s) /\ ValueText(t, s) = <<>>
<1>. DEFINE e == End(t, s)
<1>1. Len(t) \in Nat
  OBVIOUS
<1>2. e \in Nat /\ e >= 2
  BY <1>1, PartPlaces
<1>3. Opening(t, s) = e
  <2>. DEFINE b == e - 1
              v == e + 1
  <2>1. b \in Nat /\ e = b + 1 /\ e <= b + 1 /\ v \in Nat
    BY <1>2
  <2>2. Lacks(t, Characters \ {Space}, v, e - 1)
    BY <1>2 DEF Lacks
  <2>3. First(t, Characters \ {Space}, v, b) = e
    <3>. HIDE DEF b, e, v
    <3>. QED
      BY <1>2, <2>1, <2>2, FirstIs
  <2>. QED
    BY <2>3 DEF Opening
<1>4. ~ IsQuoted(t, s)
  BY <1>2, <1>3 DEF IsQuoted
<1>5. Trimmed(t, e + 1, e - 1) = <<>>
  <2>1. (e + 1) .. (e - 1) = {}
    BY <1>2
  <2>. QED
    BY <2>1 DEF Trimmed
<1>. QED
  BY <1>4, <1>5 DEF ValueText

\* A value is quoted when its first character is a quote.
LEMMA QuotedValue ==
  ASSUME NEW t \in Seq(Characters), Equals(t) <= Len(t), NEW s \in Starts(t),
         NEW o \in Nat, ValueStart(t, s) < o, o <= End(t, s),
         OnlySpaces(t, ValueStart(t, s), o - 2), t[o - 1] = Quote
  PROVE  /\ IsQuoted(t, s) /\ Opening(t, s) = o - 1
         /\ Closing(t, s) = First(t, {Quote}, o, End(t, s) - 1)
<1>. DEFINE e == End(t, s)
            v == ValueStart(t, s)
            q == o - 1
<1>1. Len(t) \in Nat
  OBVIOUS
<1>2. e \in Nat /\ e >= 2 /\ e <= Len(t) + 1 /\ v \in Nat /\ v >= 2
  BY <1>1, PartPlaces
<1>3. q \in Nat /\ v <= q /\ q < e /\ q + 1 = o /\ OnlySpaces(t, v, q - 1) /\ t[q] = Quote
  BY <1>2
<1>4. t[q] \in Characters \ {Space}
  BY <1>3 DEF Characters, Quote, Space
<1>5. Lacks(t, Characters \ {Space}, v, q - 1)
  BY <1>3 DEF Lacks, OnlySpaces
<1>6. Opening(t, s) = q
  <2>. DEFINE b == e - 1
  <2>1. b \in Nat /\ q <= b + 1 /\ q >= v
    BY <1>2, <1>3
  <2>2. First(t, Characters \ {Space}, v, b) = q
    <3>. HIDE DEF b, v, q
    <3>. QED
      BY <1>2, <1>3, <1>4, <1>5, <2>1, FirstIs
  <2>. QED
    BY <2>2 DEF Opening
<1>. QED
  BY <1>3, <1>6 DEF IsQuoted, Closing

\* It is the text up to the next quote, and has to have one.
LEMMA ClosedValue ==
  ASSUME NEW t \in Seq(Characters), Equals(t) <= Len(t), NEW s \in Starts(t),
         NEW o \in Nat, ValueStart(t, s) < o, o <= End(t, s),
         OnlySpaces(t, ValueStart(t, s), o - 2), t[o - 1] = Quote,
         NEW q \in Nat, o <= q, q <= End(t, s), Lacks(t, {Quote}, o, q - 1)
  PROVE  /\ q = End(t, s) => ~ Closed(t, s)
         /\ q < End(t, s) /\ t[q] = Quote =>
              /\ IsQuoted(t, s) /\ Closing(t, s) = q
              /\ ValueText(t, s) = Trimmed(t, o, q - 1)
<1>. DEFINE e == End(t, s)
            b == e - 1
<1>1. Len(t) \in Nat
  OBVIOUS
<1>2. e \in Nat /\ e >= 2 /\ b \in Nat /\ b + 1 = e
  <2>1. s \in Nat /\ s >= 2 /\ e \in s .. Len(t) + 1
    BY PartPlaces
  <2>. QED
    BY <1>1, <2>1
<1>3. IsQuoted(t, s) /\ Opening(t, s) = o - 1 /\ Closing(t, s) = First(t, {Quote}, o, b)
  BY QuotedValue
<1>4. ASSUME q = e \/ t[q] = Quote PROVE Closing(t, s) = q
  <2>1. q <= b + 1 /\ (q = b + 1 \/ (q >= o /\ t[q] \in {Quote}))
    BY <1>2, <1>4
  <2>. HIDE DEF b
  <2>. QED
    BY <1>2, <1>3, <2>1, FirstIs
<1>5. ASSUME q = e PROVE ~ Closed(t, s)
  BY <1>2, <1>3, <1>4, <1>5 DEF Closed
<1>6. ASSUME q < e, t[q] = Quote
      PROVE  Closing(t, s) = q /\ ValueText(t, s) = Trimmed(t, o, q - 1)
  <2>1. o - 1 + 1 = o
    OBVIOUS
  <2>. QED
    BY <1>3, <1>4, <1>6, <2>1 DEF ValueText
<1>. QED
  BY <1>3, <1>5, <1>6

----------------------------------------------------------------------------
(* The invariant: where Parse is in the field, and what it has made of the *)
(* parts before.                                                           *)

\* The cookie with the attributes that begin before s.
NamedBefore(t, s) == {r \in NamedStarts(t) : r < s}
Collected(t, s) ==
  [name |-> CookieName(t), value |-> ValueText(t, Equals(t) + 1),
   attributes |-> Attributes(t, NamedBefore(t, s))]

\* The builder and the name while the part s is read, once its name is.
Begun(s) == cookie = IF s = Equals(value) + 1 THEN Null ELSE Collected(value, s)
NameRead(s) ==
  /\ Begun(s)
  /\ NameFine(value, s)
  /\ s # Equals(value) + 1 => NameEnd(value, s) < End(value, s)
  /\ name = IF s = Equals(value) + 1 THEN CookieName(value) ELSE AttributeName(value, s)

InName ==
  /\ state = "Name" /\ offset = 1 /\ cookie = Null /\ quoted = FALSE
  /\ Lacks(value, {Wide, Equal}, 1, i - 1)

InAttributeName(s) ==
  /\ state = "AttributeName" /\ offset = s /\ quoted = FALSE
  /\ s # Equals(value) + 1 /\ Begun(s)
  /\ Lacks(value, Controls \cup {Equal}, s, i - 1)

InValueStart(s) ==
  /\ state = IF s = Equals(value) + 1 THEN "ValueStart" ELSE "AttributeValueStart"
  /\ quoted = FALSE /\ NameRead(s)
  /\ ValueStart(value, s) <= i
  /\ OnlySpaces(value, ValueStart(value, s), i - 1)

\* In a text, from its first character or from the one after its first quote.
InUnquoted(s) ==
  /\ quoted = FALSE /\ NameRead(s)
  /\ offset \in Nat /\ ValueStart(value, s) <= offset /\ offset <= i
  /\ offset <= Len(value) /\ value[offset] \notin {Space, Quote}
  /\ OnlySpaces(value, ValueStart(value, s), offset - 1)
InQuoted(s) ==
  /\ quoted = TRUE /\ NameRead(s)
  /\ offset \in Nat /\ ValueStart(value, s) < offset /\ offset <= i
  /\ value[offset - 1] = Quote
  /\ OnlySpaces(value, ValueStart(value, s), offset - 2)
  /\ Lacks(value, {Quote}, offset, i - 1)
InValue(s) ==
  /\ state = IF s = Equals(value) + 1 THEN "Value" ELSE "AttributeValue"
  /\ InUnquoted(s) \/ InQuoted(s)

\* After the quote that closes a value.
InAttribute(s) ==
  /\ state = "Attribute" /\ quoted = FALSE /\ NameFine(value, s) /\ ~ Refused(value, s)
  /\ IsQuoted(value, s) /\ Closing(value, s) < i
  /\ OnlySpaces(value, Closing(value, s) + 1, i - 1)
  /\ cookie = Collected(value, End(value, s) + 1)

InPart(s) ==
  /\ Passed(value, s)
  /\ s <= i /\ i <= End(value, s)
  /\ InAttributeName(s) \/ InValueStart(s) \/ InValue(s) \/ InAttribute(s)

Result == IF IsCookie(value) THEN Cookie(value) ELSE Null

Reached ==
  \/ InName
  \/ \E s \in Starts(value) : InPart(s)
  \/ state = "Returned" /\ cookie = Result /\ ~ IsRejected(value)
  \/ state = "Thrown" /\ IsRejected(value)

ParserInv ==
  /\ value \in Seq(Characters)
  /\ i \in 1 .. Len(value) + 1
  /\ AllClosed(value) => Reached

----------------------------------------------------------------------------
(* What Parse knows when a part is done.                                   *)

\* A field describes a cookie when it has a name and each part is fine, and the
\* first part that is not decides what Parse does.
LEMMA CookieParts ==
  ASSUME NEW t \in Seq(Characters), NEW s \in Starts(t), Passed(t, s)
  PROVE  /\ ~ PartFine(t, s) => ~ IsCookie(t)
         /\ ~ PartFine(t, s) => (IsRejected(t) <=> NameFine(t, s) /\ Refused(t, s))
         /\ PartFine(t, s) => Passed(t, End(t, s) + 1)
         /\ PartFine(t, s) /\ End(t, s) = Len(t) + 1 => IsCookie(t) /\ ~ IsRejected(t)
<1>1. Equals(t) <= Len(t) /\ Len(t) \in Nat
  BY DEF Passed
<1>2. \A r \in Starts(t) : r \in Nat /\ r <= Len(t) + 1 /\ (r < End(t, s) + 1 <=> r <= s)
  BY <1>1, NextPart, Places
<1>3. s \in Nat /\ s <= Len(t) + 1 /\ s < Len(t) + 2
  BY <1>1, <1>2
<1>4. ASSUME PartFine(t, s) PROVE Passed(t, End(t, s) + 1)
  <2>1. ASSUME NEW r \in Starts(t), r < End(t, s) + 1 PROVE PartFine(t, r)
    <3>1. r < s \/ r = s
      BY <1>2, <1>3, <2>1
    <3>. QED
      BY <1>4, <3>1 DEF Passed
  <2>. QED
    BY <2>1 DEF Passed
<1>5. ASSUME ~ PartFine(t, s) PROVE ~ IsCookie(t)
  BY <1>3, <1>5 DEF IsCookie, Passed
<1>6. ASSUME ~ PartFine(t, s) PROVE IsRejected(t) <=> NameFine(t, s) /\ Refused(t, s)
  <2>1. ASSUME NameFine(t, s), Refused(t, s) PROVE IsRejected(t)
    <3>1. s \in AttributeStarts(t)
      BY <2>1 DEF Refused, IsFirst, Starts
    <3>. QED
      BY <2>1, <3>1 DEF IsRejected
  <2>2. ASSUME IsRejected(t) PROVE NameFine(t, s) /\ Refused(t, s)
    <3>1. PICK r \in AttributeStarts(t) : Passed(t, r) /\ NameFine(t, r) /\ Refused(t, r)
      BY <2>2 DEF IsRejected
    <3>2. r \in Starts(t) /\ r \in Nat /\ ~ PartFine(t, r)
      BY <1>2, <3>1 DEF Starts, PartFine
    <3>3. ~(r < s)
      BY <3>2 DEF Passed
    <3>4. ~(s < r)
      BY <1>6, <3>1 DEF Passed
    <3>5. r = s
      BY <1>3, <3>2, <3>3, <3>4
    <3>. QED
      BY <3>1, <3>5
  <2>. QED
    BY <2>1, <2>2
<1>7. ASSUME PartFine(t, s), End(t, s) = Len(t) + 1 PROVE IsCookie(t) /\ ~ IsRejected(t)
  <2>1. Passed(t, Len(t) + 2)
    BY <1>1, <1>4, <1>7
  <2>2. ASSUME NEW r \in AttributeStarts(t) PROVE ~ Refused(t, r)
    <3>1. r \in Starts(t) /\ r < Len(t) + 2
      BY <1>1, <1>2 DEF Starts
    <3>. QED
      BY <2>1, <3>1 DEF Passed, PartFine
  <2>. QED
    BY <2>1, <2>2 DEF IsCookie, IsRejected
<1>. QED
  BY <1>4, <1>5, <1>6, <1>7

\* Nothing but the name and the value is collected from the first part.
LEMMA CollectedFirst ==
  ASSUME NEW t \in Seq(Characters), Equals(t) <= Len(t)
  PROVE  Collected(t, End(t, Equals(t) + 1) + 1)
           = Build(CookieName(t), ValueText(t, Equals(t) + 1))
<1>. DEFINE s == Equals(t) + 1
            B == NamedBefore(t, End(t, s) + 1)
<1>1. Len(t) \in Nat /\ Equals(t) \in Nat
  BY Places
<1>2. s \in Starts(t)
  BY DEF Starts
<1>3. ASSUME NEW r \in B PROVE FALSE
  <2>1. r \in AttributeStarts(t) /\ r < End(t, s) + 1
    BY DEF NamedBefore, NamedStarts
  <2>2. r \in Starts(t)
    BY <2>1 DEF Starts
  <2>3. r <= s
    BY <1>2, <2>1, <2>2, NextPart
  <2>4. r \in Equals(t) + 2 .. Len(t) + 1
    BY <2>1, Places
  <2>. QED
    BY <1>1, <2>3, <2>4
<1>4. B = {}
  BY <1>3
<1>5. Attributes(t, {}) = {}
  BY DEF Attributes
<1>. QED
  BY <1>4, <1>5 DEF Collected, Build

\* An attribute replaces the one that was kept under its key, if there was one.
LEMMA AttributesNext ==
  ASSUME NEW t, NEW B \in SUBSET Nat, NEW s \in Nat, \A r \in B : r < s
  PROVE  Attributes(t, B \cup {s}) =
           {a \in Attributes(t, B) : a.name # KeyAt(t, s)}
             \cup IF KeptAt(t, s) = <<>> THEN {}
                  ELSE {[name |-> KeyAt(t, s), value |-> KeptAt(t, s)]}
<1>. DEFINE Last(S) == {r \in S : /\ KeptAt(t, r) # <<>>
                                 /\ \A q \in S : q > r => KeyAt(t, q) # KeyAt(t, r)}
            Entry(r) == [name |-> KeyAt(t, r), value |-> KeptAt(t, r)]
<1>1. \A S : Attributes(t, S) = {Entry(r) : r \in Last(S)}
  BY DEF Attributes
<1>2. \A r : Entry(r).name = KeyAt(t, r)
  OBVIOUS
<1>3. Last(B \cup {s}) =
        {r \in Last(B) : KeyAt(t, r) # KeyAt(t, s)} \cup IF KeptAt(t, s) = <<>> THEN {} ELSE {s}
  <2>1. ASSUME NEW r \in B
        PROVE  r \in Last(B \cup {s}) <=> r \in Last(B) /\ KeyAt(t, r) # KeyAt(t, s)
    <3>1. s > r /\ r # s
      OBVIOUS
    <3>. QED
      BY <3>1
  <2>2. s \in Last(B \cup {s}) <=> KeptAt(t, s) # <<>>
    <3>1. \A q \in B \cup {s} : ~(q > s)
      OBVIOUS
    <3>. QED
      BY <3>1
  <2>3. s \notin B
    OBVIOUS
  <2>4. Last(B) \in SUBSET B /\ Last(B \cup {s}) \in SUBSET (B \cup {s})
    OBVIOUS
  <2>. HIDE DEF Last
  <2>. QED
    BY <2>1, <2>2, <2>3, <2>4
<1>. HIDE DEF Last, Entry
<1>4. {Entry(r) : r \in {r \in Last(B) : KeyAt(t, r) # KeyAt(t, s)}}
        = {a \in {Entry(r) : r \in Last(B)} : a.name # KeyAt(t, s)}
  BY <1>2
<1>5. CASE KeptAt(t, s) = <<>>
  BY <1>1, <1>3, <1>4, <1>5
<1>6. CASE KeptAt(t, s) # <<>>
  <2>1. \A P : {Entry(r) : r \in P \cup {s}} = {Entry(r) : r \in P} \cup {Entry(s)}
    OBVIOUS
  <2>. QED
    BY <1>1, <1>3, <1>4, <1>6, <2>1 DEF Entry
<1>. QED
  BY <1>5, <1>6

\* So it is with the attributes of a cookie, but one without a name is skipped.
LEMMA CollectedNext ==
  ASSUME NEW t \in Seq(Characters), Equals(t) <= Len(t), NEW s \in AttributeStarts(t)
  PROVE  Collected(t, End(t, s) + 1) =
           IF AttributeName(t, s) = <<>> THEN Collected(t, s)
           ELSE [Collected(t, s) EXCEPT !.attributes =
                   {a \in @ : a.name # KeyAt(t, s)}
                     \cup IF KeptAt(t, s) = <<>> THEN {}
                          ELSE {[name |-> KeyAt(t, s), value |-> KeptAt(t, s)]}]
<1>. DEFINE B == NamedBefore(t, s)
            C == NamedBefore(t, End(t, s) + 1)
<1>1. s \in Starts(t)
  BY DEF Starts
<1>2. \A r \in NamedStarts(t) : r \in Nat /\ (r < End(t, s) + 1 <=> r <= s)
  BY <1>1, NextPart DEF NamedStarts, Starts
<1>3. s \in Nat
  BY <1>1, NextPart
<1>4. CASE AttributeName(t, s) = <<>>
  <2>1. B = C
    <3>1. s \notin NamedStarts(t)
      BY <1>4 DEF NamedStarts
    <3>2. ASSUME NEW r \in NamedStarts(t) PROVE r < s <=> r < End(t, s) + 1
      <4>1. r \in Nat /\ r # s
        BY <1>2, <3>1
      <4>. QED
        BY <1>2, <1>3, <4>1
    <3>. QED
      BY <3>2 DEF NamedBefore
  <2>. QED
    BY <1>4, <2>1 DEF Collected
<1>5. CASE AttributeName(t, s) # <<>>
  <2>1. s \in NamedStarts(t)
    BY <1>5 DEF NamedStarts
  <2>2. C = B \cup {s}
    <3>1. ASSUME NEW r \in NamedStarts(t) PROVE r < End(t, s) + 1 <=> (r < s \/ r = s)
      BY <1>2, <1>3
    <3>. QED
      BY <2>1, <3>1 DEF NamedBefore
  <2>3. B \in SUBSET Nat /\ \A r \in B : r < s
    BY <1>2 DEF NamedBefore
  <2>. HIDE DEF B, C
  <2>4. Attributes(t, C) =
          {a \in Attributes(t, B) : a.name # KeyAt(t, s)}
            \cup IF KeptAt(t, s) = <<>> THEN {}
                 ELSE {[name |-> KeyAt(t, s), value |-> KeptAt(t, s)]}
    BY <1>3, <2>2, <2>3, AttributesNext
  <2>. QED
    BY <1>5, <2>4 DEF Collected, B, C
<1>. QED
  BY <1>4, <1>5

\* After the last part the cookie is complete.
LEMMA CollectedAll ==
  ASSUME NEW t \in Seq(Characters), Equals(t) <= Len(t), NEW s \in Starts(t),
         End(t, s) = Len(t) + 1
  PROVE  Collected(t, End(t, s) + 1) = Cookie(t)
<1>1. Len(t) \in Nat
  OBVIOUS
<1>2. \A r \in NamedStarts(t) : r < End(t, s) + 1
  BY <1>1, Places DEF NamedStarts
<1>3. NamedBefore(t, End(t, s) + 1) = NamedStarts(t)
  BY <1>2 DEF NamedBefore
<1>. QED
  BY <1>3 DEF Collected, Cookie

----------------------------------------------------------------------------
(* A turn of the loop.                                                     *)

\* Where the loop is in a part: inside it, or at the semicolon or the end of
\* the field that ends it.
LEMMA PartFacts ==
  ASSUME value \in Seq(Characters), i \in 1 .. Len(value) + 1, NEW s \in Starts(value),
         Passed(value, s), s <= i, i <= End(value, s)
  PROVE  /\ Len(value) \in Nat /\ Equals(value) \in Nat /\ Equals(value) <= Len(value)
         /\ i \in Nat /\ s \in Nat /\ s >= 2 /\ End(value, s) \in Nat
         /\ End(value, s) <= Len(value) + 1
         /\ NameEnd(value, s) \in s .. End(value, s)
         /\ Lacks(value, {Equal}, s, NameEnd(value, s) - 1)
         /\ ValueStart(value, s) \in Nat /\ ValueStart(value, s) >= s
         /\ i <= Len(value) => (value[i] = Semicolon <=> i = End(value, s))
         /\ i <= Len(value) => i < Len(value) + 1
         /\ i > Len(value) => i = Len(value) + 1 /\ i = End(value, s)
<1>1. Len(value) \in Nat /\ Equals(value) <= Len(value) /\ i \in Nat
  BY DEF Passed
<1>2. /\ s \in Nat /\ s >= 2 /\ Equals(value) \in Nat
      /\ End(value, s) \in s .. Len(value) + 1
      /\ Lacks(value, {Semicolon}, s, End(value, s) - 1)
      /\ End(value, s) <= Len(value) => value[End(value, s)] = Semicolon
      /\ NameEnd(value, s) \in s .. End(value, s)
      /\ Lacks(value, {Equal}, s, NameEnd(value, s) - 1)
      /\ ValueStart(value, s) \in s .. End(value, s) + 1
  BY <1>1, PartPlaces
<1>3. ASSUME i <= Len(value), value[i] = Semicolon PROVE i = End(value, s)
  <2>1. i \notin s .. End(value, s) - 1
    BY <1>2, <1>3 DEF Lacks
  <2>. QED
    BY <1>1, <1>2, <2>1
<1>4. ASSUME i <= Len(value), i = End(value, s) PROVE value[i] = Semicolon
  BY <1>2, <1>4
<1>. QED
  BY <1>1, <1>2, <1>3, <1>4

\* After the semicolon that ends a part, the name of an attribute follows.
LEMMA PartDone ==
  ASSUME value \in Seq(Characters), NEW s \in Starts(value),
         Passed(value, s), PartFine(value, s), i = End(value, s), i <= Len(value),
         value' = value, state' = "AttributeName", i' = i + 1, offset' = i + 1,
         quoted' = FALSE, cookie' = Collected(value, i + 1)
  PROVE  Reached'
<1>1. Len(value) \in Nat /\ Equals(value) <= Len(value)
  BY DEF Passed
<1>2. PICK r : r = i + 1 /\ r \in AttributeStarts(value)
  BY <1>1, NextPart
<1>3. r \in Starts(value) /\ r # Equals(value) + 1 /\ r \in Nat
  BY <1>1, <1>2, Places DEF Starts
<1>4. Passed(value, r)
  BY <1>2, CookieParts
<1>5. r <= End(value, r)
  BY <1>1, <1>3, PartPlaces
<1>6. Lacks(value, Controls \cup {Equal}, r, r - 1)
  BY <1>3 DEF Lacks
<1>7. i' = r /\ offset' = r /\ cookie' = Collected(value, r)
  BY <1>2
<1>8. InAttributeName(r)'
  BY <1>3, <1>6, <1>7 DEF InAttributeName, Begun
<1>9. InPart(r)'
  BY <1>3, <1>4, <1>5, <1>7, <1>8 DEF InPart
<1>. QED
  BY <1>3, <1>9 DEF Reached

\* When the field ends with the part, Parse returns what it collected.
LEMMA FieldDone ==
  ASSUME value \in Seq(Characters), NEW s \in Starts(value),
         Passed(value, s), PartFine(value, s), i = End(value, s), i = Len(value) + 1,
         value' = value, state' = "Returned", cookie' = Collected(value, i + 1)
  PROVE  Reached'
<1>1. Equals(value) <= Len(value)
  BY DEF Passed
<1>2. IsCookie(value) /\ ~ IsRejected(value)
  BY CookieParts
<1>3. Collected(value, i + 1) = Cookie(value)
  BY <1>1, CollectedAll
<1>4. Result' = Cookie(value)
  BY <1>2 DEF Result
<1>. QED
  BY <1>2, <1>3, <1>4 DEF Reached

\* And at a part that is not fine it returns none.
LEMMA GivesUp ==
  ASSUME ~ IsCookie(value), ~ IsRejected(value),
         value' = value, state' = "Returned", cookie' = Null
  PROVE  Reached'
<1>1. Result' = Null
  BY DEF Result
<1>. QED
  BY <1>1 DEF Reached

\* The name of the cookie.
LEMMA NameStep ==
  ASSUME value \in Seq(Characters), i \in 1 .. Len(value) + 1, InName, NameChar
  PROVE  Reached'
<1>1. /\ Len(value) \in Nat /\ i \in Nat /\ i >= 1 /\ i <= Len(value)
      /\ value' = value
  BY DEF NameChar, Reading, Return, Goto, Stay
<1>2. /\ Equals(value) \in 1 .. Len(value) + 1
      /\ Equals(value) <= Len(value) => value[Equals(value)] = Equal
  <2>1. Equals(value) = First(value, {Equal}, 1, Len(value))
    BY DEF Equals
  <2>2. 1 \in Nat
    OBVIOUS
  <2>. HIDE DEF Equals
  <2>3. /\ First(value, {Equal}, 1, Len(value)) \in (1 .. Len(value)) \cup {Len(value) + 1}
        /\ First(value, {Equal}, 1, Len(value)) <= Len(value) =>
             value[First(value, {Equal}, 1, Len(value))] \in {Equal}
    BY <1>1, <2>2, FirstFound
  <2>. QED
    BY <1>1, <2>1, <2>3
<1>3. CASE c = Wide /\ Return(Null)
  <2>1. Equals(value) > i
    <3>1. Equals(value) \notin 1 .. i
      BY <1>1, <1>2, <1>3 DEF InName, Lacks, c, Wide, Equal
    <3>. QED
      BY <1>1, <1>2, <3>1
  <2>2. i \in 1 .. Equals(value) - 1
    BY <1>1, <1>2, <2>1
  <2>3. ~ IsCookie(value) /\ ~ IsRejected(value)
    BY <1>3, <2>2 DEF IsCookie, IsRejected, Passed, Lacks, c
  <2>. QED
    BY <1>3, <2>3, GivesUp DEF Return
<1>4. CASE c = Equal
  <2>1. Equals(value) = i
    <3>1. Lacks(value, {Equal}, 1, i - 1)
      BY DEF InName, Lacks
    <3>2. 1 \in Nat /\ i <= Len(value) + 1 /\ i >= 1 /\ value[i] \in {Equal}
      BY <1>1, <1>4 DEF c
    <3>3. First(value, {Equal}, 1, Len(value)) = i
      BY <1>1, <3>1, <3>2, FirstIs
    <3>. QED
      BY <3>3 DEF Equals
  <2>2. Text = CookieName(value)
    BY <2>1 DEF Text, CookieName, InName
  <2>3. CASE Text = <<>> /\ Return(Null)
    <3>1. ~ IsCookie(value) /\ ~ IsRejected(value)
      BY <2>2, <2>3 DEF IsCookie, IsRejected, Passed
    <3>. QED
      BY <2>3, <3>1, GivesUp DEF Return
  <2>4. CASE Text # <<>> /\ name' = Text /\ Goto("ValueStart") /\ UNCHANGED <<quoted, cookie>>
    <3>1. PICK s : s = i + 1 /\ s \in Starts(value) /\ s = Equals(value) + 1 /\ s \in Nat
      BY <1>1, <2>1 DEF Starts
    <3>2. Passed(value, s)
      <4>1. Lacks(value, {Wide}, 1, Equals(value) - 1)
        BY <2>1 DEF InName, Lacks
      <4>2. ASSUME NEW r \in Starts(value) PROVE ~(r < s)
        <5>1. r \in Equals(value) + 1 .. Len(value) + 1
          BY <1>1, <2>1, Places
        <5>. QED
          BY <1>1, <2>1, <3>1, <5>1
      <4>. QED
        BY <1>1, <2>1, <2>2, <2>4, <4>1, <4>2 DEF Passed
    <3>3. s <= End(value, s)
      BY <1>1, <2>1, <3>1, PartPlaces
    <3>4. i' = s /\ state' = "ValueStart"
      BY <2>4, <3>1 DEF Goto
    <3>5. quoted' = FALSE /\ cookie' = Null /\ name' = CookieName(value)
      BY <2>2, <2>4 DEF InName
    <3>6. OnlySpaces(value, s, s - 1)
      BY <3>1 DEF OnlySpaces
    <3>7. ValueStart(value, s) = s /\ NameFine(value, s)
      BY <3>1 DEF ValueStart, NameFine, IsFirst
    <3>8. NameRead(s)'
      BY <1>1, <3>1, <3>5, <3>7 DEF NameRead, Begun
    <3>9. InValueStart(s)'
      BY <1>1, <3>1, <3>4, <3>5, <3>6, <3>7, <3>8 DEF InValueStart
    <3>10. InPart(s)'
      BY <1>1, <3>1, <3>2, <3>3, <3>4, <3>9 DEF InPart
    <3>. QED
      BY <1>1, <3>1, <3>10 DEF Reached
  <2>. QED
    BY <1>4, <2>3, <2>4 DEF NameChar, Wide, Equal
<1>5. CASE c \notin {Wide, Equal} /\ Stay
  <2>1. Lacks(value, {Wide, Equal}, 1, i + 1 - 1)
    BY <1>1, <1>5 DEF InName, Lacks, c
  <2>2. InName'
    BY <1>5, <2>1 DEF InName, Stay
  <2>. QED
    BY <2>2 DEF Reached
<1>. QED
  BY <1>3, <1>4, <1>5 DEF NameChar

\* The name of an attribute or of the cookie is kept while its value is read.
LEMMA NameKept ==
  ASSUME NEW s, NameRead(s), value' = value, name' = name, cookie' = cookie
  PROVE  NameRead(s)'
BY DEF NameRead, Begun

\* The blanks before a value, and its first character.
LEMMA ValueStartStep ==
  ASSUME value \in Seq(Characters), i \in 1 .. Len(value) + 1, NEW s \in Starts(value),
         Passed(value, s), s <= i, i <= End(value, s), InValueStart(s), ValueStartChar
  PROVE  Reached'
<1>1. i \in Nat /\ i <= Len(value) /\ value' = value /\ name' = name /\ cookie' = cookie
  BY DEF ValueStartChar, Reading, Goto, Stay
<1>. DEFINE v == ValueStart(value, s)
<1>2. /\ v \in Nat /\ v >= s /\ s \in Nat /\ End(value, s) \in Nat /\ v <= i
      /\ Len(value) \in Nat
      /\ value[i] = Semicolon <=> i = End(value, s)
  BY <1>1, PartFacts DEF InValueStart
<1>3. /\ state = IF s = Equals(value) + 1 THEN "ValueStart" ELSE "AttributeValueStart"
      /\ quoted = FALSE /\ OnlySpaces(value, v, i - 1)
  BY DEF InValueStart
<1>4. NameRead(s)'
  BY <1>1, NameKept DEF InValueStart
<1>5. ValueOf(state) = IF s = Equals(value) + 1 THEN "Value" ELSE "AttributeValue"
  BY <1>3 DEF ValueOf
<1>6. PICK j, u : j = i /\ u = v
  OBVIOUS
<1>7. /\ u \in Nat /\ u >= s /\ u <= j /\ j \in Nat /\ j <= Len(value) /\ j <= End(value, s)
      /\ u = ValueStart(value, s) /\ OnlySpaces(value, u, j - 1)
  BY <1>1, <1>2, <1>3, <1>6
<1>8. CASE c = Space /\ Stay
  <2>1. j + 1 <= End(value, s)
    BY <1>1, <1>2, <1>6, <1>8 DEF c, Space, Semicolon
  <2>2. OnlySpaces(value, u, j + 1 - 1)
    BY <1>1, <1>2, <1>3, <1>6, <1>8 DEF OnlySpaces, c
  <2>3. i' = j + 1 /\ state' = state /\ quoted' = quoted
    BY <1>6, <1>8 DEF Stay
  <2>4. InValueStart(s)'
    BY <1>1, <1>3, <1>4, <1>7, <2>2, <2>3 DEF InValueStart
  <2>5. InPart(s)'
    BY <1>1, <1>2, <1>7, <2>1, <2>3, <2>4 DEF InPart
  <2>. QED
    BY <1>1, <2>5 DEF Reached
<1>9. CASE c = Quote /\ quoted' = TRUE /\ Goto(ValueOf(state))
  <2>1. j + 1 <= End(value, s)
    BY <1>1, <1>2, <1>6, <1>9 DEF c, Quote, Semicolon
  <2>2. i' = j + 1 /\ offset' = j + 1 /\ state' = ValueOf(state)
    BY <1>6, <1>9 DEF Goto
  <2>3. value[j] = Quote
    BY <1>6, <1>9 DEF c
  <2>4. PICK o : o = j + 1
    OBVIOUS
  <2>5. /\ o \in Nat /\ u < o /\ o <= o /\ value[o - 1] = Quote /\ o - 1 = j
        /\ OnlySpaces(value, u, o - 2) /\ Lacks(value, {Quote}, o, o - 1)
    BY <1>7, <2>3, <2>4 DEF OnlySpaces, Lacks
  <2>6. i' = o /\ offset' = o
    BY <2>2, <2>4
  <2>7. InQuoted(s)'
    BY <1>1, <1>4, <1>7, <1>9, <2>5, <2>6 DEF InQuoted
  <2>8. InValue(s)'
    BY <1>1, <1>5, <2>2, <2>7 DEF InValue
  <2>9. s <= o /\ o <= End(value, s)
    BY <1>2, <1>7, <2>1, <2>4
  <2>10. InPart(s)'
    BY <1>1, <2>6, <2>8, <2>9 DEF InPart
  <2>. QED
    BY <1>1, <2>10 DEF Reached
<1>10. CASE /\ c \notin {Space, Quote} /\ state' = ValueOf(state) /\ offset' = i
            /\ i' = i /\ quoted' = quoted
  <2>1. value[j] \notin {Space, Quote} /\ offset' = j /\ i' = j /\ quoted' = FALSE
    BY <1>3, <1>6, <1>10 DEF c
  <2>2. InUnquoted(s)'
    BY <1>1, <1>4, <1>7, <2>1 DEF InUnquoted
  <2>3. InValue(s)'
    BY <1>1, <1>5, <1>10, <2>2 DEF InValue
  <2>4. InPart(s)'
    BY <1>1, <1>2, <1>7, <2>1, <2>3 DEF InPart
  <2>. QED
    BY <1>1, <2>4 DEF Reached
<1>. QED
  BY <1>8, <1>9, <1>10 DEF ValueStartChar

\* What the builder has when the value of a part is known.
LEMMA ValueMade ==
  ASSUME value \in Seq(Characters), Equals(value) <= Len(value), NEW s \in Starts(value)
  PROVE  /\ NameRead(s) /\ InValue(s) /\ Text = ValueText(value, s) =>
              WithValue = Collected(value, End(value, s) + 1)
         /\ s # Equals(value) + 1 /\ Begun(s) /\ ValueText(value, s) = <<>> =>
              SetAttribute(AttributeName(value, s), <<>>)
                = Collected(value, End(value, s) + 1)
<1>1. ASSUME NEW w, s # Equals(value) + 1, Begun(s), ValueText(value, s) = w
      PROVE  SetAttribute(AttributeName(value, s), w) = Collected(value, End(value, s) + 1)
  <2>1. s \in AttributeStarts(value)
    BY <1>1 DEF Starts
  <2>2. cookie = Collected(value, s)
    BY <1>1 DEF Begun
  <2>3. /\ KeyAt(value, s) = Key(AttributeName(value, s))
        /\ KeptAt(value, s) = Kept(AttributeName(value, s), w)
    BY <1>1 DEF KeyAt, KeptAt
  <2>. QED
    BY <2>1, <2>2, <2>3, CollectedNext DEF SetAttribute
<1>2. ASSUME NameRead(s), InValue(s), Text = ValueText(value, s)
      PROVE  WithValue = Collected(value, End(value, s) + 1)
  <2>1. CASE s = Equals(value) + 1
    <3>1. state = "Value" /\ name = CookieName(value)
      BY <1>2, <2>1 DEF InValue, NameRead
    <3>. QED
      BY <1>2, <2>1, <3>1, CollectedFirst DEF WithValue
  <2>2. CASE s # Equals(value) + 1
    <3>1. state = "AttributeValue" /\ name = AttributeName(value, s) /\ Begun(s)
      BY <1>2, <2>2 DEF InValue, NameRead
    <3>. QED
      BY <1>1, <1>2, <2>2, <3>1 DEF WithValue
  <2>. QED
    BY <2>1, <2>2
<1>. QED
  BY <1>1, <1>2

\* A value whose end is reached is the text that was read.
LEMMA TextRead ==
  ASSUME value \in Seq(Characters), i \in 1 .. Len(value) + 1, NEW s \in Starts(value),
         Passed(value, s), s <= i, i = End(value, s), InValue(s), AllClosed(value)
  PROVE  /\ ~ IsQuoted(value, s) /\ Text = ValueText(value, s)
         /\ NameFine(value, s) /\ NothingAfter(value, s)
<1>1. Equals(value) <= Len(value) /\ i \in Nat /\ End(value, s) \in Nat
  BY PartFacts
<1>2. NameFine(value, s) /\ (InUnquoted(s) \/ InQuoted(s))
  BY DEF InValue, InUnquoted, InQuoted, NameRead
<1>3. CASE InUnquoted(s)
  <2>1. /\ offset \in Nat /\ ValueStart(value, s) <= offset /\ offset <= End(value, s)
        /\ OnlySpaces(value, ValueStart(value, s), offset - 1)
        /\ value[offset] \notin {Space, Quote}
    BY <1>3 DEF InUnquoted
  <2>2. ~ IsQuoted(value, s) /\ ValueText(value, s) = Trimmed(value, offset, End(value, s) - 1)
    BY <1>1, <2>1, UnquotedValue
  <2>. QED
    BY <1>2, <2>2 DEF Text, NothingAfter
<1>4. CASE InQuoted(s)
  <2>1. /\ offset \in Nat /\ ValueStart(value, s) < offset /\ offset <= i
        /\ OnlySpaces(value, ValueStart(value, s), offset - 2)
        /\ value[offset - 1] = Quote /\ Lacks(value, {Quote}, offset, i - 1)
    BY <1>4 DEF InQuoted
  <2>2. PICK q : q = End(value, s)
    OBVIOUS
  <2>3. /\ q \in Nat /\ offset <= q /\ q <= End(value, s) /\ offset <= End(value, s)
        /\ Lacks(value, {Quote}, offset, q - 1)
    BY <1>1, <2>1, <2>2
  <2>4. ~ Closed(value, s)
    BY <1>1, <2>1, <2>2, <2>3, ClosedValue
  <2>. QED
    BY <1>1, <2>4 DEF AllClosed
<1>. QED
  BY <1>2, <1>3, <1>4

\* The builder refuses the text when it is refused as the value of the part.
LEMMA TextRefused ==
  ASSUME NEW s, NameRead(s), InValue(s), Text = ValueText(value, s)
  PROVE  ValueThrows <=> Refused(value, s)
<1>1. CASE s = Equals(value) + 1
  BY <1>1 DEF InValue, ValueThrows, Refused, IsFirst
<1>2. CASE s # Equals(value) + 1
  BY <1>2 DEF InValue, ValueThrows, Refused, IsFirst, NameRead
<1>. QED
  BY <1>1, <1>2

\* The first value that is refused ends Parse.
LEMMA ThrowsThere ==
  ASSUME NEW s \in Starts(value), Passed(value, s), NameFine(value, s), Refused(value, s),
         Throw
  PROVE  Reached'
<1>1. s \in AttributeStarts(value)
  BY DEF Refused, IsFirst, Starts
<1>2. IsRejected(value)
  BY <1>1 DEF IsRejected
<1>. QED
  BY <1>2 DEF Reached, Throw

\* A value.
LEMMA ValueStep ==
  ASSUME value \in Seq(Characters), i \in 1 .. Len(value) + 1, NEW s \in Starts(value),
         AllClosed(value), Passed(value, s), s <= i, i <= End(value, s), InValue(s), ValueChar
  PROVE  Reached'
<1>1. /\ i \in Nat /\ i <= Len(value) /\ value' = value
      /\ Equals(value) <= Len(value)
      /\ s \in Nat /\ End(value, s) \in Nat /\ Len(value) \in Nat
      /\ ValueStart(value, s) \in Nat /\ ValueStart(value, s) >= s
      /\ value[i] = Semicolon <=> i = End(value, s)
  BY PartFacts DEF ValueChar, Reading, Goto, Stay, Throw
<1>2. NameRead(s) /\ (InUnquoted(s) \/ InQuoted(s))
  BY DEF InValue, InUnquoted, InQuoted
<1>3. CASE quoted = TRUE /\ c = Quote
  <2>1. i < End(value, s) /\ value[i] = Quote
    BY <1>1, <1>3 DEF c, Quote, Semicolon
  <2>2. /\ offset \in Nat /\ ValueStart(value, s) < offset /\ offset <= i
        /\ OnlySpaces(value, ValueStart(value, s), offset - 2)
        /\ value[offset - 1] = Quote /\ Lacks(value, {Quote}, offset, i - 1)
    BY <1>2, <1>3 DEF InQuoted, InUnquoted
  <2>3. /\ IsQuoted(value, s) /\ Closing(value, s) = i
        /\ ValueText(value, s) = Trimmed(value, offset, i - 1)
    <3>1. offset <= End(value, s)
      BY <1>1, <2>1, <2>2
    <3>. QED
      BY <1>1, <2>1, <2>2, <3>1, ClosedValue
  <2>. SUFFICES ASSUME ~ (ValueThrows /\ Throw) PROVE Reached'
    BY <1>2, <2>3, TextRefused, ThrowsThere DEF NameRead, Text
  <2>4. /\ ~ ValueThrows /\ quoted' = FALSE
         /\ cookie' = WithValue /\ Goto("Attribute")
    BY <1>3 DEF ValueChar, Quote, Semicolon
  <2>5. ~ Refused(value, s)
    BY <1>2, <2>3, <2>4, TextRefused DEF Text
  <2>6. cookie' = Collected(value, End(value, s) + 1)
    BY <1>1, <1>2, <2>3, <2>4, ValueMade DEF Text
  <2>7. PICK j : j = i + 1
    OBVIOUS
  <2>8. i' = j /\ state' = "Attribute" /\ s <= j /\ j <= End(value, s)
    BY <1>1, <2>1, <2>7, <2>4 DEF Goto
  <2>9. Closing(value, s) < j /\ OnlySpaces(value, Closing(value, s) + 1, j - 1)
    BY <1>1, <2>3, <2>7 DEF OnlySpaces
  <2>10. InAttribute(s)'
    BY <1>1, <1>2, <2>3, <2>6, <2>8, <2>9, <2>4, <2>5 DEF InAttribute, NameRead
  <2>11. InPart(s)'
    BY <1>1, <2>8, <2>10 DEF InPart
  <2>. QED
    BY <1>1, <2>11 DEF Reached
<1>4. CASE c = Semicolon
  <2>1. i = End(value, s)
    BY <1>1, <1>4 DEF c
  <2>2. /\ ~ IsQuoted(value, s) /\ Text = ValueText(value, s)
        /\ NameFine(value, s) /\ NothingAfter(value, s)
    BY <2>1, TextRead
  <2>. SUFFICES ASSUME ~ (ValueThrows /\ Throw) PROVE Reached'
    BY <1>2, <2>2, TextRefused, ThrowsThere
  <2>3. ~ ValueThrows /\ cookie' = WithValue /\ Goto("AttributeName") /\ quoted' = quoted
    BY <1>4 DEF ValueChar, Quote, Semicolon
  <2>4. ~ IsQuoted(value, s) /\ PartFine(value, s)
    BY <1>2, <2>2, <2>3, TextRefused DEF PartFine
  <2>5. cookie' = Collected(value, i + 1)
    BY <1>1, <1>2, <2>1, <2>2, <2>3, ValueMade
  <2>6. quoted' = FALSE
    <3>1. CASE InUnquoted(s)
      BY <2>3, <3>1 DEF InUnquoted
    <3>2. CASE InQuoted(s)
      <4>1. /\ offset \in Nat /\ ValueStart(value, s) < offset /\ offset <= End(value, s)
            /\ OnlySpaces(value, ValueStart(value, s), offset - 2)
            /\ value[offset - 1] = Quote
        BY <2>1, <3>2 DEF InQuoted
      <4>. QED
        BY <1>1, <2>4, <4>1, QuotedValue
    <3>. QED
      BY <1>2, <3>1, <3>2
  <2>7. state' = "AttributeName" /\ i' = i + 1 /\ offset' = i + 1
    BY <2>3 DEF Goto
  <2>. QED
    BY <1>1, <2>1, <2>4, <2>5, <2>6, <2>7, PartDone
<1>5. CASE c # Semicolon /\ ~ (quoted /\ c = Quote) /\ Stay
  <2>1. PICK j : j = i
    OBVIOUS
  <2>2. /\ i' = j + 1 /\ state' = state /\ offset' = offset /\ quoted' = quoted
        /\ name' = name /\ cookie' = cookie
    BY <1>5, <2>1 DEF Stay
  <2>3. s <= j + 1 /\ j + 1 <= End(value, s)
    BY <1>1, <1>5, <2>1 DEF c
  <2>4. NameRead(s)'
    BY <1>1, <1>2, <2>2, NameKept
  <2>5. PICK o : o = offset
    OBVIOUS
  <2>6. InUnquoted(s) => InUnquoted(s)'
    <3>. SUFFICES ASSUME InUnquoted(s) PROVE InUnquoted(s)'
      OBVIOUS
    <3>1. /\ o \in Nat /\ o <= j + 1 /\ ValueStart(value, s) <= o
          /\ o <= Len(value) /\ value[o] \notin {Space, Quote}
          /\ OnlySpaces(value, ValueStart(value, s), o - 1)
      BY <1>1, <2>1, <2>5 DEF InUnquoted
    <3>2. value' = value /\ i' = j + 1 /\ offset' = o /\ quoted' = FALSE
      BY <1>1, <2>2, <2>5 DEF InUnquoted
    <3>. QED
      BY <2>4, <3>1, <3>2 DEF InUnquoted
  <2>7. InQuoted(s) => InQuoted(s)'
    <3>. SUFFICES ASSUME InQuoted(s) PROVE InQuoted(s)'
      OBVIOUS
    <3>1. quoted = TRUE /\ quoted' = TRUE
      BY <2>2 DEF InQuoted
    <3>2. value[j] # Quote
      BY <1>5, <2>1, <3>1 DEF c
    <3>3. PICK k : k = j + 1
      OBVIOUS
    <3>4. /\ o \in Nat /\ o <= k /\ k \in Nat /\ ValueStart(value, s) < o /\ value[o - 1] = Quote
          /\ OnlySpaces(value, ValueStart(value, s), o - 2)
      BY <1>1, <2>1, <2>5, <3>3 DEF InQuoted
    <3>5. Lacks(value, {Quote}, o, k - 1)
      <4>1. Lacks(value, {Quote}, o, j - 1)
        BY <2>1, <2>5 DEF InQuoted
      <4>. QED
        BY <1>1, <2>1, <3>2, <3>3, <3>4, <4>1 DEF Lacks
    <3>6. value' = value /\ i' = k /\ offset' = o
      BY <1>1, <2>2, <2>5, <3>3
    <3>. QED
      BY <2>4, <3>1, <3>4, <3>5, <3>6 DEF InQuoted
  <2>8. InValue(s)'
    BY <1>1, <2>2, <2>6, <2>7 DEF InValue
  <2>9. InPart(s)'
    BY <1>1, <2>2, <2>3, <2>8 DEF InPart
  <2>. QED
    BY <1>1, <2>9 DEF Reached
<1>6. quoted \in BOOLEAN
  BY <1>2 DEF InUnquoted, InQuoted
<1>. QED
  BY <1>3, <1>4, <1>5, <1>6 DEF ValueChar

\* The blanks after a quoted value.
LEMMA AttributeStep ==
  ASSUME value \in Seq(Characters), i \in 1 .. Len(value) + 1, NEW s \in Starts(value),
         Passed(value, s), s <= i, i <= End(value, s), InAttribute(s), AttributeChar
  PROVE  Reached'
<1>1. /\ i \in Nat /\ i <= Len(value) /\ value' = value
      /\ s \in Nat /\ End(value, s) \in Nat /\ Len(value) \in Nat
      /\ value[i] = Semicolon <=> i = End(value, s)
  BY PartFacts DEF AttributeChar, Reading, Goto, Stay, Return
<1>2. /\ quoted = FALSE /\ NameFine(value, s) /\ ~ Refused(value, s) /\ IsQuoted(value, s)
      /\ Closing(value, s) < i
      /\ OnlySpaces(value, Closing(value, s) + 1, i - 1)
      /\ cookie = Collected(value, End(value, s) + 1)
  BY DEF InAttribute
<1>3. Closing(value, s) \in Nat
  <2>1. ValueStart(value, s) \in Nat /\ End(value, s) - 1 \in Nat /\ Quote \notin {}
    BY <1>1, PartFacts
  <2>. DEFINE b == End(value, s) - 1
              o == Opening(value, s)
  <2>2. o \in Nat
    <3>1. b \in Nat /\ o = First(value, Characters \ {Space}, ValueStart(value, s), b)
      BY <2>1 DEF Opening
    <3>. HIDE DEF b, o
    <3>. QED
      BY <2>1, <3>1, FirstFound
  <2>3. Closing(value, s) = First(value, {Quote}, o + 1, b) /\ b \in Nat
    BY <2>1 DEF Closing
  <2>. HIDE DEF b, o
  <2>. QED
    BY <2>2, <2>3, FirstFound
<1>4. CASE c = Space /\ Stay
  <2>1. PICK j : j = i + 1
    OBVIOUS
  <2>2. i' = j /\ state' = state /\ quoted' = quoted /\ cookie' = cookie
    BY <1>4, <2>1 DEF Stay
  <2>3. s <= j /\ j <= End(value, s) /\ Closing(value, s) < j
    BY <1>1, <1>2, <1>3, <1>4, <2>1 DEF c, Space, Semicolon
  <2>4. OnlySpaces(value, Closing(value, s) + 1, j - 1)
    BY <1>1, <1>2, <1>3, <1>4, <2>1 DEF OnlySpaces, c
  <2>5. InAttribute(s)'
    BY <1>1, <1>2, <2>2, <2>3, <2>4 DEF InAttribute
  <2>6. InPart(s)'
    BY <1>1, <2>2, <2>3, <2>5 DEF InPart
  <2>. QED
    BY <1>1, <2>6 DEF Reached
<1>5. CASE c = Semicolon /\ Goto("AttributeName") /\ UNCHANGED <<name, quoted, cookie>>
  <2>1. i = End(value, s)
    BY <1>1, <1>5 DEF c
  <2>2. PartFine(value, s)
    BY <1>2, <2>1 DEF PartFine, NothingAfter
  <2>3. state' = "AttributeName" /\ i' = i + 1 /\ offset' = i + 1 /\ quoted' = FALSE
    BY <1>2, <1>5 DEF Goto
  <2>4. cookie' = Collected(value, i + 1)
    BY <1>2, <1>5, <2>1
  <2>. QED
    BY <1>1, <2>1, <2>2, <2>3, <2>4, PartDone
<1>6. CASE c \notin {Space, Semicolon} /\ Return(Null)
  <2>1. i < End(value, s)
    BY <1>1, <1>6 DEF c
  <2>2. i \in Closing(value, s) + 1 .. End(value, s) - 1
    BY <1>1, <1>2, <1>3, <2>1
  <2>3. ~ NothingAfter(value, s)
    BY <1>2, <1>6, <2>2 DEF NothingAfter, OnlySpaces, c
  <2>4. ~ IsCookie(value) /\ ~ IsRejected(value)
    BY <1>2, <2>3, CookieParts DEF PartFine
  <2>. QED
    BY <1>6, <2>4, GivesUp DEF Return
<1>. QED
  BY <1>4, <1>5, <1>6 DEF AttributeChar

\* The name of an attribute ends at the first "=" or with the part, and in the
\* second case the attribute has no value.
LEMMA NameEnds ==
  ASSUME value \in Seq(Characters), i \in 1 .. Len(value) + 1, NEW s \in Starts(value),
         Passed(value, s), s <= i, i <= End(value, s), InAttributeName(s)
  PROVE  /\ i < End(value, s) /\ value[i] = Equal => NameEnd(value, s) = i
         /\ i = End(value, s) =>
              /\ NameEnd(value, s) = i
              /\ Text = AttributeName(value, s)
              /\ ValueText(value, s) = <<>>
              /\ PartFine(value, s)
<1>1. /\ i \in Nat /\ Equals(value) <= Len(value)
      /\ s \in Nat /\ End(value, s) \in Nat
  BY PartFacts
<1>2. /\ offset = s /\ s # Equals(value) + 1
      /\ Lacks(value, Controls \cup {Equal}, s, i - 1)
  BY DEF InAttributeName
<1>3. Lacks(value, {Equal}, s, i - 1) /\ Lacks(value, Controls, s, i - 1)
  BY <1>2 DEF Lacks
<1>4. ASSUME i = End(value, s) \/ value[i] = Equal PROVE NameEnd(value, s) = i
  <2>. DEFINE b == End(value, s) - 1
  <2>1. b \in Nat /\ i <= b + 1 /\ (i = b + 1 \/ (i >= s /\ value[i] \in {Equal}))
    <3>1. s >= 1
      BY PartFacts
    <3>. QED
      BY <1>1, <1>4, <3>1
  <2>. HIDE DEF b
  <2>2. First(value, {Equal}, s, b) = i
    BY <1>1, <1>3, <2>1, FirstIs
  <2>. QED
    BY <2>2 DEF NameEnd, b
<1>5. ASSUME i = End(value, s)
      PROVE  /\ Text = AttributeName(value, s)
             /\ ValueText(value, s) = <<>>
             /\ PartFine(value, s)
  <2>1. NameEnd(value, s) = i
    BY <1>4, <1>5
  <2>2. ~ IsQuoted(value, s) /\ ValueText(value, s) = <<>>
    <3>1. ValueStart(value, s) = End(value, s) + 1
      BY <1>2, <1>5, <2>1 DEF ValueStart
    <3>. QED
      BY <1>1, <3>1, NoValue
  <2>3. Text = AttributeName(value, s)
    BY <1>2, <2>1 DEF Text, AttributeName
  <2>4. ~ Refused(value, s)
    BY <2>2 DEF Refused, Throws
  <2>5. PartFine(value, s)
    BY <1>3, <2>1, <2>2, <2>4 DEF PartFine, NameFine, NothingAfter
  <2>. QED
    BY <2>2, <2>3, <2>5
<1>. QED
  BY <1>4, <1>5

\* The name of an attribute.
LEMMA AttributeNameStep ==
  ASSUME value \in Seq(Characters), i \in 1 .. Len(value) + 1, NEW s \in Starts(value),
         Passed(value, s), s <= i, i <= End(value, s), InAttributeName(s), AttributeNameChar
  PROVE  Reached'
<1>1. /\ i \in Nat /\ i <= Len(value) /\ value' = value /\ Equals(value) <= Len(value)
      /\ s \in Nat /\ End(value, s) \in Nat /\ Len(value) \in Nat
      /\ value[i] = Semicolon <=> i = End(value, s)
      /\ NameEnd(value, s) \in s .. End(value, s)
      /\ Lacks(value, {Equal}, s, NameEnd(value, s) - 1)
  BY PartFacts DEF AttributeNameChar, Reading, Goto, Stay, Return
<1>2. /\ state = "AttributeName" /\ offset = s /\ quoted = FALSE
      /\ s # Equals(value) + 1 /\ Begun(s)
      /\ Lacks(value, Controls \cup {Equal}, s, i - 1)
  BY DEF InAttributeName
<1>3. CASE c \in Controls /\ Return(Null)
  <2>1. i < End(value, s)
    BY <1>1, <1>3 DEF c, Controls, Control, Delete, Semicolon
  <2>2. NameEnd(value, s) > i
    <3>1. First(value, {Equal}, s, End(value, s) - 1) = NameEnd(value, s)
      BY DEF NameEnd
    <3>. DEFINE b == End(value, s) - 1
    <3>2. b \in Nat
      BY <1>1, <2>1
    <3>3. NameEnd(value, s) <= b => value[NameEnd(value, s)] = Equal
      <4>1. First(value, {Equal}, s, b) <= b => value[First(value, {Equal}, s, b)] \in {Equal}
        <5>. HIDE DEF b
        <5>. QED
          BY <1>1, <3>2, FirstFound
      <4>. QED
        BY <3>1, <4>1
    <3>4. NameEnd(value, s) \notin s .. i
      BY <1>1, <1>2, <1>3, <2>1, <3>3 DEF Lacks, c, Controls, Control, Delete, Equal
    <3>. QED
      BY <1>1, <3>4
  <2>3. i \in s .. NameEnd(value, s) - 1
    BY <1>1, <2>2
  <2>4. ~ NameFine(value, s)
    BY <1>2, <1>3, <2>3 DEF NameFine, IsFirst, Lacks, c
  <2>5. ~ IsCookie(value) /\ ~ IsRejected(value)
    BY <2>4, CookieParts DEF PartFine
  <2>. QED
    BY <1>3, <2>5, GivesUp DEF Return
<1>4. CASE c = Equal /\ name' = Text /\ Goto("AttributeValueStart") /\ UNCHANGED <<quoted, cookie>>
  <2>1. i < End(value, s) /\ value[i] = Equal
    BY <1>1, <1>4 DEF c, Equal, Semicolon
  <2>2. NameEnd(value, s) = i
    BY <2>1, NameEnds
  <2>3. PICK j : j = i + 1
    OBVIOUS
  <2>4. /\ i' = j /\ state' = "AttributeValueStart" /\ quoted' = FALSE /\ cookie' = cookie
        /\ name' = AttributeName(value, s)
    BY <1>2, <1>4, <2>2, <2>3 DEF Goto, Text, AttributeName
  <2>5. ValueStart(value, s) = j /\ j \in Nat /\ s <= j /\ j <= End(value, s)
    BY <1>1, <1>2, <2>1, <2>2, <2>3 DEF ValueStart
  <2>6. OnlySpaces(value, j, j - 1)
    BY <2>5 DEF OnlySpaces
  <2>7. NameFine(value, s) /\ NameEnd(value, s) < End(value, s)
    BY <1>2, <2>1, <2>2 DEF NameFine, Lacks
  <2>8. NameRead(s)'
    BY <1>1, <1>2, <2>4, <2>7 DEF NameRead, Begun
  <2>9. InValueStart(s)'
    BY <1>1, <1>2, <2>4, <2>5, <2>6, <2>8 DEF InValueStart
  <2>10. InPart(s)'
    BY <1>1, <2>4, <2>5, <2>9 DEF InPart
  <2>. QED
    BY <1>1, <2>10 DEF Reached
<1>5. CASE /\ c = Semicolon /\ cookie' = SetAttribute(Text, <<>>)
           /\ Goto("AttributeName") /\ quoted' = quoted
  <2>1. i = End(value, s)
    BY <1>1, <1>5 DEF c
  <2>2. Text = AttributeName(value, s) /\ ValueText(value, s) = <<>> /\ PartFine(value, s)
    BY <2>1, NameEnds
  <2>3. cookie' = Collected(value, i + 1)
    BY <1>1, <1>2, <1>5, <2>1, <2>2, ValueMade
  <2>4. state' = "AttributeName" /\ i' = i + 1 /\ offset' = i + 1 /\ quoted' = FALSE
    BY <1>2, <1>5 DEF Goto
  <2>. QED
    BY <1>1, <2>1, <2>2, <2>3, <2>4, PartDone
<1>6. CASE c \notin Controls \cup {Equal, Semicolon} /\ Stay
  <2>1. PICK j : j = i + 1
    OBVIOUS
  <2>2. /\ i' = j /\ state' = state /\ offset' = offset /\ quoted' = quoted /\ cookie' = cookie
    BY <1>6, <2>1 DEF Stay
  <2>3. s <= j /\ j <= End(value, s)
    BY <1>1, <1>6, <2>1 DEF c
  <2>4. Lacks(value, Controls \cup {Equal}, s, j - 1)
    BY <1>1, <1>2, <1>6, <2>1 DEF Lacks, c
  <2>5. InAttributeName(s)'
    BY <1>1, <1>2, <2>2, <2>4 DEF InAttributeName, Begun
  <2>6. InPart(s)'
    BY <1>1, <2>2, <2>3, <2>5 DEF InPart
  <2>. QED
    BY <1>1, <2>6 DEF Reached
<1>. QED
  BY <1>3, <1>4, <1>5, <1>6 DEF AttributeNameChar

\* A field that ends in the cookie's name describes no cookie.
LEMMA FinalInName ==
  ASSUME value \in Seq(Characters), i \in 1 .. Len(value) + 1, InName, Final
  PROVE  Reached'
<1>1. Len(value) \in Nat /\ i = Len(value) + 1
  BY DEF Final
<1>2. Equals(value) = Len(value) + 1
  <2>1. Lacks(value, {Equal}, 1, i - 1) /\ 1 \in Nat /\ i \in Nat /\ i <= Len(value) + 1
    BY <1>1 DEF InName, Lacks
  <2>2. First(value, {Equal}, 1, Len(value)) = i
    BY <1>1, <2>1, FirstIs
  <2>. QED
    BY <1>1, <2>2 DEF Equals
<1>3. ~ IsCookie(value) /\ ~ IsRejected(value)
  BY <1>1, <1>2 DEF IsCookie, IsRejected, Passed
<1>4. Return(Null)
  BY DEF Final, InName, ValueStates, ValueThrows
<1>. QED
  BY <1>3, <1>4, GivesUp DEF Return

\* The end of the field ends its last part.
LEMMA FinalInPart ==
  ASSUME value \in Seq(Characters), i \in 1 .. Len(value) + 1, NEW s \in Starts(value),
         AllClosed(value), InPart(s), Final
  PROVE  Reached'
<1>1. /\ Passed(value, s) /\ s <= i /\ i <= End(value, s) /\ i > Len(value)
      /\ InAttributeName(s) \/ InValueStart(s) \/ InValue(s) \/ InAttribute(s)
  <2>1. Len(value) \in Nat /\ i \in Nat
    OBVIOUS
  <2>. QED
    BY <2>1 DEF InPart, Final
<1>2. /\ i \in Nat /\ Equals(value) <= Len(value) /\ i = Len(value) + 1 /\ i = End(value, s)
      /\ ValueStart(value, s) \in Nat
  BY <1>1, PartFacts
<1>3. ASSUME PartFine(value, s), Return(Collected(value, i + 1)) PROVE Reached'
  BY <1>1, <1>2, <1>3, FieldDone DEF Return
<1>4. CASE InAttributeName(s)
  <2>1. Return(SetAttribute(Text, <<>>))
    BY <1>4 DEF Final, InAttributeName, ValueStates, ValueThrows
  <2>2. Text = AttributeName(value, s) /\ ValueText(value, s) = <<>> /\ PartFine(value, s)
    BY <1>1, <1>2, <1>4, NameEnds
  <2>3. SetAttribute(Text, <<>>) = Collected(value, i + 1)
    BY <1>2, <1>4, <2>2, ValueMade DEF InAttributeName
  <2>. QED
    BY <1>3, <2>1, <2>2, <2>3
<1>5. CASE InValueStart(s)
  <2>1. ~ IsQuoted(value, s) /\ ValueText(value, s) = Trimmed(value, i, i - 1)
    BY <1>2, <1>5, UnquotedValue DEF InValueStart
  <2>2. Trimmed(value, i, i - 1) = <<>>
    <3>1. i .. i - 1 = {}
      BY <1>2
    <3>. QED
      BY <3>1 DEF Trimmed
  <2>3. PartFine(value, s)
    <3>1. ~ Refused(value, s)
      BY <2>1, <2>2 DEF Refused, Throws
    <3>. QED
      BY <1>5, <2>1, <3>1 DEF PartFine, NothingAfter, InValueStart, NameRead
  <2>4. CASE s = Equals(value) + 1
    <3>1. Return(Build(name, <<>>)) /\ name = CookieName(value)
      BY <1>5, <2>4 DEF Final, InValueStart, ValueStates, ValueThrows, NameRead
    <3>2. Build(name, <<>>) = Collected(value, i + 1)
      BY <1>2, <2>1, <2>2, <2>4, <3>1, CollectedFirst
    <3>. QED
      BY <1>3, <2>3, <3>1, <3>2
  <2>5. CASE s # Equals(value) + 1
    <3>1. Return(SetAttribute(name, <<>>)) /\ name = AttributeName(value, s) /\ Begun(s)
      BY <1>5, <2>5 DEF Final, InValueStart, ValueStates, ValueThrows, NameRead
    <3>2. SetAttribute(name, <<>>) = Collected(value, i + 1)
      BY <1>2, <2>1, <2>2, <2>5, <3>1, ValueMade
    <3>. QED
      BY <1>3, <2>3, <3>1, <3>2
  <2>. QED
    BY <2>4, <2>5
<1>6. CASE InValue(s)
  <2>1. NameRead(s)
    BY <1>6 DEF InValue, InUnquoted, InQuoted
  <2>2. Text = ValueText(value, s) /\ NameFine(value, s) /\ NothingAfter(value, s)
    BY <1>1, <1>2, <1>6, TextRead
  <2>. SUFFICES ASSUME ~ (ValueThrows /\ Throw) PROVE Reached'
    BY <1>1, <1>6, <2>1, <2>2, TextRefused, ThrowsThere
  <2>3. ~ ValueThrows /\ Return(WithValue)
    BY <1>6 DEF Final, InValue, ValueStates
  <2>4. Text = ValueText(value, s) /\ PartFine(value, s)
    BY <1>6, <2>3, <2>1, <2>2, TextRefused DEF PartFine
  <2>5. WithValue = Collected(value, i + 1)
    BY <1>2, <1>6, <2>4, <2>1, ValueMade
  <2>. QED
    BY <1>3, <2>3, <2>4, <2>5
<1>7. CASE InAttribute(s)
  <2>1. Return(cookie) /\ cookie = Collected(value, i + 1)
    BY <1>2, <1>7 DEF Final, InAttribute, ValueStates, ValueThrows
  <2>2. PartFine(value, s)
    BY <1>2, <1>7 DEF InAttribute, PartFine, NothingAfter
  <2>3. Return(Collected(value, i + 1))
    BY <2>1
  <2>. QED
    BY <1>3, <2>2, <2>3
<1>. QED
  BY <1>1, <1>4, <1>5, <1>6, <1>7

----------------------------------------------------------------------------
(* Parse is correct.                                                       *)

\* Each turn keeps the invariant.
LEMMA ParserInductive ==
  ASSUME ParserInv, [Next]_vars
  PROVE  ParserInv'
<1>1. value \in Seq(Characters) /\ i \in 1 .. Len(value) + 1 /\ Len(value) \in Nat
  BY DEF ParserInv
<1>2. CASE UNCHANGED vars
  BY <1>2 DEF vars, ParserInv, Reached, InName, InPart, InAttributeName, InValueStart, InValue,
              InUnquoted, InQuoted, InAttribute, NameRead, Begun, Result
<1>3. CASE Next
  <2>1. value' = value /\ i' \in 1 .. Len(value) + 1
    BY <1>1, <1>3 DEF Next, NameChar, ValueStartChar, ValueChar, AttributeChar,
                      AttributeNameChar, Final, Reading, Goto, Stay, Return, Throw
  <2>2. ASSUME AllClosed(value) PROVE Reached'
    <3>1. Reached
      BY <2>2 DEF ParserInv
    <3>2. CASE InName
      <4>1. NameChar \/ Final
        BY <1>3, <3>2 DEF Next, InName, ValueStartChar, ValueChar, AttributeChar,
                          AttributeNameChar, Reading, StartStates, ValueStates
      <4>. QED
        BY <1>1, <3>2, <4>1, NameStep, FinalInName
    <3>3. CASE \E s \in Starts(value) : InPart(s)
      <4>1. PICK s \in Starts(value) : InPart(s)
        BY <3>3
      <4>2. /\ Passed(value, s) /\ s <= i /\ i <= End(value, s)
            /\ InAttributeName(s) \/ InValueStart(s) \/ InValue(s) \/ InAttribute(s)
        BY <4>1 DEF InPart
      <4>3. CASE Final
        BY <1>1, <2>2, <4>1, <4>3, FinalInPart
      <4>4. CASE InAttributeName(s) /\ ~ Final
        <5>1. AttributeNameChar
          BY <1>3, <4>4 DEF Next, InAttributeName, NameChar, ValueStartChar, ValueChar,
                            AttributeChar, Reading, StartStates, ValueStates
        <5>. QED
          BY <1>1, <4>2, <4>4, <5>1, AttributeNameStep
      <4>5. CASE InValueStart(s) /\ ~ Final
        <5>1. ValueStartChar
          BY <1>3, <4>5 DEF Next, InValueStart, NameChar, AttributeNameChar, ValueChar,
                            AttributeChar, Reading, StartStates, ValueStates
        <5>. QED
          BY <1>1, <4>2, <4>5, <5>1, ValueStartStep
      <4>6. CASE InValue(s) /\ ~ Final
        <5>1. ValueChar
          BY <1>3, <4>6 DEF Next, InValue, NameChar, ValueStartChar, AttributeNameChar,
                            AttributeChar, Reading, StartStates, ValueStates
        <5>. QED
          BY <1>1, <2>2, <4>2, <4>6, <5>1, ValueStep
      <4>7. CASE InAttribute(s) /\ ~ Final
        <5>1. AttributeChar
          BY <1>3, <4>7 DEF Next, InAttribute, NameChar, ValueStartChar, ValueChar,
                            AttributeNameChar, Reading, StartStates, ValueStates
        <5>. QED
          BY <1>1, <4>2, <4>7, <5>1, AttributeStep
      <4>. QED
        BY <4>2, <4>3, <4>4, <4>5, <4>6, <4>7
    <3>4. CASE state \in {"Returned", "Thrown"}
      BY <1>3, <3>4 DEF Next, NameChar, ValueStartChar, ValueChar, AttributeChar,
                        AttributeNameChar, Final, Reading, StartStates, ValueStates
    <3>. QED
      BY <3>1, <3>2, <3>3, <3>4 DEF Reached
  <2>. QED
    BY <1>1, <2>1, <2>2 DEF ParserInv
<1>. QED
  BY <1>2, <1>3

\* So it always holds.
LEMMA ParserAlways == Spec => []ParserInv
<1>1. Init => ParserInv
  <2>. SUFFICES ASSUME Init PROVE ParserInv
    OBVIOUS
  <2>1. value \in Seq(Characters) /\ i = 1
    BY ValuesAssumption DEF Init
  <2>2. i \in 1 .. Len(value) + 1
    BY <2>1
  <2>3. InName
    BY DEF Init, InName, Lacks
  <2>. QED
    BY <2>1, <2>2, <2>3 DEF ParserInv, Reached
<1>2. ParserInv /\ [Next]_vars => ParserInv'
  BY ParserInductive
<1>. QED
  BY <1>1, <1>2, PTL DEF Spec

\* For every field: when Parse returns, it returns the cookie the field
\* describes, with its name, its value and the last attribute under each name, or
\* none when the field describes none; and it throws for no other reason than the
\* value of a flag, with everything before it in order.
THEOREM ParsesCorrect == Spec => []ParsesField
<1>1. ParserInv => ParsesField
  BY DEF ParserInv, Reached, ParsesField, Result, InName, InPart, InAttributeName, InValueStart,
         InValue, InAttribute
<1>. QED
  BY <1>1, ParserAlways, PTL

\* How many turns of the loop are left at most: two for each character that was
\* not yet passed, one of which may be a step back, and one to return or throw.
TurnsLeft ==
  IF state \in {"Returned", "Thrown"} THEN 0
  ELSE 2 * (Len(value) + 1 - i) + (IF state \in StartStates THEN 2 ELSE 1)

\* A turn leaves fewer turns, though it may step back.
LEMMA TurnTaken ==
  ASSUME ParserInv, Next
  PROVE  TurnsLeft' < TurnsLeft
<1>1. value' = value /\ Len(value) \in Nat /\ i \in Nat /\ i <= Len(value) + 1
  <2>1. value \in Seq(Characters) /\ i \in 1 .. Len(value) + 1
    BY DEF ParserInv
  <2>. QED
    BY <2>1 DEF Next, NameChar, ValueStartChar, ValueChar, AttributeChar, AttributeNameChar,
                Final, Reading, Goto, Stay, Return, Throw
<1>2. CASE NameChar
  BY <1>1, <1>2 DEF NameChar, TurnsLeft, StartStates, Reading, Goto, Stay, Return
<1>3. CASE ValueStartChar
  BY <1>1, <1>3 DEF ValueStartChar, TurnsLeft, StartStates, ValueOf, Reading, Goto, Stay
<1>4. CASE ValueChar
  BY <1>1, <1>4 DEF ValueChar, TurnsLeft, StartStates, ValueStates, Reading, Goto, Stay, Throw
<1>5. CASE AttributeChar
  BY <1>1, <1>5 DEF AttributeChar, TurnsLeft, StartStates, Reading, Goto, Stay, Return
<1>6. CASE AttributeNameChar
  BY <1>1, <1>6 DEF AttributeNameChar, TurnsLeft, StartStates, Reading, Goto, Stay, Return
<1>7. CASE Final
  BY <1>1, <1>7 DEF Final, TurnsLeft, StartStates, Return, Throw
<1>. QED
  BY <1>2, <1>3, <1>4, <1>5, <1>6, <1>7 DEF Next

\* The loop of Parse, which steps its counter back, takes at most two turns for
\* each character and one more: the number of turns left is a natural number
\* that every turn makes smaller.
THEOREM TurnsBounded ==
  Spec => /\ TurnsLeft = 2 * Len(value) + 1
          /\ [](TurnsLeft \in Nat)
          /\ [][TurnsLeft' < TurnsLeft]_vars
<1>1. Init => TurnsLeft = 2 * Len(value) + 1
  <2>. SUFFICES ASSUME Init PROVE TurnsLeft = 2 * Len(value) + 1
    OBVIOUS
  <2>1. value \in Seq(Characters) /\ i = 1 /\ state = "Name"
    BY ValuesAssumption DEF Init
  <2>2. Len(value) \in Nat
    BY <2>1
  <2>. QED
    BY <2>1, <2>2 DEF TurnsLeft, StartStates
<1>2. ParserInv => TurnsLeft \in Nat
  <2>. SUFFICES ASSUME ParserInv PROVE TurnsLeft \in Nat
    OBVIOUS
  <2>1. value \in Seq(Characters) /\ i \in 1 .. Len(value) + 1
    BY DEF ParserInv
  <2>2. Len(value) \in Nat /\ i \in Nat /\ i <= Len(value) + 1
    BY <2>1
  <2>. QED
    BY <2>2 DEF TurnsLeft
<1>3. ParserInv /\ [Next]_vars => [TurnsLeft' < TurnsLeft]_vars
  BY TurnTaken
<1>. QED
  BY <1>1, <1>2, <1>3, ParserAlways, PTL DEF Spec
=============================================================================
