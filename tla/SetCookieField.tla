---------------------------- MODULE SetCookieField ----------------------------
(***************************************************************************)
(* What the value of a Set-Cookie field says, part by part: the first "="  *)
(* ends the cookie's name; the cookie's value and the attributes follow,   *)
(* each up to a semicolon or the end of the field.                         *)
(*                                                                         *)
(* A character is one of the kinds TSetCookieParser tells apart.  A word   *)
(* that THttpCookieBuilder.Attribute knows, in whatever case, counts as one *)
(* character.  A part of the field t is known by the place of its first    *)
(* character.                                                              *)
(***************************************************************************)
EXTENDS Naturals, Sequences, FiniteSetsExt

Plain == "c"         \* a letter that has no meaning of its own,
Capital == "C"       \* and its upper case
Space == "space"     \* a space or a tab
NewLine == "newline" \* LF or CR, which Trim removes and no test refuses
Control == "control" \* other CONTROL_CHARS, which Trim removes as well,
Delete == "delete"   \* but for the last of them
Wide == "wide"       \* a character above $FF
Quote == "quote"
Equal == "equal"
Semicolon == "semicolon"
Minus == "minus"
Digit == "digit"     \* not 0

Flag == "flag"              \* "Secure", "HttpOnly" or "Partitioned"
MaxAge == "max_age"         \* "Max-Age"
BareMaxAge == "maxage"      \* "MaxAge", the name under which Max-Age is kept
SameSite == "samesite"
Expires == "expires"
Yes == "true"
No == "false"
Site == "lax"               \* "None", "Lax" or "Strict"
Date == "date"              \* one that curl_getdate reads, after 1970
Words == {Flag, MaxAge, BareMaxAge, SameSite, Expires, Yes, No, Site, Date}

Blanks == {Space, NewLine, Control}
Controls == {Control, Delete}
Characters ==
  {Plain, Capital, Equal, Semicolon, Quote, Minus, Digit, Delete, Wide} \cup Blanks \cup Words

\* The characters of t from a to b, as String.Trim leaves them.
Trimmed(t, a, b) ==
  LET kept == {k \in a .. b : t[k] \notin Blanks}
  IN  IF kept = {} THEN <<>> ELSE SubSeq(t, Min(kept), Max(kept))

\* The first of a set of characters from a to b, or the place after b.
First(t, S, a, b) == Min({k \in a .. b : t[k] \in S} \cup {b + 1})
Lacks(t, S, a, b) == \A k \in a .. b : t[k] \notin S
OnlySpaces(t, a, b) == \A k \in a .. b : t[k] = Space

Equals(t) == First(t, {Equal}, 1, Len(t))
CookieName(t) == Trimmed(t, 1, Equals(t) - 1)

\* The parts, where each ends, and where an attribute's name ends.
AttributeStarts(t) == {s \in Equals(t) + 2 .. Len(t) + 1 : t[s - 1] = Semicolon}
Starts(t) == AttributeStarts(t) \cup {Equals(t) + 1}
End(t, s) == First(t, {Semicolon}, s, Len(t))
NameEnd(t, s) == First(t, {Equal}, s, End(t, s) - 1)
AttributeName(t, s) == Trimmed(t, s, NameEnd(t, s) - 1)

\* The value of a part: all of the first part, and what follows the name of
\* an attribute.  It is quoted when its first character is a quote, and then
\* it is the text up to the next one.
ValueStart(t, s) == IF s = Equals(t) + 1 THEN s ELSE NameEnd(t, s) + 1
Opening(t, s) == First(t, Characters \ {Space}, ValueStart(t, s), End(t, s) - 1)
IsQuoted(t, s) == Opening(t, s) < End(t, s) /\ t[Opening(t, s)] = Quote
Closing(t, s) == First(t, {Quote}, Opening(t, s) + 1, End(t, s) - 1)
ValueText(t, s) ==
  IF IsQuoted(t, s) THEN Trimmed(t, Opening(t, s) + 1, Closing(t, s) - 1)
  ELSE Trimmed(t, ValueStart(t, s), End(t, s) - 1)

Closed(t, s) == IsQuoted(t, s) => Closing(t, s) < End(t, s)
NothingAfter(t, s) == IsQuoted(t, s) => OnlySpaces(t, Closing(t, s) + 1, End(t, s) - 1)

\* Every quote that begins a value is closed before the next semicolon.
AllClosed(t) == Equals(t) <= Len(t) => \A s \in Starts(t) : Closed(t, s)

----------------------------------------------------------------------------
(* An attribute with the name n and the value v, THttpCookieBuilder's      *)
(* Attribute.                                                              *)

\* AsBoolean throws an IllegalArgumentException: a flag is there or is not.
Throws(n, v) == n = <<Flag>> /\ v \notin {<<>>, <<Yes>>, <<No>>}

\* What the attribute is kept under: attribute names are compared without
\* regard to case, and Max-Age is kept under the name of its enum value.
Key(n) ==
  IF n = <<MaxAge>> THEN <<BareMaxAge>>
  ELSE [k \in DOMAIN n |-> IF n[k] = Capital THEN Plain ELSE n[k]]

\* What String.ToLong makes of a text: 0 if it does not begin with a number.
Number(v) ==
  LET end == First(v, Characters \ {Digit}, 1, Len(v))
  IN  IF end = 1 THEN <<"0">> ELSE SubSeq(v, 1, end - 1)
IsNegative(v) == Len(v) > 1 /\ v[1] = Minus /\ v[2] = Digit

\* What is kept, or <<>> when an attribute kept before is removed.
Kept(n, v) ==
  IF n = <<Flag>> THEN IF v = <<No>> THEN <<>> ELSE <<Yes>>
  ELSE IF n = <<MaxAge>> THEN IF v = <<>> \/ IsNegative(v) THEN <<>> ELSE Number(v)
  ELSE IF n = <<SameSite>> THEN IF v = <<Site>> THEN v ELSE <<>>
  ELSE IF n = <<Expires>> THEN IF v = <<Date>> THEN v ELSE <<>>
  ELSE v

----------------------------------------------------------------------------
(* What a part can do to Parse.  The first part has no name to be refused. *)

IsFirst(t, s) == s = Equals(t) + 1
NameFine(t, s) == IsFirst(t, s) \/ Lacks(t, Controls, s, NameEnd(t, s) - 1)
Refused(t, s) == ~ IsFirst(t, s) /\ Throws(AttributeName(t, s), ValueText(t, s))
PartFine(t, s) == NameFine(t, s) /\ ~ Refused(t, s) /\ NothingAfter(t, s)

\* The field has a name, and the parts before s hold nothing that ends Parse.
Passed(t, s) ==
  /\ Equals(t) <= Len(t)
  /\ Lacks(t, {Wide}, 1, Equals(t) - 1)
  /\ CookieName(t) # <<>>
  /\ \A r \in Starts(t) : r < s => PartFine(t, r)

IsCookie(t) == Passed(t, Len(t) + 2)

\* The first part that ends Parse is an attribute whose value is refused.
IsRejected(t) ==
  \E s \in AttributeStarts(t) : Passed(t, s) /\ NameFine(t, s) /\ Refused(t, s)

----------------------------------------------------------------------------
(* The cookie, of the attributes that have a name.                         *)

NamedStarts(t) == {s \in AttributeStarts(t) : AttributeName(t, s) # <<>>}
KeyAt(t, s) == Key(AttributeName(t, s))
KeptAt(t, s) == Kept(AttributeName(t, s), ValueText(t, s))

\* Of the attributes that begin at S the last one under each key counts.
Attributes(t, S) ==
  {[name |-> KeyAt(t, s), value |-> KeptAt(t, s)] :
     s \in {r \in S : /\ KeptAt(t, r) # <<>>
                     /\ \A q \in S : q > r => KeyAt(t, q) # KeyAt(t, r)}}

Cookie(t) ==
  [name |-> CookieName(t), value |-> ValueText(t, Equals(t) + 1),
   attributes |-> Attributes(t, NamedStarts(t))]
=============================================================================
