--------------------------- MODULE SetCookieParser ---------------------------
(***************************************************************************)
(* TSetCookieParser.Parse of http_cookie.bmx: one pass over the value of a *)
(* Set-Cookie field, one character at each turn of its loop, except that   *)
(* the first character of a text is looked at twice.                       *)
(*                                                                         *)
(* What it cuts out of the value is a trimmed sequence of characters.  The *)
(* attributes of a cookie are a set of names with their values, at most    *)
(* one for each name, where the code has a hash map.  An attribute whose   *)
(* value is refused makes the builder throw, and the exception leaves      *)
(* Parse.                                                                  *)
(***************************************************************************)
EXTENDS SetCookieField

CONSTANT Values \* what is parsed

ASSUME ValuesAssumption == Values \subseteq Seq(Characters)

VARIABLES
  value,  \* the argument
  state,  \* an ECookieParseState, "Returned" or "Thrown"
  i,      \* the loop's counter, from 1
  offset, \* where the text that is being read begins
  name,   \* of the cookie or of the attribute that is being read
  quoted,
  cookie  \* the builder, and what Parse returns; Null before there is one

vars == <<value, state, i, offset, name, quoted, cookie>>

Null == [name |-> <<>>, value |-> <<>>, attributes |-> {}]

Text == Trimmed(value, offset, i - 1)

Build(n, v) == [name |-> n, value |-> v, attributes |-> {}]

\* SetAttribute, and THttpCookieBuilder.Attribute that Puts the attribute in its
\* map or Removes it, and skips an empty name.
SetAttribute(n, v) ==
  IF n = <<>> THEN cookie
  ELSE [cookie EXCEPT !.attributes =
          {a \in @ : a.name # Key(n)}
            \cup IF Kept(n, v) = <<>> THEN {} ELSE {[name |-> Key(n), value |-> Kept(n, v)]}]

Init ==
  /\ value \in Values
  /\ state = "Name" /\ i = 1 /\ offset = 1
  /\ name = <<>> /\ quoted = FALSE /\ cookie = Null

----------------------------------------------------------------------------
(* A turn of the loop, on the character c.                                 *)

Reading(S) == state \in S /\ i <= Len(value)
c == value[i]

Return(result) ==
  /\ state' = "Returned" /\ cookie' = result
  /\ UNCHANGED <<value, i, offset, name, quoted>>

Throw == state' = "Thrown" /\ UNCHANGED <<value, i, offset, name, quoted, cookie>>

Goto(next) ==
  /\ state' = next /\ i' = i + 1 /\ offset' = i + 1
  /\ UNCHANGED value

Stay == i' = i + 1 /\ UNCHANGED <<value, state, offset, name, quoted, cookie>>

NameChar ==
  /\ Reading({"Name"})
  /\ \/ c = Wide /\ Return(Null)
     \/ c = Equal /\ Text = <<>> /\ Return(Null)
     \/ /\ c = Equal /\ Text # <<>>
        /\ name' = Text
        /\ Goto("ValueStart")
        /\ UNCHANGED <<quoted, cookie>>
     \/ c \notin {Wide, Equal} /\ Stay

ValueStates == {"Value", "AttributeValue"}
StartStates == {"ValueStart", "AttributeValueStart"}
ValueOf(start) == IF start = "ValueStart" THEN "Value" ELSE "AttributeValue"

\* Mutant: the loop steps back and stays in the state it was in.
StepsBackOnly ==
  /\ Reading(StartStates)
  /\ \/ c = Space /\ Stay
     \/ /\ c = Quote
        /\ quoted' = TRUE
        /\ Goto(ValueOf(state))
        /\ UNCHANGED <<name, cookie>>
     \/ /\ c \notin {Space, Quote}
        /\ offset' = i
        /\ UNCHANGED <<value, state, i, name, quoted, cookie>>

\* The start of a value: the loop steps back to look at its first character
\* again, unless that is a quote.
ValueStartChar ==
  /\ Reading(StartStates)
  /\ \/ c = Space /\ Stay
     \/ /\ c = Quote
        /\ quoted' = TRUE
        /\ Goto(ValueOf(state))
        /\ UNCHANGED <<name, cookie>>
     \/ /\ c \notin {Space, Quote}
        /\ state' = ValueOf(state) /\ offset' = i
        /\ UNCHANGED <<value, i, name, quoted, cookie>>

\* What a value's end makes of it, unless the value is refused.
WithValue == IF state = "Value" THEN Build(name, Text) ELSE SetAttribute(name, Text)
ValueThrows == state = "AttributeValue" /\ Throws(name, Text)

\* Mutant: the quote that ends a value leaves quoted as it is.
StaysQuoted ==
  /\ Reading(ValueStates)
  /\ \/ /\ c = Semicolon \/ (quoted /\ c = Quote)
        /\ ValueThrows
        /\ Throw
     \/ /\ c = Semicolon \/ (quoted /\ c = Quote)
        /\ ~ ValueThrows
        /\ cookie' = WithValue
        /\ Goto(IF c = Semicolon THEN "AttributeName" ELSE "Attribute")
        /\ UNCHANGED <<name, quoted>>
     \/ c # Semicolon /\ ~ (quoted /\ c = Quote) /\ Stay

\* A quoted value ends with a quote, and any value with a semicolon, which
\* leaves quoted as it is.
ValueChar ==
  /\ Reading(ValueStates)
  /\ \/ /\ c = Semicolon \/ (quoted /\ c = Quote)
        /\ ValueThrows
        /\ Throw
     \/ /\ quoted /\ c = Quote
        /\ ~ ValueThrows
        /\ quoted' = FALSE
        /\ cookie' = WithValue
        /\ Goto("Attribute")
        /\ UNCHANGED name
     \/ /\ c = Semicolon
        /\ ~ ValueThrows
        /\ cookie' = WithValue
        /\ Goto("AttributeName")
        /\ UNCHANGED <<name, quoted>>
     \/ c # Semicolon /\ ~ (quoted /\ c = Quote) /\ Stay

\* After a quoted value.
AttributeChar ==
  /\ Reading({"Attribute"})
  /\ \/ c = Space /\ Stay
     \/ c = Semicolon /\ Goto("AttributeName") /\ UNCHANGED <<name, quoted, cookie>>
     \/ c \notin {Space, Semicolon} /\ Return(Null)

\* An attribute without a value is never refused.
AttributeNameChar ==
  /\ Reading({"AttributeName"})
  /\ \/ c \in Controls /\ Return(Null)
     \/ /\ c = Equal
        /\ name' = Text
        /\ Goto("AttributeValueStart")
        /\ UNCHANGED <<quoted, cookie>>
     \/ /\ c = Semicolon
        /\ name' = Text
        /\ cookie' = SetAttribute(Text, <<>>)
        /\ Goto("AttributeName")
        /\ UNCHANGED quoted
     \/ c \notin Controls \cup {Equal, Semicolon} /\ Stay

\* The value is used up.
Final ==
  /\ state \notin {"Returned", "Thrown"} /\ i > Len(value)
  /\ \/ state = "Name" /\ Return(Null)
     \/ state = "ValueStart" /\ Return(Build(name, <<>>))
     \/ state \in ValueStates /\ ~ ValueThrows /\ Return(WithValue)
     \/ ValueThrows /\ Throw
     \/ state = "Attribute" /\ Return(cookie)
     \/ state = "AttributeName" /\ Return(SetAttribute(Text, <<>>))
     \/ state = "AttributeValueStart" /\ Return(SetAttribute(name, <<>>))

Next ==
  \/ NameChar \/ ValueStartChar \/ ValueChar \/ AttributeChar \/ AttributeNameChar
  \/ Final

\* The parser is a function: it goes on until it returns or throws.
Spec == Init /\ [][Next]_vars /\ WF_vars(Next)

----------------------------------------------------------------------------
\* Parse returns what the field says: the cookie's name and value, and of its
\* attributes the last one under each name, with what the builder makes of its
\* value; or Null when the field has no name, a name with a character it may not
\* have, or text after a quoted value.  It throws when the first thing wrong with
\* the field is a flag with a value that is no boolean, and only then.
ParsesField ==
  AllClosed(value) =>
    /\ state = "Returned" =>
         /\ ~ IsRejected(value)
         /\ cookie = IF IsCookie(value) THEN Cookie(value) ELSE Null
    /\ state = "Thrown" => IsRejected(value)

\* Parse ends, though its loop steps its counter back.
Parses == <>(state \in {"Returned", "Thrown"})
=============================================================================
