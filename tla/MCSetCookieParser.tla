-------------------------- MODULE MCSetCookieParser --------------------------
(***************************************************************************)
(* Short fields of all characters, longer ones that name a cookie, of the  *)
(* characters that separate, quote and fill, and lists of attributes, for  *)
(* TLC.                                                                    *)
(***************************************************************************)
EXTENDS SetCookieParser

Strings(S, m) == UNION {[1 .. n -> S] : n \in 0 .. m}
Short == Strings(Characters, 3)
Named(S, m) == {<<Plain, Equal>> \o s : s \in Strings(S, m)}

\* Attributes with one of the names, and no value or one of the texts.
Lists(names, texts) ==
  {<<Semicolon, n>> : n \in names} \cup {<<Semicolon, n, Equal>> \o v : n \in names, v \in texts}
Two(A) == {<<Plain, Equal>> \o a \o b : a \in A, b \in A}
Three(A) == {<<Plain, Equal>> \o a \o b \o d : a \in A, b \in A, d \in A}

Names == {Flag, MaxAge, BareMaxAge, SameSite, Expires, Plain, Capital}
Texts ==
  {<<w>> : w \in {Yes, No, Site, Date, Digit, Plain}}
    \cup {<<Minus, Digit>>, <<Digit, Plain>>, <<Quote, Plain, Quote>>}

MCValues ==
  UNION {Short, Named({Plain, Equal, Semicolon, Quote, Space}, 6),
         Named({Plain, Equal, Semicolon, Quote}, 7),
         Named({Plain, Equal, Semicolon, Flag, NewLine, Delete}, 5),
         Two(Lists(Names, Texts)),
         Three(Lists({Flag, Plain, Capital}, {<<No>>, <<Quote, Plain, Quote>>}))}
=============================================================================
