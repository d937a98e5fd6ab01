--------------------------- MODULE MCCookieStore ---------------------------
(***************************************************************************)
(* Small instances of the cookie store for TLC: a host, a subdomain of it, *)
(* a stranger; paths with a directory, a leaf and a name that begins like  *)
(* the directory.                                                          *)
(***************************************************************************)
EXTENDS CookieStore

CONSTANTS s1, s2

\* The senders are alike.
SenderSymmetry == Permutations(Senders)

Host     == <<"example", "com">>
SubHost  == <<"www", "example", "com">>

Page   == <<"/", "a", "/", "b">>
Likely == <<"/", "a", "b">>
Dir    == <<"/", "a">>

Url(host, path, secure) == [host |-> host, path |-> path, secure |-> secure]

Cookie(name, domain, path, maxAge, expires, secure) ==
  [name |-> name, domain |-> domain, path |-> path, maxAge |-> maxAge,
   expires |-> expires, secure |-> secure]

HostUrls  == {Url(Host, Page, TRUE), Url(Host, Likely, FALSE), Url(SubHost, Page, FALSE)}
PathUrls  == {Url(Host, Page, FALSE), Url(Host, Likely, TRUE)}
PageUrls  == {Url(Host, Page, FALSE)}

\* A session cookie for the directory, one that lives for a second, the same
\* cookie deleted, a secure one for all paths.
SimpleCookies ==
  {Cookie("sid", <<>>, Dir, -1, 0, FALSE),
   Cookie("sid", <<>>, Dir, 1, 0, FALSE),
   Cookie("sid", <<>>, Dir, 0, 0, FALSE),
   Cookie("tok", <<>>, <<"/">>, -1, 2, TRUE)}

ShortCookies ==
  {Cookie("sid", <<>>, Dir, 1, 0, FALSE), Cookie("tok", <<>>, Dir, -1, 0, FALSE)}

\* The cookie of a directory, for a second or for good, a secure one with a path
\* that is not absolute, and one with a Domain attribute.
PathCookies ==
  {Cookie("sid", <<>>, Dir, 1, 0, FALSE), Cookie("sid", <<>>, Dir, -1, 0, FALSE),
   Cookie("tok", <<>>, <<"b">>, -1, 0, TRUE),
   Cookie("sid", <<"">> \o Host, <<>>, -1, 0, FALSE)}
============================================================================
