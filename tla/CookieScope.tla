---------------------------- MODULE CookieScope ----------------------------
(***************************************************************************)
(* Where a cookie belongs: the pure functions of THttpCookieStore and      *)
(* TCachedCookie in http_cookie.bmx, and beside them the rules the         *)
(* documentation of ECookieAttribute states.                               *)
(*                                                                         *)
(* A host or a Domain attribute is the sequence of its labels, in lower    *)
(* case, what lies between the dots: ".example.com" is <<"", "example",    *)
(* "com">>.  A path is a sequence of pieces, "/" being one: "/a/b" is      *)
(* <<"/", "a", "/", "b">>, "/ab" is <<"/", "a", "b">>.  The empty sequence *)
(* is the empty string or Null.                                            *)
(***************************************************************************)
EXTENDS Integers, SequencesExt

\* A cookie as TSetCookieParser builds it: maxAge -1 and expires 0 stand for
\* attributes that are not set.
CookieShape(c) ==
  /\ DOMAIN c = {"name", "domain", "path", "maxAge", "expires", "secure"}
  /\ c.domain \in Seq(STRING) /\ c.path \in Seq(STRING)
  /\ c.maxAge \in Int /\ c.maxAge >= -1 /\ c.expires \in Nat /\ c.secure \in BOOLEAN

----------------------------------------------------------------------------
AllowDomain(domain) == Len(domain) > 1

\* subDomain[beforeMatch] is a character code, and comparing a number with a
\* string compares the digits of the number: those of a dot are "46".
DigitsOfDot == "46"

IsSameOrSubDomain(subDomain, domain) ==
  /\ \E i \in 1 .. Len(subDomain) :
       IsPrefix(domain, SubSeq(subDomain, i, Len(subDomain)))
  /\ Len(subDomain) > Len(domain)
  /\ DigitsOfDot = "."

\* The empty sequence means that the cookie is refused.
ResolveCookieDomain(url, cookie) ==
  LET bare     == IF Head(cookie.domain) = "" THEN Tail(cookie.domain) ELSE cookie.domain
      resolved == IF Last(bare) = "" THEN url.host ELSE bare
  IN IF cookie.domain = <<>> THEN url.host
     ELSE IF AllowDomain(resolved) /\ IsSameOrSubDomain(url.host, resolved)
          THEN resolved ELSE <<>>

LastSlash(path) == SelectLastInSeq(path, LAMBDA piece : piece = "/")

AbsolutePath(path) == path # <<>> /\ Head(path) = "/"

\* Mutant: a path that is set is kept, absolute or not.
RelativePathKept(url, cookie) ==
  IF cookie.path # <<>>
  THEN cookie.path
  ELSE SubSeq(url.path, 1, LastSlash(url.path) - 1)

\* A path that is not set or not absolute is replaced by the directory of the
\* request's path, the root being the empty string.
ResolveCookiePath(url, cookie) ==
  IF AbsolutePath(cookie.path)
  THEN cookie.path
  ELSE SubSeq(url.path, 1, LastSlash(url.path) - 1)

DomainMatches(urlDomain, domain, cookieDomain) ==
  IF cookieDomain = <<>> \/ Last(cookieDomain) = ""
  THEN urlDomain = domain
  ELSE IsSameOrSubDomain(urlDomain, cookieDomain)

\* Mutant: any prefix will do.
AnyPrefixMatches(urlPath, cookiePath) == IsPrefix(cookiePath, urlPath)

PathMatches(urlPath, cookiePath) ==
  \/ cookiePath \in {<<>>, urlPath}
  \/ /\ IsStrictPrefix(cookiePath, urlPath)
     /\ Last(cookiePath) = "/" \/ urlPath[Len(cookiePath) + 1] = "/"

\* The domains Match looks under: the host, then each ParentDomain that still
\* has two labels.
DomainChain(host) ==
  [i \in 1 .. (IF Len(host) <= 2 THEN 1 ELSE Len(host) - 1) |->
     SubSeq(host, i, Len(host))]

----------------------------------------------------------------------------
\* A TCachedCookie, an object of its own for each Set-Cookie field; id is its
\* identity.
CachedCookie(cookie, domain, path, time, id) ==
  [cookie |-> cookie, domain |-> domain, path |-> path, creation |-> time, id |-> id]

\* TCachedCookie.Compare, by which TArrayList.Remove finds its element.
SameCookie(a, b) ==
  a.cookie.name = b.cookie.name /\ a.domain = b.domain /\ a.path = b.path

IsExpired(k, time) ==
  \/ k.cookie.maxAge >= 0 /\ time >= k.creation + k.cookie.maxAge
  \/ k.cookie.expires > 0 /\ time >= k.cookie.expires

----------------------------------------------------------------------------
(* The documented rules.                                                   *)

\* "If both Expires and Max-Age are set, Max-Age takes precedence."
Lapsed(k, time) ==
  IF k.cookie.maxAge >= 0
  THEN time >= k.creation + k.cookie.maxAge
  ELSE k.cookie.expires > 0 /\ time >= k.cookie.expires

\* "The Domain attribute specifies the domain for which the cookie is valid.
\* If not specified, it defaults to the host of the current document URL, not
\* including subdomains.  If specified, it must start with a dot to allow
\* subdomains."  A server may name its own host or a domain above it.
DocumentedDomain(url, cookie) ==
  LET bare == IF Head(cookie.domain) = "" THEN Tail(cookie.domain) ELSE cookie.domain
  IN IF cookie.domain = <<>> THEN url.host
     ELSE IF AllowDomain(bare) /\ IsSuffix(bare, url.host) THEN bare ELSE <<>>

\* "The Path attribute indicates the URL path that must exist in the requested
\* URL [...].  If not specified, it defaults to the path of the current document
\* URL."
DocumentedPath(url, cookie) ==
  IF AbsolutePath(cookie.path) THEN cookie.path ELSE url.path

ValidForHost(k, host) ==
  IF k.cookie.domain # <<>> /\ Head(k.cookie.domain) = ""
  THEN IsSuffix(k.domain, host) ELSE k.domain = host

\* The paths under which a URL's path lies: what is left of it when it is cut
\* before or after a slash.
Directories(path) ==
  {SubSeq(path, 1, n) : n \in {m \in 0 .. Len(path) :
     \/ m \in {0, Len(path)}
     \/ path[m] = "/"
     \/ path[m + 1] = "/"}}

Applies(k, url) ==
  /\ ValidForHost(k, url.host)
  /\ k.path \in Directories(url.path)
  /\ k.cookie.secure => url.secure
============================================================================
