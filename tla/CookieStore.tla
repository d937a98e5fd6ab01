---------------------------- MODULE CookieStore ----------------------------
(***************************************************************************)
(* THttpCookieStore of http_cookie.bmx as a THttpClient uses it, without a *)
(* lock: the threads that send match the store against their URL (Submit   *)
(* calls NormalizeReqest, which calls Match) while the client's thread     *)
(* adds the cookies of the responses (_HeaderRead calls PutCookie, which   *)
(* calls Add).                                                             *)
(*                                                                         *)
(* Every call on the map or on one of its lists is a step, and so is each  *)
(* turn of an EachIn over a list, which counts positions.  A list keeps    *)
(* its identity, so a thread may hold one that is no longer in the map.    *)
(* So does a cached cookie: a list is the set of the objects in it, which  *)
(* were added in the order of their numbers.  What overlapping calls on    *)
(* one list do to its memory is not modelled.                              *)
(***************************************************************************)
EXTENDS CookieScope

CONSTANTS Senders,    \* the threads that send
          Urls,       \* what they ask for
          SetCookies, \* the cookies servers set
          MaxAdds,    \* bound: cookies set
          MaxTime     \* bound: seconds that go by

ASSUME UrlsAssumption ==
  \A u \in Urls :
    /\ u.host \in Seq(STRING) /\ u.host # <<>>
    /\ u.path \in Seq(STRING) /\ u.path # <<>> /\ Head(u.path) = "/"
ASSUME CookiesAssumption == \A c \in SetCookies : CookieShape(c)
ASSUME LimitsAssumption == MaxAdds \in Nat /\ MaxTime \in Nat

Domains  == UNION {ToSet(DomainChain(u.host)) : u \in Urls}
Lists    == 1 .. MaxAdds
NoList   == 0
NoDomain == <<>>

VARIABLES
  cookies, \* the map: the list kept under a domain
  lists,   \* what is in each list
  made,    \* how many lists were made
  now,     \* the clock, in seconds
  step,    \* where each sender is
  url,     \* what it asks for
  todo,    \* the domains Match has still to look under
  found,   \* Match's result
  stale,   \* the cookies Match has seen expired and has still to remove
  purging, \* the domain it removes them from
  held,    \* the list it has got from the map, to look at or to remove from
  index,   \* how many elements of it the EachIn of Match has passed
  began,   \* history: when Match began
  adding,  \* where the client's thread is in Add
  item,    \* the cookie it adds
  list,    \* the list it holds
  adds,    \* how many cookies were set
  jar      \* history: the cookies that should be there, by the documented rules

storeVars  == <<cookies, lists, made>>
senderVars == <<step, url, todo, found, stale, purging, held, index, began>>
clientVars == <<adding, item, list, adds>>
vars == <<storeVars, now, senderVars, clientVars, jar>>

\* A cookie is kept under an absolute path or a directory of a URL.
Paths ==
  (UNION {Directories(u.path) : u \in Urls})
    \cup {p \in {c.path : c \in SetCookies} : AbsolutePath(p)}
Items ==
  [cookie : SetCookies, domain : Domains, path : Paths, creation : 0 .. MaxTime,
   id : 1 .. MaxAdds]
NoItem == <<>>

\* A sender has a list in hand while it looks at it or removes cookies from it,
\* and knows the domain it removes them from.
InHand(st, domain, l, i) ==
  /\ domain # NoDomain <=> st \in {"remove", "drop"}
  /\ l # NoList <=> st \in {"scan", "remove"}
  /\ i # 0 => st = "scan"

SenderSteps == {"idle", "match", "scan", "purge", "remove", "drop", "waiting"}

\* The types; a cookie, whatever its Path attribute, is kept under a path that
\* PathMatches can meet.
TypeOK ==
  /\ cookies \in [Domains -> Lists \cup {NoList}]
  /\ lists \in [Lists -> SUBSET Items]
  /\ adds \in 0 .. MaxAdds /\ made \in 0 .. adds /\ now \in 0 .. MaxTime
  /\ step \in [Senders -> SenderSteps]
  /\ url \in [Senders -> Urls]
  /\ todo \in [Senders -> Seq(Domains)]
  /\ found \in [Senders -> SUBSET Items]
  /\ stale \in [Senders -> SUBSET Items]
  /\ purging \in [Senders -> Domains \cup {NoDomain}]
  /\ held \in [Senders -> Lists \cup {NoList}]
  /\ index \in [Senders -> Nat]
  /\ began \in [Senders -> 0 .. MaxTime]
  /\ \A s \in Senders : InHand(step[s], purging[s], held[s], index[s])
  /\ adding \in {"none", "remove", "insert"}
  /\ item \in (IF adding = "none" THEN {NoItem} ELSE Items)
  /\ list \in Lists \cup {NoList}
  /\ jar \subseteq Items

Init ==
  /\ cookies = [d \in Domains |-> NoList]
  /\ lists = [l \in Lists |-> {}]
  /\ made = 0 /\ now = 0 /\ adds = 0
  /\ step = [s \in Senders |-> "idle"]
  /\ url \in {[s \in Senders |-> u] : u \in Urls}
  /\ todo = [s \in Senders |-> <<>>]
  /\ found = [s \in Senders |-> {}]
  /\ stale = [s \in Senders |-> {}]
  /\ purging = [s \in Senders |-> NoDomain]
  /\ held = [s \in Senders |-> NoList]
  /\ index = [s \in Senders |-> 0] /\ began = [s \in Senders |-> 0]
  /\ adding = "none" /\ item = NoItem /\ list = NoList
  /\ jar = {}

----------------------------------------------------------------------------
(* The senders: Match, with the IsEmpty test of NormalizeReqest before it. *)

Submit(s, u) ==
  /\ step[s] = "idle"
  /\ url' = [url EXCEPT ![s] = u]
  /\ IF \A d \in Domains : cookies[d] = NoList
     THEN /\ step' = [step EXCEPT ![s] = "waiting"]
          /\ UNCHANGED <<todo, began>>
     ELSE /\ step' = [step EXCEPT ![s] = "match"]
          /\ todo' = [todo EXCEPT ![s] = DomainChain(u.host)]
          /\ began' = [began EXCEPT ![s] = now]
  /\ UNCHANGED <<storeVars, now, found, stale, purging, held, index, clientVars, jar>>

\* Mutant: an expired cookie is noted, and taken all the same.
TakesExpired(k, u) ==
  /\ k.cookie.secure => u.secure
  /\ DomainMatches(u.host, k.domain, k.cookie.domain)
  /\ PathMatches(u.path, k.path)

\* Whether Match takes a cookie it comes by.
Takes(k, u) ==
  /\ ~IsExpired(k, now)
  /\ k.cookie.secure => u.secure
  /\ DomainMatches(u.host, k.domain, k.cookie.domain)
  /\ PathMatches(u.path, k.path)

Under(d) == IF cookies[d] = NoList THEN {} ELSE lists[cookies[d]]

\* The list the map has for the next domain, if it has one.
MatchLookup(s) ==
  /\ step[s] = "match" /\ todo[s] # <<>>
  /\ todo' = [todo EXCEPT ![s] = Tail(@)]
  /\ LET l == cookies[Head(todo[s])] IN
       IF l = NoList THEN UNCHANGED <<step, held>>
       ELSE /\ step' = [step EXCEPT ![s] = "scan"]
            /\ held' = [held EXCEPT ![s] = l]
  /\ UNCHANGED <<storeVars, now, url, found, stale, purging, index, began, clientVars, jar>>

\* How many elements of a list come before one.
Position(cached, k) == Cardinality({m \in cached : m.id < k.id})

\* The EachIn takes the element at its position, wherever the others are by now.
MatchCookie(s) ==
  /\ step[s] = "scan"
  /\ \E k \in lists[held[s]] :
       /\ Position(lists[held[s]], k) = index[s]
       /\ found' = [found EXCEPT ![s] = IF Takes(k, url[s]) THEN @ \cup {k} ELSE @]
       /\ stale' = [stale EXCEPT ![s] = IF IsExpired(k, now) THEN @ \cup {k} ELSE @]
  /\ index' = [index EXCEPT ![s] = @ + 1]
  /\ UNCHANGED <<storeVars, now, step, url, todo, purging, held, began, clientVars, jar>>

\* It finds no more elements.
ListMatched(s) ==
  /\ step[s] = "scan" /\ index[s] >= Cardinality(lists[held[s]])
  /\ step' = [step EXCEPT ![s] = "match"]
  /\ held' = [held EXCEPT ![s] = NoList]
  /\ index' = [index EXCEPT ![s] = 0]
  /\ UNCHANGED <<storeVars, now, url, todo, found, stale, purging, began, clientVars, jar>>

DomainsMatched(s) ==
  /\ step[s] = "match" /\ todo[s] = <<>>
  /\ step' = [step EXCEPT ![s] = "purge"]
  /\ UNCHANGED <<storeVars, now, url, todo, found, stale, purging, held, index, began,
                 clientVars, jar>>

\* list.Remove takes out the first object that compares equal.
WithoutSame(cached, k) ==
  LET same == {m \in cached : SameCookie(m, k)}
  IN cached \ {m \in same : \A n \in same : m.id <= n.id}

ToPurge(s, d) == {k \in stale[s] : k.domain = d}

\* The list the map has now for a domain under which Match saw expired cookies,
\* if it has one; the domains come in any order.
PurgeLookup(s) ==
  /\ step[s] = "purge"
  /\ \E d \in Domains :
       /\ ToPurge(s, d) # {}
       /\ IF cookies[d] = NoList
          THEN /\ stale' = [stale EXCEPT ![s] = @ \ ToPurge(s, d)]
               /\ UNCHANGED <<step, purging, held>>
          ELSE /\ step' = [step EXCEPT ![s] = "remove"]
               /\ purging' = [purging EXCEPT ![s] = d]
               /\ held' = [held EXCEPT ![s] = cookies[d]]
               /\ UNCHANGED stale
  /\ UNCHANGED <<storeVars, now, url, todo, found, index, began, clientVars, jar>>

\* One expired cookie is removed from the list.
PurgeRemove(s) ==
  /\ step[s] = "remove"
  /\ \E k \in ToPurge(s, purging[s]) :
       /\ lists' = [lists EXCEPT ![held[s]] = WithoutSame(@, k)]
       /\ stale' = [stale EXCEPT ![s] = @ \ {k}]
  /\ UNCHANGED <<cookies, made, now, step, url, todo, found, purging, held, index, began,
                 clientVars, jar>>

\* Mutant: the domain is dropped whether or not its list is empty.
PurgeAll(s) ==
  /\ step[s] = "remove" /\ ToPurge(s, purging[s]) = {}
  /\ step' = [step EXCEPT ![s] = "drop"]
  /\ held' = [held EXCEPT ![s] = NoList]
  /\ UNCHANGED <<storeVars, now, url, todo, found, stale, purging, index, began,
                 clientVars, jar>>

\* The list is tested for emptiness when the last one is.
PurgeTest(s) ==
  /\ step[s] = "remove" /\ ToPurge(s, purging[s]) = {}
  /\ IF lists[held[s]] = {}
     THEN /\ step' = [step EXCEPT ![s] = "drop"]
          /\ UNCHANGED purging
     ELSE /\ step' = [step EXCEPT ![s] = "purge"]
          /\ purging' = [purging EXCEPT ![s] = NoDomain]
  /\ held' = [held EXCEPT ![s] = NoList]
  /\ UNCHANGED <<storeVars, now, url, todo, found, stale, index, began, clientVars, jar>>

\* cookies.Remove, for a list that was empty.
DropDomain(s) ==
  /\ step[s] = "drop"
  /\ cookies' = [cookies EXCEPT ![purging[s]] = NoList]
  /\ purging' = [purging EXCEPT ![s] = NoDomain]
  /\ step' = [step EXCEPT ![s] = "purge"]
  /\ UNCHANGED <<lists, made, now, url, todo, found, stale, held, index, began,
                 clientVars, jar>>

\* Match returns; the result goes into the Cookie header.
MatchReturns(s) ==
  /\ step[s] = "purge" /\ stale[s] = {}
  /\ step' = [step EXCEPT ![s] = "waiting"]
  /\ found' = [found EXCEPT ![s] = {}]
  /\ began' = [began EXCEPT ![s] = 0]
  /\ UNCHANGED <<storeVars, now, url, todo, stale, purging, held, index, clientVars, jar>>

\* The response is complete.
ResponseComplete(s) ==
  /\ step[s] = "waiting" /\ adding = "none"
  /\ step' = [step EXCEPT ![s] = "idle"]
  /\ UNCHANGED <<storeVars, now, url, todo, found, stale, purging, held, index, began,
                 clientVars, jar>>

SenderNext(s) ==
  \/ \E u \in Urls : Submit(s, u)
  \/ MatchLookup(s) \/ MatchCookie(s) \/ ListMatched(s) \/ DomainsMatched(s)
  \/ PurgeLookup(s) \/ PurgeRemove(s) \/ PurgeTest(s) \/ DropDomain(s)
  \/ MatchReturns(s) \/ ResponseComplete(s)

----------------------------------------------------------------------------
(* The client's thread: Add.                                               *)

JarWith(k) ==
  {m \in jar : ~SameCookie(m, k)} \cup (IF Lapsed(k, now) THEN {} ELSE {k})

\* What the jar holds after a response has set a cookie, by the documented rules.
JarAfter(u, c) ==
  IF DocumentedDomain(u, c) = <<>> THEN jar
  ELSE JarWith(CachedCookie(c, DocumentedDomain(u, c), DocumentedPath(u, c), now, adds + 1))

\* A Set-Cookie header of a response some sender waits for.
AddLookup(s, c) ==
  /\ step[s] = "waiting" /\ adding = "none" /\ adds < MaxAdds
  /\ adds' = adds + 1
  /\ LET domain == ResolveCookieDomain(url[s], c) IN
       IF domain = <<>>
       THEN UNCHANGED <<adding, item, list>>
       ELSE /\ adding' = "remove"
            /\ item' = CachedCookie(c, domain, ResolveCookiePath(url[s], c), now, adds + 1)
            /\ list' = cookies[domain]
  /\ jar' = JarAfter(url[s], c)
  /\ UNCHANGED <<storeVars, now, senderVars>>

\* Mutant: the cookie's older version stays in the list.
AddBesideOld ==
  /\ adding = "remove"
  /\ adding' = "insert"
  /\ UNCHANGED <<storeVars, now, senderVars, item, list, adds, jar>>

AddReturns == adding' = "none" /\ item' = NoItem /\ list' = NoList

AddRemoveOld ==
  /\ adding = "remove"
  /\ IF list = NoList THEN UNCHANGED lists
     ELSE lists' = [lists EXCEPT ![list] = WithoutSame(@, item)]
  /\ IF IsExpired(item, now)
     THEN AddReturns
     ELSE adding' = "insert" /\ UNCHANGED <<item, list>>
  /\ UNCHANGED <<cookies, made, now, senderVars, adds, jar>>

AddNewList ==
  /\ adding = "insert" /\ list = NoList
  /\ made' = made + 1
  /\ list' = made + 1
  /\ cookies' = [cookies EXCEPT ![item.domain] = made + 1]
  /\ UNCHANGED <<lists, now, senderVars, adding, item, adds, jar>>

AddInsert ==
  /\ adding = "insert" /\ list # NoList
  /\ lists' = [lists EXCEPT ![list] = @ \cup {item}]
  /\ AddReturns
  /\ UNCHANGED <<cookies, made, now, senderVars, adds, jar>>

ClientNext ==
  \/ \E s \in Senders, c \in SetCookies : AddLookup(s, c)
  \/ AddRemoveOld \/ AddNewList \/ AddInsert

Tick ==
  /\ now < MaxTime
  /\ now' = now + 1
  /\ UNCHANGED <<storeVars, senderVars, clientVars, jar>>

Next == (\E s \in Senders : SenderNext(s)) \/ ClientNext \/ Tick

Spec == Init /\ [][Next]_vars

----------------------------------------------------------------------------
(* Properties.                                                             *)

Stored(k) == k \in Under(k.domain)

\* A cookie a server has set is in the store until it lapses or is set again:
\* neither another cookie nor the purge of expired ones in Match takes it out.
Remembered == adding = "none" => \A k \in jar : ~Lapsed(k, now) => Stored(k)

\* The cookies sent with a request are those set for its host, its path and
\* its scheme, and no others: none that was replaced, and none that had lapsed
\* when Match was called.
CookiesSent ==
  \A s \in Senders :
    step[s] = "purge" =>
      /\ \A k \in found[s] :
           k \in jar /\ Applies(k, url[s]) /\ ~Lapsed(k, began[s])
      /\ \A k \in jar : Applies(k, url[s]) /\ ~Lapsed(k, now) => k \in found[s]

\* One version at most of each cookie, by name, domain and path.
OneVersion(ks) == \A k, m \in ks : SameCookie(k, m) => k = m

\* However the threads interleave, a request carries only cookies that were
\* set by its own host, for a directory of its path, and over a secure
\* connection if they ask for one, also while Add moves the elements of the list
\* that Match looks at.  (They may be too few, and one may go out in the version
\* that was replaced and in the new one.)
SentInScope == \A s \in Senders : \A k \in found[s] : Applies(k, url[s])

\* A list in the map holds one version of a cookie, and only cookies of the
\* domain it is kept under.
ListsConsistent ==
  \A d \in Domains :
    /\ \A k \in Under(d) : k.domain = d
    /\ OneVersion(Under(d))
============================================================================
