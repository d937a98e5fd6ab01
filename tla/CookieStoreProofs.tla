-------------------------- MODULE CookieStoreProofs --------------------------
(***************************************************************************)
(* What THttpCookieStore guarantees for any number of threads, any URLs    *)
(* and any cookies; and, for an application that sends one request at a    *)
(* time, that it remembers and sends what the documentation promises.      *)
(***************************************************************************)
EXTENDS CookieStore, TLAPS, WellFoundedInduction, NaturalsInduction, SequenceTheorems,
        FiniteSetTheorems

----------------------------------------------------------------------------
(* The scope of a cookie.                                                  *)

\* IsSameOrSubDomain compares the digits of a character code with a dot: it
\* holds of nothing.
LEMMA NeverSubDomain ==
  ASSUME NEW a, NEW b
  PROVE  ~IsSameOrSubDomain(a, b)
BY DEF IsSameOrSubDomain, DigitsOfDot

\* So ResolveCookieDomain accepts only cookies without a Domain attribute, for
\* the host that set them.
LEMMA ResolvedDomain ==
  ASSUME NEW u, NEW c, ResolveCookieDomain(u, c) # <<>>
  PROVE  c.domain = <<>> /\ ResolveCookieDomain(u, c) = u.host
BY NeverSubDomain DEF ResolveCookieDomain

\* And DomainMatches, for such a cookie, asks for the host itself.
LEMMA HostOnlyMatches ==
  ASSUME NEW u, NEW k, k.cookie.domain = <<>>
  PROVE  /\ DomainMatches(u.host, k.domain, k.cookie.domain) <=> u.host = k.domain
         /\ ValidForHost(k, u.host) <=> u.host = k.domain
BY DEF DomainMatches, ValidForHost

\* PathMatches, which looks for a prefix that ends at a slash, and Directories,
\* which cuts the path at its slashes, agree.
LEMMA PathMatchesDirectory ==
  ASSUME NEW p \in Seq(STRING), NEW q \in Seq(STRING)
  PROVE  PathMatches(p, q) <=> q \in Directories(p)
<1>1. ASSUME NEW n \in 0 .. Len(p), q = SubSeq(p, 1, n)
      PROVE  /\ Len(q) = n /\ IsPrefix(q, p)
             /\ q = p <=> n = Len(p)
             /\ q = <<>> <=> n = 0
             /\ n > 0 => Last(q) = p[n]
  BY <1>1 DEF IsPrefix, Last
<1>2. ASSUME PathMatches(p, q) PROVE q \in Directories(p)
  <2>1. CASE q = <<>>
    <3>1. q = SubSeq(p, 1, 0) /\ 0 \in 0 .. Len(p)
      BY <2>1
    <3>. QED
      BY <3>1 DEF Directories
  <2>2. CASE q = p
    <3>1. q = SubSeq(p, 1, Len(p)) /\ Len(p) \in 0 .. Len(p)
      BY <2>2
    <3>. QED
      BY <3>1 DEF Directories
  <2>3. CASE q # <<>> /\ q # p
    <3>. DEFINE n == Len(q)
    <3>1. IsStrictPrefix(q, p) /\ (Last(q) = "/" \/ p[n + 1] = "/")
      BY <1>2, <2>3 DEF PathMatches
    <3>2. n \in 0 .. Len(p) /\ q = SubSeq(p, 1, n)
      BY <3>1 DEF IsStrictPrefix, IsPrefix
    <3>3. n > 0
      BY <2>3
    <3>4. p[n] = "/" \/ p[n + 1] = "/"
      BY <1>1, <3>1, <3>2, <3>3
    <3>. QED
      BY <3>2, <3>4 DEF Directories
  <2>. QED
    BY <2>1, <2>2, <2>3
<1>3. ASSUME q \in Directories(p) PROVE PathMatches(p, q)
  <2>1. PICK n \in 0 .. Len(p) :
          q = SubSeq(p, 1, n) /\ (n \in {0, Len(p)} \/ p[n] = "/" \/ p[n + 1] = "/")
    BY <1>3 DEF Directories
  <2>2. CASE n \in {0, Len(p)}
    BY <1>1, <2>1, <2>2 DEF PathMatches
  <2>3. CASE n \notin {0, Len(p)}
    BY <1>1, <2>1, <2>3 DEF PathMatches, IsStrictPrefix
  <2>. QED
    BY <2>2, <2>3
<1>. QED
  BY <1>2, <1>3

\* Natural numbers, if there are any, have a least one.
LEMMA LeastExists ==
  ASSUME NEW J \in SUBSET Nat, J # {}
  PROVE  \E j \in J : \A m \in J : j <= m
<1>1. IsWellFoundedOn(OpToRel(<, Nat), Nat)
  BY NatLessThanWellFounded
<1>2. PICK j \in J : \A m \in J : ~(<<m, j>> \in OpToRel(<, Nat))
  BY <1>1, WFMin, ZenonT(30)
<1>3. ASSUME NEW m \in J PROVE j <= m
  <2>1. CASE m < j
    BY <1>2, <2>1 DEF OpToRel
  <2>2. CASE ~(m < j)
    BY <2>2
  <2>. QED
    BY <2>1, <2>2
<1>. QED
  BY <1>3

\* A path that begins with a slash has a last one.
LEMMA LastSlashExists ==
  ASSUME NEW p \in Seq(STRING), p # <<>>, Head(p) = "/"
  PROVE  LastSlash(p) \in 1 .. Len(p) /\ p[LastSlash(p)] = "/"
<1>. DEFINE I == {i \in 1 .. Len(p) : p[i] = "/"}
            J == {Len(p) - i : i \in I}
<1>1. 1 \in I
  OBVIOUS
<1>2. J \in SUBSET Nat /\ J # {}
  BY <1>1
<1>3. PICK j \in J : \A m \in J : j <= m
  BY <1>2, LeastExists
<1>4. PICK i \in I : j = Len(p) - i
  BY <1>3
<1>5. ASSUME NEW m \in I PROVE i >= m
  <2>1. Len(p) - m \in J
    BY <1>5
  <2>2. Len(p) - i <= Len(p) - m
    BY <1>3, <1>4, <2>1
  <2>. QED
    BY <2>2
<1>6. \A m \in I : i >= m
  BY <1>5
<1>7. Max(I) \in I
  BY <1>6 DEF Max
<1>8. LastSlash(p) = Max(I)
  BY <1>1 DEF LastSlash, SelectLastInSeq
<1>. QED
  BY <1>7, <1>8

\* The paths of the cookies that Add makes, and those the documentation gives them.
LEMMA ResolvedPath ==
  ASSUME NEW u \in Urls, NEW c \in SetCookies
  PROVE  ResolveCookiePath(u, c) \in Paths /\ DocumentedPath(u, c) \in Paths
<1>1. CASE AbsolutePath(c.path)
  BY <1>1 DEF ResolveCookiePath, DocumentedPath, Paths
<1>2. CASE ~AbsolutePath(c.path)
  <2>. DEFINE n == LastSlash(u.path) - 1
  <2>1. u.path \in Seq(STRING) /\ LastSlash(u.path) \in 1 .. Len(u.path)
        /\ u.path[LastSlash(u.path)] = "/"
    BY UrlsAssumption, LastSlashExists
  <2>2. n \in 0 .. Len(u.path) /\ u.path[n + 1] = "/"
    BY <2>1
  <2>3. SubSeq(u.path, 1, n) \in Directories(u.path)
    BY <2>2 DEF Directories
  <2>4. ResolveCookiePath(u, c) = SubSeq(u.path, 1, n)
    BY <1>2 DEF ResolveCookiePath
  <2>5. u.path \in Directories(u.path)
    <3>1. u.path = SubSeq(u.path, 1, Len(u.path)) /\ Len(u.path) \in 0 .. Len(u.path)
      BY <2>1
    <3>. QED
      BY <3>1 DEF Directories
  <2>6. DocumentedPath(u, c) = u.path
    BY <1>2 DEF DocumentedPath
  <2>. QED
    BY <2>3, <2>4, <2>5, <2>6 DEF Paths
<1>. QED
  BY <1>1, <1>2

\* A path is a sequence.
LEMMA PathsAreSequences == \A p \in Paths : p \in Seq(STRING)
<1>1. ASSUME NEW u \in Urls, NEW p \in Directories(u.path) PROVE p \in Seq(STRING)
  <2>1. u.path \in Seq(STRING)
    BY UrlsAssumption
  <2>2. PICK n \in 0 .. Len(u.path) : p = SubSeq(u.path, 1, n)
    BY DEF Directories
  <2>. QED
    BY <2>1, <2>2
<1>2. ASSUME NEW c \in SetCookies PROVE c.path \in Seq(STRING)
  BY CookiesAssumption DEF CookieShape
<1>. QED
  BY <1>1, <1>2 DEF Paths

\* Match begins under the host.
LEMMA ChainFromHost ==
  ASSUME NEW u \in Urls
  PROVE  /\ DomainChain(u.host) \in Seq(Domains)
         /\ DomainChain(u.host) # <<>>
         /\ Head(DomainChain(u.host)) = u.host
         /\ u.host \in Domains
<1>. DEFINE h == u.host
            n == IF Len(h) <= 2 THEN 1 ELSE Len(h) - 1
            chain == DomainChain(h)
<1>1. h \in Seq(STRING) /\ Len(h) \in Nat /\ Len(h) >= 1
  <2>1. h \in Seq(STRING) /\ h # <<>>
    BY UrlsAssumption
  <2>. QED
    BY <2>1
<1>2. n \in Nat /\ 1 <= n /\ n <= Len(h)
  BY <1>1
<1>3. chain = [i \in 1 .. n |-> SubSeq(h, i, Len(h))]
  BY DEF DomainChain
<1>4. \A i \in 1 .. n : chain[i] \in Domains
  BY <1>3 DEF Domains, ToSet
<1>. HIDE DEF n
<1>5. chain \in Seq(Domains) /\ Len(chain) = n
  BY <1>2, <1>3, <1>4
<1>6. chain[1] = h
  BY <1>1, <1>2, <1>3
<1>7. chain # <<>> /\ Head(chain) = chain[1] /\ h \in Domains
  BY <1>2, <1>4, <1>5, <1>6
<1>. QED
  BY <1>5, <1>6, <1>7

\* No domain is the empty string.
LEMMA DomainsNotEmpty == <<>> \notin Domains
<1>. SUFFICES ASSUME NEW u \in Urls, <<>> \in ToSet(DomainChain(u.host)) PROVE FALSE
  BY DEF Domains
<1>. DEFINE h == u.host
            n == IF Len(h) <= 2 THEN 1 ELSE Len(h) - 1
<1>1. h \in Seq(STRING) /\ Len(h) \in Nat /\ Len(h) >= 1
  <2>1. h \in Seq(STRING) /\ h # <<>>
    BY UrlsAssumption
  <2>. QED
    BY <2>1
<1>2. n \in Nat /\ n <= Len(h)
  BY <1>1
<1>3. PICK i \in 1 .. n : SubSeq(h, i, Len(h)) = <<>>
  BY DEF DomainChain, ToSet
<1>. HIDE DEF n
<1>4. Len(SubSeq(h, i, Len(h))) = Len(h) - i + 1
  BY <1>1, <1>2
<1>. QED
  BY <1>1, <1>2, <1>3, <1>4

\* A suffix is what is left when the front is cut off.
LEMMA SuffixCut ==
  ASSUME NEW a \in Seq(STRING), NEW b \in Seq(STRING), a # <<>>, IsSuffix(a, b)
  PROVE  Len(a) <= Len(b) /\ a = SubSeq(b, Len(b) - Len(a) + 1, Len(b))
<1>. DEFINE m == Len(a)
            n == Len(b)
<1>1. m \in Nat /\ n \in Nat /\ 1 <= m
  OBVIOUS
<1>2. /\ Reverse(a) \in Seq(STRING) /\ Len(Reverse(a)) = m
      /\ \A i \in 1 .. m : Reverse(a)[i] = a[m - i + 1]
  BY DEF Reverse
<1>3. /\ Reverse(b) \in Seq(STRING) /\ Len(Reverse(b)) = n
      /\ \A i \in 1 .. n : Reverse(b)[i] = b[n - i + 1]
  BY DEF Reverse
<1>4. m <= n /\ SubSeq(Reverse(a), 1, m) = SubSeq(Reverse(b), 1, m)
  BY <1>2, <1>3 DEF IsSuffix, IsPrefix
<1>5. \A i \in 1 .. m : Reverse(a)[i] = Reverse(b)[i]
  <2>1. \A i \in 1 .. m : SubSeq(Reverse(a), 1, m)[i] = Reverse(a)[i]
    BY <1>1, <1>2
  <2>2. \A i \in 1 .. m : SubSeq(Reverse(b), 1, m)[i] = Reverse(b)[i]
    BY <1>1, <1>3, <1>4
  <2>. QED
    BY <1>4, <2>1, <2>2
<1>6. ASSUME NEW i \in 1 .. m PROVE a[i] = b[n - m + i]
  <2>1. m - i + 1 \in 1 .. m /\ m - i + 1 \in 1 .. n
    BY <1>1, <1>4
  <2>2. Reverse(a)[m - i + 1] = a[m - (m - i + 1) + 1]
    BY <1>2, <2>1
  <2>3. Reverse(b)[m - i + 1] = b[n - (m - i + 1) + 1]
    BY <1>3, <2>1
  <2>4. m - (m - i + 1) + 1 = i /\ n - (m - i + 1) + 1 = n - m + i
    BY <1>1
  <2>. QED
    BY <1>5, <2>1, <2>2, <2>3, <2>4
<1>. DEFINE cut == SubSeq(b, n - m + 1, n)
<1>7. cut \in Seq(STRING) /\ Len(cut) = m
  BY <1>1, <1>4
<1>8. \A i \in 1 .. m : cut[i] = b[n - m + i]
  BY <1>1, <1>4
<1>9. cut = a
  <2>1. \A i \in 1 .. m : cut[i] = a[i]
    BY <1>6, <1>8
  <2>. HIDE DEF cut
  <2>. QED
    BY <1>7, <2>1
<1>. QED
  BY <1>4, <1>9

\* A Domain attribute the documentation accepts is one of the domains Match
\* looks under: it has two labels or more.
LEMMA DocumentedUnder ==
  ASSUME NEW u \in Urls, NEW c \in SetCookies, DocumentedDomain(u, c) # <<>>
  PROVE  DocumentedDomain(u, c) \in Domains
<1>1. u.host \in Seq(STRING) /\ u.host # <<>> /\ c.domain \in Seq(STRING)
  BY UrlsAssumption, CookiesAssumption DEF CookieShape
<1>2. CASE c.domain = <<>>
  BY <1>2, ChainFromHost DEF DocumentedDomain
<1>3. CASE c.domain # <<>>
  <2>. DEFINE bare == IF Head(c.domain) = "" THEN Tail(c.domain) ELSE c.domain
              h    == u.host
              i    == Len(h) - Len(bare) + 1
  <2>1. bare \in Seq(STRING)
    <3>1. Tail(c.domain) \in Seq(STRING)
      BY <1>1, <1>3, HeadTailProperties
    <3>. QED
      BY <1>1, <3>1
  <2>2. AllowDomain(bare) /\ IsSuffix(bare, h) /\ DocumentedDomain(u, c) = bare
    BY <1>3 DEF DocumentedDomain
  <2>. HIDE DEF bare
  <2>3. Len(bare) > 1 /\ Len(bare) \in Nat /\ bare # <<>>
    BY <2>1, <2>2 DEF AllowDomain
  <2>4. Len(bare) <= Len(h) /\ bare = SubSeq(h, i, Len(h))
    BY <1>1, <2>1, <2>2, <2>3, SuffixCut
  <2>5. i \in 1 .. (IF Len(h) <= 2 THEN 1 ELSE Len(h) - 1)
    BY <1>1, <2>3, <2>4
  <2>6. bare \in ToSet(DomainChain(h))
    <3>. DEFINE n == IF Len(h) <= 2 THEN 1 ELSE Len(h) - 1
    <3>1. DomainChain(h) = [j \in 1 .. n |-> SubSeq(h, j, Len(h))]
      BY DEF DomainChain
    <3>2. i \in 1 .. n
      BY <2>5
    <3>. HIDE DEF n, i
    <3>3. DomainChain(h)[i] = bare /\ DOMAIN DomainChain(h) = 1 .. n
      BY <2>4, <3>1, <3>2
    <3>. QED
      BY <3>2, <3>3 DEF ToSet
  <2>. QED
    BY <2>2, <2>6 DEF Domains
<1>. QED
  BY <1>2, <1>3

----------------------------------------------------------------------------
(* Types.                                                                  *)

\* What Add makes of a cookie is one of Items.
LEMMA MadeItem ==
  ASSUME NEW c \in SetCookies, NEW domain \in Domains, NEW path \in Paths,
         now \in 0 .. MaxTime, adds \in 0 .. MaxAdds, adds < MaxAdds
  PROVE  CachedCookie(c, domain, path, now, adds + 1) \in Items
<1>1. adds + 1 \in 1 .. MaxAdds
  BY LimitsAssumption
<1>. QED
  BY <1>1 DEF CachedCookie, Items

\* Removing an element leaves a part of the list.
LEMMA WithoutIsPart ==
  ASSUME NEW ks, NEW k
  PROVE  WithoutSame(ks, k) \subseteq ks
BY DEF WithoutSame

\* A store that has just been made is well typed.
LEMMA InitTypes == Init => TypeOK
<1>. SUFFICES ASSUME Init PROVE TypeOK
  OBVIOUS
<1>1. 0 \in 0 .. MaxAdds /\ 0 \in 0 .. 0 /\ 0 \in 0 .. MaxTime
  BY LimitsAssumption
<1>2. todo \in [Senders -> Seq(Domains)]
  BY DEF Init
<1>3. url \in [Senders -> Urls]
  BY DEF Init
<1>4. lists \in [Lists -> SUBSET Items] /\ cookies \in [Domains -> Lists \cup {NoList}]
  BY DEF Init
<1>5. /\ found \in [Senders -> SUBSET Items] /\ stale \in [Senders -> SUBSET Items]
      /\ step \in [Senders -> SenderSteps]
      /\ purging \in [Senders -> Domains \cup {NoDomain}]
      /\ held \in [Senders -> Lists \cup {NoList}]
  BY DEF Init, SenderSteps
<1>6. \A s \in Senders : InHand(step[s], purging[s], held[s], index[s])
  BY DEF Init, InHand
<1>7. index \in [Senders -> Nat] /\ began \in [Senders -> 0 .. MaxTime]
  BY <1>1 DEF Init
<1>. QED
  BY <1>1, <1>2, <1>3, <1>4, <1>5, <1>6, <1>7 DEF Init, TypeOK

\* The part of TypeOK that the senders change.
SenderTypes ==
  /\ cookies \in [Domains -> Lists \cup {NoList}]
  /\ lists \in [Lists -> SUBSET Items]
  /\ step \in [Senders -> SenderSteps]
  /\ url \in [Senders -> Urls]
  /\ todo \in [Senders -> Seq(Domains)]
  /\ found \in [Senders -> SUBSET Items]
  /\ stale \in [Senders -> SUBSET Items]
  /\ purging \in [Senders -> Domains \cup {NoDomain}]
  /\ held \in [Senders -> Lists \cup {NoList}]
  /\ index \in [Senders -> Nat]
  /\ began \in [Senders -> 0 .. MaxTime]
  /\ \A s \in Senders : InHand(step[s], purging[s], held[s], index[s])

\* Match keeps the types of what it changes.
LEMMA SenderStepTypes ==
  ASSUME SenderTypes, now \in 0 .. MaxTime, NEW s \in Senders, SenderNext(s)
  PROVE  SenderTypes'
<1>. USE DEF SenderTypes, storeVars, senderVars, clientVars
<1>1. ASSUME NEW u \in Urls, Submit(s, u) PROVE SenderTypes'
  <2>1. todo' \in [Senders -> Seq(Domains)]
    <3>1. DomainChain(u.host) \in Seq(Domains)
      BY ChainFromHost
    <3>. QED
      BY <1>1, <3>1 DEF Submit
  <2>2. /\ url' = [url EXCEPT ![s] = u]
        /\ step[s] = "idle"
        /\ UNCHANGED <<cookies, lists, found, stale, purging, held, index>>
    BY <1>1 DEF Submit
  <2>3. /\ step' = [step EXCEPT ![s] = "waiting"] \/ step' = [step EXCEPT ![s] = "match"]
        /\ began' = began \/ began' = [began EXCEPT ![s] = now]
    BY <1>1 DEF Submit
  <2>4. /\ url' \in [Senders -> Urls] /\ step' \in [Senders -> SenderSteps]
        /\ began' \in [Senders -> 0 .. MaxTime]
    <3>1. url' \in [Senders -> Urls]
      BY <2>2
    <3>2. step' \in [Senders -> SenderSteps]
      BY <2>3 DEF SenderSteps
    <3>3. began' \in [Senders -> 0 .. MaxTime]
      BY <2>3
    <3>. QED
      BY <3>1, <3>2, <3>3
  <2>5. InHand(step'[s], purging'[s], held'[s], index'[s])
    <3>1. InHand("idle", purging[s], held[s], index[s]) /\ step'[s] \in {"waiting", "match"}
      BY <2>2, <2>3
    <3>. QED
      BY <2>2, <3>1 DEF InHand
  <2>6. \A t \in Senders : InHand(step'[t], purging'[t], held'[t], index'[t])
    BY <2>2, <2>5, <2>3
  <2>. QED
    BY <2>1, <2>2, <2>4, <2>6
<1>2. CASE MatchLookup(s)
  <2>. DEFINE l == cookies[Head(todo[s])]
  <2>1. /\ todo' = [todo EXCEPT ![s] = Tail(@)] /\ todo[s] # <<>> /\ step[s] = "match"
        /\ IF l = NoList THEN UNCHANGED <<step, held>>
           ELSE /\ step' = [step EXCEPT ![s] = "scan"]
                /\ held' = [held EXCEPT ![s] = l]
        /\ UNCHANGED <<cookies, lists, url, found, stale, purging, index, began>>
    BY <1>2 DEF MatchLookup
  <2>2. todo[s] \in Seq(Domains) /\ Head(todo[s]) \in Domains /\ Tail(todo[s]) \in Seq(Domains)
    BY <2>1
  <2>3. todo' \in [Senders -> Seq(Domains)]
    BY <2>1, <2>2
  <2>4. l \in Lists \cup {NoList}
    BY <2>2
  <2>. HIDE DEF l
  <2>5. CASE l = NoList
    BY <2>1, <2>3, <2>5
  <2>6. CASE l # NoList
    <3>1. /\ step' = [step EXCEPT ![s] = "scan"]
          /\ held' = [held EXCEPT ![s] = l]
      BY <2>1, <2>6
    <3>2. step' \in [Senders -> SenderSteps] /\ held' \in [Senders -> Lists \cup {NoList}]
      BY <2>4, <3>1 DEF SenderSteps
    <3>3. InHand(step'[s], purging'[s], held'[s], index'[s])
      <4>1. InHand("match", purging[s], held[s], index[s])
        BY <2>1
      <4>2. step'[s] = "scan" /\ held'[s] = l /\ purging'[s] = purging[s] /\ index'[s] = index[s]
        BY <2>1, <3>1
      <4>. QED
        BY <2>6, <4>1, <4>2 DEF InHand
    <3>4. \A t \in Senders : InHand(step'[t], purging'[t], held'[t], index'[t])
      BY <2>1, <3>1, <3>3
    <3>. QED
      BY <2>1, <2>3, <3>2, <3>4
  <2>. QED
    BY <2>5, <2>6
<1>3. CASE MatchCookie(s)
  <2>1. /\ step[s] = "scan" /\ index' = [index EXCEPT ![s] = @ + 1]
        /\ UNCHANGED <<cookies, lists, step, url, todo, purging, held, began>>
    BY <1>3 DEF MatchCookie
  <2>2. PICK k \in lists[held[s]] :
          /\ found' = [found EXCEPT ![s] = IF Takes(k, url[s]) THEN @ \cup {k} ELSE @]
          /\ stale' = [stale EXCEPT ![s] = IF IsExpired(k, now) THEN @ \cup {k} ELSE @]
    BY <1>3 DEF MatchCookie
  <2>3. held[s] \in Lists
    BY <2>1 DEF InHand
  <2>4. k \in Items
    BY <2>2, <2>3
  <2>5. found' \in [Senders -> SUBSET Items] /\ stale' \in [Senders -> SUBSET Items]
    BY <2>2, <2>4
  <2>6. index' \in [Senders -> Nat]
    BY <2>1
  <2>7. InHand(step'[s], purging'[s], held'[s], index'[s])
    <3>1. InHand("scan", purging[s], held[s], index[s])
      BY <2>1
    <3>. QED
      BY <2>1, <3>1 DEF InHand
  <2>8. \A t \in Senders : InHand(step'[t], purging'[t], held'[t], index'[t])
    BY <2>1, <2>7
  <2>. QED
    BY <2>1, <2>5, <2>6, <2>8
<1>4. CASE ListMatched(s)
  <2>1. /\ step[s] = "scan" /\ step' = [step EXCEPT ![s] = "match"]
        /\ held' = [held EXCEPT ![s] = NoList] /\ index' = [index EXCEPT ![s] = 0]
        /\ UNCHANGED <<cookies, lists, url, todo, found, stale, purging, began>>
    BY <1>4 DEF ListMatched
  <2>2. /\ step' \in [Senders -> SenderSteps] /\ held' \in [Senders -> Lists \cup {NoList}]
        /\ index' \in [Senders -> Nat]
    BY <2>1 DEF SenderSteps
  <2>3. InHand(step'[s], purging'[s], held'[s], index'[s])
    <3>1. InHand("scan", purging[s], held[s], index[s])
      BY <2>1
    <3>2. step'[s] = "match" /\ held'[s] = NoList /\ index'[s] = 0 /\ purging'[s] = purging[s]
      BY <2>1
    <3>. QED
      BY <3>1, <3>2 DEF InHand
  <2>4. \A t \in Senders : InHand(step'[t], purging'[t], held'[t], index'[t])
    BY <2>1, <2>3
  <2>. QED
    BY <2>1, <2>2, <2>4
<1>5. CASE DomainsMatched(s)
  <2>1. /\ step[s] = "match" /\ step' = [step EXCEPT ![s] = "purge"]
        /\ UNCHANGED <<cookies, lists, url, todo, found, stale, purging, held, index, began>>
    BY <1>5 DEF DomainsMatched
  <2>2. InHand(step'[s], purging'[s], held'[s], index'[s])
    <3>1. InHand("match", purging[s], held[s], index[s]) /\ step'[s] = "purge"
      BY <2>1
    <3>. QED
      BY <2>1, <3>1 DEF InHand
  <2>3. \A t \in Senders : InHand(step'[t], purging'[t], held'[t], index'[t])
    BY <2>1, <2>2
  <2>. QED
    BY <2>1, <2>3 DEF SenderSteps
<1>6. CASE PurgeLookup(s)
  <2>1. PICK d \in Domains :
          IF cookies[d] = NoList
          THEN /\ stale' = [stale EXCEPT ![s] = @ \ ToPurge(s, d)]
               /\ UNCHANGED <<step, purging, held>>
          ELSE /\ step' = [step EXCEPT ![s] = "remove"]
               /\ purging' = [purging EXCEPT ![s] = d]
               /\ held' = [held EXCEPT ![s] = cookies[d]]
               /\ UNCHANGED stale
    BY <1>6 DEF PurgeLookup
  <2>2. step[s] = "purge" /\ UNCHANGED <<cookies, lists, url, todo, found, index, began>>
    BY <1>6 DEF PurgeLookup
  <2>3. CASE cookies[d] = NoList
    <3>1. /\ stale' = [stale EXCEPT ![s] = @ \ ToPurge(s, d)]
          /\ UNCHANGED <<step, purging, held>>
      BY <2>1, <2>3
    <3>2. stale' \in [Senders -> SUBSET Items]
      BY <3>1
    <3>. QED
      BY <2>2, <3>1, <3>2
  <2>4. CASE cookies[d] # NoList
    <3>1. /\ step' = [step EXCEPT ![s] = "remove"]
          /\ purging' = [purging EXCEPT ![s] = d]
          /\ held' = [held EXCEPT ![s] = cookies[d]]
          /\ UNCHANGED stale
      BY <2>1, <2>4
    <3>2. InHand(step'[s], purging'[s], held'[s], index'[s])
      <4>1. InHand("purge", purging[s], held[s], index[s])
        BY <2>2
      <4>2. /\ step'[s] = "remove" /\ purging'[s] = d /\ held'[s] = cookies[d]
            /\ index'[s] = index[s]
        BY <2>2, <3>1
      <4>. QED
        BY <2>4, <4>1, <4>2, DomainsNotEmpty DEF NoDomain, InHand
    <3>3. \A t \in Senders : InHand(step'[t], purging'[t], held'[t], index'[t])
      BY <2>2, <3>1, <3>2
    <3>. QED
      BY <2>2, <2>4, <3>1, <3>3 DEF SenderSteps
  <2>. QED
    BY <2>3, <2>4
<1>7. CASE PurgeRemove(s)
  <2>1. PICK k \in ToPurge(s, purging[s]) :
          /\ lists' = [lists EXCEPT ![held[s]] = WithoutSame(@, k)]
          /\ stale' = [stale EXCEPT ![s] = @ \ {k}]
    BY <1>7 DEF PurgeRemove
  <2>2. /\ step[s] = "remove"
        /\ UNCHANGED <<cookies, step, url, todo, found, purging, held, index, began>>
    BY <1>7 DEF PurgeRemove
  <2>3. held[s] \in Lists
    BY <2>2 DEF InHand
  <2>4. lists' \in [Lists -> SUBSET Items]
    BY <2>1, <2>3, WithoutIsPart
  <2>5. stale' \in [Senders -> SUBSET Items]
    BY <2>1
  <2>. QED
    BY <2>2, <2>4, <2>5
<1>8. CASE PurgeTest(s)
  <2>1. /\ held' = [held EXCEPT ![s] = NoList] /\ step[s] = "remove"
        /\ UNCHANGED <<cookies, lists, url, todo, found, stale, index, began>>
    BY <1>8 DEF PurgeTest
  <2>2. \/ step' = [step EXCEPT ![s] = "drop"] /\ purging' = purging
        \/ /\ step' = [step EXCEPT ![s] = "purge"]
           /\ purging' = [purging EXCEPT ![s] = NoDomain]
    BY <1>8 DEF PurgeTest
  <2>3. InHand(step'[s], purging'[s], held'[s], index'[s])
    <3>1. InHand("remove", purging[s], held[s], index[s]) /\ held'[s] = NoList
      BY <2>1
    <3>2. \/ step'[s] = "drop" /\ purging'[s] = purging[s]
          \/ step'[s] = "purge" /\ purging'[s] = NoDomain
      BY <2>2
    <3>. QED
      BY <2>1, <3>1, <3>2 DEF InHand
  <2>4. /\ step' \in [Senders -> SenderSteps]
        /\ purging' \in [Senders -> Domains \cup {NoDomain}]
        /\ held' \in [Senders -> Lists \cup {NoList}]
    BY <2>1, <2>2 DEF SenderSteps
  <2>5. \A t \in Senders : InHand(step'[t], purging'[t], held'[t], index'[t])
    BY <2>1, <2>2, <2>3
  <2>. QED
    BY <2>1, <2>4, <2>5
<1>9. CASE DropDomain(s)
  <2>1. /\ cookies' = [cookies EXCEPT ![purging[s]] = NoList]
        /\ purging' = [purging EXCEPT ![s] = NoDomain]
        /\ step' = [step EXCEPT ![s] = "purge"] /\ step[s] = "drop"
        /\ UNCHANGED <<lists, url, todo, found, stale, held, index, began>>
    BY <1>9 DEF DropDomain
  <2>2. cookies' \in [Domains -> Lists \cup {NoList}]
    BY <2>1
  <2>3. /\ step' \in [Senders -> SenderSteps]
        /\ purging' \in [Senders -> Domains \cup {NoDomain}]
    BY <2>1 DEF SenderSteps
  <2>4. InHand(step'[s], purging'[s], held'[s], index'[s])
    <3>1. InHand("drop", purging[s], held[s], index[s])
      BY <2>1
    <3>2. step'[s] = "purge" /\ purging'[s] = NoDomain /\ held'[s] = held[s]
      BY <2>1
    <3>. QED
      BY <2>1, <3>1, <3>2 DEF InHand
  <2>5. \A t \in Senders : InHand(step'[t], purging'[t], held'[t], index'[t])
    BY <2>1, <2>4
  <2>. QED
    BY <2>1, <2>2, <2>3, <2>5
<1>10. CASE MatchReturns(s)
  <2>1. /\ step[s] = "purge" /\ step' = [step EXCEPT ![s] = "waiting"]
        /\ found' = [found EXCEPT ![s] = {}] /\ began' = [began EXCEPT ![s] = 0]
        /\ UNCHANGED <<cookies, lists, url, todo, stale, purging, held, index>>
    BY <1>10 DEF MatchReturns
  <2>2. InHand(step'[s], purging'[s], held'[s], index'[s])
    <3>1. InHand("purge", purging[s], held[s], index[s]) /\ step'[s] = "waiting"
      BY <2>1
    <3>. QED
      BY <2>1, <3>1 DEF InHand
  <2>3. \A t \in Senders : InHand(step'[t], purging'[t], held'[t], index'[t])
    BY <2>1, <2>2
  <2>4. found' \in [Senders -> SUBSET Items] /\ began' \in [Senders -> 0 .. MaxTime]
    BY <2>1, LimitsAssumption
  <2>. QED
    BY <2>1, <2>3, <2>4 DEF SenderSteps
<1>11. CASE ResponseComplete(s)
  <2>1. /\ step[s] = "waiting" /\ step' = [step EXCEPT ![s] = "idle"]
        /\ UNCHANGED <<cookies, lists, url, todo, found, stale, purging, held, index, began>>
    BY <1>11 DEF ResponseComplete
  <2>2. InHand(step'[s], purging'[s], held'[s], index'[s])
    <3>1. InHand("waiting", purging[s], held[s], index[s]) /\ step'[s] = "idle"
      BY <2>1
    <3>. QED
      BY <2>1, <3>1 DEF InHand
  <2>3. \A t \in Senders : InHand(step'[t], purging'[t], held'[t], index'[t])
    BY <2>1, <2>2
  <2>. QED
    BY <2>1, <2>3 DEF SenderSteps
<1>. QED
  BY <1>1, <1>2, <1>3, <1>4, <1>5, <1>6, <1>7, <1>8, <1>9, <1>10, <1>11 DEF SenderNext

\* A sender leaves the client's thread, the clock and the history alone, and
\* makes no list.
LEMMA SenderLeaves ==
  ASSUME NEW s \in Senders, SenderNext(s)
  PROVE  UNCHANGED <<made, now, adding, item, list, adds, jar>>
BY DEF SenderNext, Submit, MatchLookup, MatchCookie, ListMatched, DomainsMatched,
   PurgeLookup, PurgeRemove, PurgeTest, DropDomain, MatchReturns, ResponseComplete, storeVars, clientVars

\* The client's thread leaves the senders alone.
LEMMA ClientLeaves ==
  ASSUME ClientNext
  PROVE  UNCHANGED <<now, step, url, todo, found, stale, purging, held, index, began>>
BY DEF ClientNext, AddLookup, AddRemoveOld, AddNewList, AddInsert, senderVars

\* The part of TypeOK that the client's thread and the clock change.
ClientTypes ==
  /\ adds \in 0 .. MaxAdds /\ made \in 0 .. adds /\ now \in 0 .. MaxTime
  /\ adding \in {"none", "remove", "insert"}
  /\ item \in (IF adding = "none" THEN {NoItem} ELSE Items)
  /\ list \in Lists \cup {NoList}
  /\ jar \subseteq Items

\* While Add has no list in hand, there is a number left for the one it makes.
RoomForList == adding # "none" /\ list = NoList => made < adds

\* What the history holds after a cookie was set is of the same type.
LEMMA JarTypes ==
  ASSUME jar \subseteq Items, NEW k \in Items
  PROVE  JarWith(k) \subseteq Items
BY DEF JarWith

\* Add keeps the types of what it changes.
LEMMA ClientStepTypes ==
  ASSUME SenderTypes, ClientTypes, RoomForList, ClientNext
  PROVE  SenderTypes' /\ ClientTypes' /\ RoomForList'
<1>. USE DEF storeVars, senderVars, clientVars
<1>0. UNCHANGED <<now, step, url, todo, found, stale, purging, held, index, began>>
  BY ClientLeaves
<1>1. SUFFICES /\ cookies' \in [Domains -> Lists \cup {NoList}]
               /\ lists' \in [Lists -> SUBSET Items]
               /\ ClientTypes' /\ RoomForList'
  BY <1>0 DEF SenderTypes
<1>2. ASSUME NEW s \in Senders, NEW c \in SetCookies, AddLookup(s, c)
      PROVE  /\ cookies' = cookies /\ lists' = lists
             /\ ClientTypes' /\ RoomForList'
  <2>. DEFINE domain == ResolveCookieDomain(url[s], c)
              k == CachedCookie(c, domain, ResolveCookiePath(url[s], c), now, adds + 1)
  <2>1. /\ adds' = adds + 1 /\ adds < MaxAdds /\ adding = "none"
        /\ UNCHANGED <<cookies, lists, made, now>>
    BY <1>2 DEF AddLookup
  <2>2. /\ adds' \in 0 .. MaxAdds /\ made' \in 0 .. adds' /\ now' \in 0 .. MaxTime
        /\ made' < adds'
    BY <2>1, LimitsAssumption DEF ClientTypes
  <2>3. url[s] \in Urls
    BY DEF SenderTypes
  <2>4. jar' \subseteq Items
    <3>. DEFINE d == DocumentedDomain(url[s], c)
                m == CachedCookie(c, d, DocumentedPath(url[s], c), now, adds + 1)
    <3>1. jar' = JarAfter(url[s], c)
      BY <1>2 DEF AddLookup
    <3>2. CASE d = <<>>
      BY <3>1, <3>2 DEF JarAfter, ClientTypes
    <3>3. CASE d # <<>>
      <4>1. m \in Items
        BY <2>1, <2>3, <3>3, DocumentedUnder, ResolvedPath, MadeItem DEF ClientTypes
      <4>2. jar' = JarWith(m)
        BY <3>1, <3>3 DEF JarAfter
      <4>. HIDE DEF m
      <4>. QED
        BY <4>1, <4>2, JarTypes DEF ClientTypes
    <3>. QED
      BY <3>2, <3>3
  <2>5. CASE domain = <<>>
    <3>1. UNCHANGED <<adding, item, list>>
      BY <1>2, <2>5 DEF AddLookup
    <3>. QED
      BY <2>1, <2>2, <2>4, <3>1 DEF ClientTypes, RoomForList
  <2>6. CASE domain # <<>>
    <3>1. adding' = "remove" /\ item' = k /\ list' = cookies[domain]
      BY <1>2, <2>6 DEF AddLookup
    <3>2. domain \in Domains
      BY <2>3, <2>6, ResolvedDomain, ChainFromHost
    <3>3. k \in Items
      BY <2>1, <2>3, <3>2, ResolvedPath, MadeItem DEF ClientTypes
    <3>4. list' \in Lists \cup {NoList}
      BY <3>1, <3>2 DEF SenderTypes
    <3>. HIDE DEF k, domain
    <3>. QED
      BY <2>1, <2>2, <2>4, <3>1, <3>3, <3>4 DEF ClientTypes, RoomForList
  <2>. QED
    BY <2>5, <2>6
<1>3. CASE AddRemoveOld
  <2>1. adding = "remove" /\ item \in Items /\ UNCHANGED <<cookies, made, now, adds, jar>>
    BY <1>3 DEF AddRemoveOld, ClientTypes
  <2>2. lists' \in [Lists -> SUBSET Items]
    <3>1. CASE list = NoList
      BY <1>3, <3>1 DEF AddRemoveOld, SenderTypes
    <3>2. CASE list # NoList
      <4>1. lists' = [lists EXCEPT ![list] = WithoutSame(@, item)] /\ list \in Lists
        BY <1>3, <3>2 DEF AddRemoveOld, ClientTypes
      <4>. QED
        BY <4>1, WithoutIsPart DEF SenderTypes
    <3>. QED
      BY <3>1, <3>2
  <2>3. CASE IsExpired(item, now)
    <3>1. AddReturns
      BY <1>3, <2>3 DEF AddRemoveOld
    <3>. QED
      BY <2>1, <2>2, <3>1 DEF AddReturns, ClientTypes, RoomForList, SenderTypes
  <2>4. CASE ~IsExpired(item, now)
    <3>1. adding' = "insert" /\ UNCHANGED <<item, list>>
      BY <1>3, <2>4 DEF AddRemoveOld
    <3>. QED
      BY <2>1, <2>2, <3>1 DEF ClientTypes, RoomForList, SenderTypes
  <2>. QED
    BY <2>3, <2>4
<1>4. CASE AddNewList
  <2>1. /\ adding = "insert" /\ list = NoList /\ made' = made + 1 /\ list' = made + 1
        /\ cookies' = [cookies EXCEPT ![item.domain] = made + 1]
        /\ UNCHANGED <<lists, now, adding, item, adds, jar>>
    BY <1>4 DEF AddNewList
  <2>2. made < adds
    BY <2>1 DEF RoomForList
  <2>3. /\ made + 1 \in Lists /\ made' \in 0 .. adds' /\ list' # NoList
    BY <2>1, <2>2, LimitsAssumption DEF ClientTypes, Lists, NoList
  <2>4. cookies' \in [Domains -> Lists \cup {NoList}]
    BY <2>1, <2>3 DEF SenderTypes
  <2>. QED
    BY <2>1, <2>3, <2>4 DEF ClientTypes, RoomForList, SenderTypes
<1>5. CASE AddInsert
  <2>1. /\ adding = "insert" /\ list # NoList
        /\ lists' = [lists EXCEPT ![list] = @ \cup {item}]
        /\ adding' = "none" /\ item' = NoItem /\ list' = NoList
        /\ UNCHANGED <<cookies, made, now, adds, jar>>
    BY <1>5 DEF AddInsert, AddReturns
  <2>2. item \in Items /\ list \in Lists
    BY <2>1 DEF ClientTypes
  <2>3. lists' \in [Lists -> SUBSET Items]
    BY <2>1, <2>2 DEF SenderTypes
  <2>. QED
    BY <2>1, <2>3 DEF ClientTypes, RoomForList, SenderTypes
<1>. QED
  BY <1>2, <1>3, <1>4, <1>5 DEF ClientNext, SenderTypes

\* The three together are inductive, whatever step is taken.
LEMMA TypesInductive ==
  ASSUME TypeOK, RoomForList, [Next]_vars
  PROVE  TypeOK' /\ RoomForList'
<1>0. SenderTypes /\ ClientTypes
  BY DEF TypeOK, SenderTypes, ClientTypes
<1>1. SUFFICES SenderTypes' /\ ClientTypes' /\ RoomForList'
  BY DEF TypeOK, SenderTypes, ClientTypes
<1>2. ASSUME NEW s \in Senders, SenderNext(s)
      PROVE  SenderTypes' /\ ClientTypes' /\ RoomForList'
  <2>1. SenderTypes' /\ UNCHANGED <<made, now, adding, item, list, adds, jar>>
    BY <1>0, <1>2, SenderStepTypes, SenderLeaves DEF ClientTypes
  <2>. QED
    BY <1>0, <2>1 DEF ClientTypes, RoomForList
<1>3. CASE ClientNext
  BY <1>0, <1>3, ClientStepTypes
<1>4. CASE Tick
  <2>1. /\ now < MaxTime /\ now' = now + 1
        /\ UNCHANGED <<storeVars, senderVars, clientVars, jar>>
    BY <1>4 DEF Tick
  <2>2. now' \in 0 .. MaxTime
    BY <1>0, <2>1, LimitsAssumption DEF ClientTypes
  <2>3. SenderTypes'
    BY <1>0, <2>1 DEF SenderTypes, storeVars, senderVars
  <2>. QED
    BY <1>0, <2>1, <2>2, <2>3 DEF ClientTypes, RoomForList, storeVars, clientVars
<1>5. CASE UNCHANGED vars
  BY <1>0, <1>5 DEF SenderTypes, ClientTypes, RoomForList, vars, storeVars, senderVars,
     clientVars
<1>. QED
  BY <1>2, <1>3, <1>4, <1>5 DEF Next

\* Every variable keeps its type: THttpCookieStore and the calls under way.
THEOREM TypeCorrect == Spec => []TypeOK
<1>1. Init => TypeOK /\ RoomForList
  BY InitTypes DEF Init, RoomForList
<1>2. TypeOK /\ RoomForList /\ [Next]_vars => TypeOK' /\ RoomForList'
  BY TypesInductive
<1>. QED
  BY <1>1, <1>2, PTL DEF Spec

----------------------------------------------------------------------------
(* The lists, whatever threads are at work.                                *)

\* A list is made once and is the list of one domain at most; no thread has a
\* list in hand that was not made.
MapInv ==
  /\ \A l \in Lists : l > made => lists[l] = {}
  /\ \A d \in Domains : cookies[d] <= made
  /\ \A s \in Senders : held[s] <= made
  /\ list <= made
  /\ \A c, d \in Domains : cookies[c] # NoList /\ cookies[c] = cookies[d] => c = d

HostOnly(ks) == \A k \in ks : k.cookie.domain = <<>>

\* What is in a list is one version of each cookie, set without a Domain
\* attribute since ResolveCookieDomain refuses all others.
ListInv ==
  /\ \A l \in Lists : OneVersion(lists[l]) /\ HostOnly(lists[l])
  /\ \A d \in Domains : \A k \in Under(d) : k.domain = d

\* What Add knows of the list it has in hand, though the map may have dropped
\* it meanwhile.
AddedTo(l) ==
  /\ \A k \in lists[l] : k.domain = item.domain
  /\ \A d \in Domains : cookies[d] = l => d = item.domain
  /\ adding = "insert" => \A k \in lists[l] : ~SameCookie(k, item)

AddInv ==
  /\ adding # "none" => item.cookie.domain = <<>>
  /\ adding # "none" /\ list # NoList => AddedTo(list)

\* The objects in a list have numbers of their own, and the one that Add is to
\* put in has the newest.
Numbered(ks) == IsFiniteSet(ks) /\ \A k, m \in ks : k.id = m.id => k = m

NumberInv ==
  /\ \A l \in Lists : Numbered(lists[l]) /\ \A k \in lists[l] : k.id <= adds
  /\ adding # "none" =>
       item.id = adds /\ \A l \in Lists : \A k \in lists[l] : k.id < adds

\* Match has found only cookies that apply.
MatchOK(st, u, cs) ==
  /\ \A k \in cs : Applies(k, u)
  /\ st \in {"idle", "waiting"} => cs = {}

MatchInv == \A s \in Senders : MatchOK(step[s], url[s], found[s])

StoreInv == MapInv /\ ListInv /\ AddInv /\ NumberInv /\ MatchInv

\* Comparing cookies is an equivalence, and a list that holds one version of
\* each holds none of a cookie after Remove was called for it.
LEMMA WithoutAllSame ==
  ASSUME NEW ks \in SUBSET Items, OneVersion(ks), NEW k, NEW m \in WithoutSame(ks, k)
  PROVE  ~SameCookie(m, k)
<1>. SUFFICES ASSUME SameCookie(m, k) PROVE FALSE
  OBVIOUS
<1>. DEFINE same == {x \in ks : SameCookie(x, k)}
<1>1. m \in same /\ m.id \in Int
  BY WithoutIsPart DEF Items
<1>2. \A n \in same : n = m
  <2>. SUFFICES ASSUME NEW n \in same PROVE n = m
    OBVIOUS
  <2>1. SameCookie(n, m)
    BY <1>1 DEF SameCookie
  <2>. QED
    BY <1>1, <2>1 DEF OneVersion
<1>3. \A n \in same : m.id <= n.id
  BY <1>1, <1>2
<1>. QED
  BY <1>1, <1>3 DEF WithoutSame

\* A part of a list keeps what holds of each element and of each two.
LEMMA PartOfList ==
  ASSUME NEW ks, NEW ms \in SUBSET ks
  PROVE  /\ OneVersion(ks) => OneVersion(ms)
         /\ HostOnly(ks) => HostOnly(ms)
BY DEF OneVersion, HostOnly

\* Match only takes things away: cookies from lists, domains from the map; and
\* what it has in hand it got from the map.
LEMMA SenderShrinks ==
  ASSUME TypeOK, NEW s \in Senders, SenderNext(s)
  PROVE  /\ \A l \in Lists : lists'[l] \subseteq lists[l]
         /\ \A d \in Domains : cookies'[d] \in {cookies[d], NoList}
         /\ \A t \in Senders : \/ held'[t] \in {held[t], NoList}
                               \/ \E d \in Domains : held'[t] = cookies[d]
<1>. USE DEF storeVars
<1>0. /\ lists \in [Lists -> SUBSET Items] /\ cookies \in [Domains -> Lists \cup {NoList}]
      /\ held \in [Senders -> Lists \cup {NoList}]
  BY DEF TypeOK
<1>1. CASE PurgeLookup(s)
  <2>1. PICK d \in Domains : held' = held \/ held' = [held EXCEPT ![s] = cookies[d]]
    BY <1>1 DEF PurgeLookup
  <2>2. \A t \in Senders : held'[t] = held[t] \/ held'[t] = cookies[d]
    BY <1>0, <2>1
  <2>. QED
    BY <1>1, <2>2 DEF PurgeLookup
<1>2. CASE PurgeRemove(s)
  <2>1. PICK k : lists' = [lists EXCEPT ![held[s]] = WithoutSame(@, k)]
    BY <1>2 DEF PurgeRemove
  <2>2. \A l \in Lists : lists'[l] \subseteq lists[l]
    BY <1>0, <2>1, WithoutIsPart
  <2>. QED
    BY <1>2, <2>2 DEF PurgeRemove
<1>3. CASE PurgeTest(s)
  BY <1>0, <1>3 DEF PurgeTest
<1>4. CASE DropDomain(s)
  BY <1>0, <1>4 DEF DropDomain
<1>5. CASE \/ \E u \in Urls : Submit(s, u)
           \/ MatchCookie(s) \/ DomainsMatched(s) \/ MatchReturns(s) \/ ResponseComplete(s)
  BY <1>5 DEF Submit, MatchCookie, DomainsMatched, MatchReturns, ResponseComplete
<1>6. CASE MatchLookup(s)
  <2>. DEFINE d == Head(todo[s])
  <2>1. todo[s] # <<>> /\ todo[s] \in Seq(Domains) /\ UNCHANGED <<cookies, lists>>
    BY <1>6 DEF MatchLookup, TypeOK
  <2>2. d \in Domains
    BY <2>1, HeadTailProperties
  <2>3. held' = held \/ held' = [held EXCEPT ![s] = cookies[d]]
    BY <1>6 DEF MatchLookup
  <2>. HIDE DEF d
  <2>4. \A t \in Senders : held'[t] = held[t] \/ held'[t] = cookies[d]
    BY <1>0, <2>3
  <2>. QED
    BY <2>1, <2>2, <2>4
<1>7. CASE ListMatched(s)
  BY <1>0, <1>7 DEF ListMatched
<1>. QED
  BY <1>1, <1>2, <1>3, <1>4, <1>5, <1>6, <1>7 DEF SenderNext

\* So whatever Match does, the map and the lists stay in order, also for Add.
LEMMA SenderKeepsLists ==
  ASSUME TypeOK, MapInv, ListInv, AddInv, NEW s \in Senders, SenderNext(s)
  PROVE  MapInv' /\ ListInv' /\ AddInv'
<1>0. /\ lists \in [Lists -> SUBSET Items] /\ cookies \in [Domains -> Lists \cup {NoList}]
      /\ held \in [Senders -> Lists \cup {NoList}] /\ list \in Lists \cup {NoList}
      /\ made \in Nat /\ MaxAdds \in Nat
  BY LimitsAssumption DEF TypeOK
<1>1. /\ \A l \in Lists : lists'[l] \subseteq lists[l]
      /\ \A d \in Domains : cookies'[d] \in {cookies[d], NoList}
      /\ \A t \in Senders : \/ held'[t] \in {held[t], NoList}
                            \/ \E d \in Domains : held'[t] = cookies[d]
  BY SenderShrinks
<1>2. made' = made /\ adding' = adding /\ item' = item /\ list' = list
  BY SenderLeaves
<1>3. MapInv'
  <2>1. \A l \in Lists : l > made' => lists'[l] = {}
    BY <1>1, <1>2 DEF MapInv
  <2>2. \A d \in Domains : cookies'[d] <= made'
    BY <1>0, <1>1, <1>2 DEF MapInv, NoList
  <2>3. \A t \in Senders : held'[t] <= made'
    BY <1>0, <1>1, <1>2 DEF MapInv, NoList
  <2>4. \A c, d \in Domains : cookies'[c] # NoList /\ cookies'[c] = cookies'[d] => c = d
    BY <1>1 DEF MapInv
  <2>. QED
    BY <1>2, <2>1, <2>2, <2>3, <2>4 DEF MapInv
<1>4. ListInv'
  <2>1. \A l \in Lists : OneVersion(lists'[l]) /\ HostOnly(lists'[l])
    BY <1>1, PartOfList DEF ListInv
  <2>2. ASSUME NEW d \in Domains, NEW k \in Under(d)' PROVE k.domain = d
    <3>1. cookies'[d] # NoList /\ k \in lists'[cookies'[d]]
      BY <2>2 DEF Under
    <3>2. cookies[d] \in Lists /\ cookies'[d] = cookies[d]
      BY <1>0, <1>1, <3>1
    <3>3. k \in Under(d)
      BY <1>1, <3>1, <3>2 DEF Under
    <3>. QED
      BY <3>3 DEF ListInv
  <2>. QED
    BY <2>1, <2>2 DEF ListInv
<1>5. AddInv'
  <2>1. ASSUME adding # "none", list # NoList PROVE AddedTo(list)'
    <3>1. AddedTo(list) /\ lists'[list] \subseteq lists[list]
      BY <1>0, <1>1, <2>1 DEF AddInv
    <3>2. \A d \in Domains : cookies'[d] = list => cookies[d] = list
      BY <1>1, <2>1
    <3>. QED
      BY <1>2, <3>1, <3>2 DEF AddedTo
  <2>. QED
    BY <1>2, <2>1 DEF AddInv
<1>. QED
  BY <1>3, <1>4, <1>5

\* What is left of a list keeps its numbers.
LEMMA PartNumbered ==
  ASSUME NEW ks, Numbered(ks), NEW ms \in SUBSET ks
  PROVE  Numbered(ms)
<1>1. IsFiniteSet(ms)
  BY FS_Subset DEF Numbered
<1>. QED
  BY <1>1 DEF Numbered

\* Match gives no numbers.
LEMMA SenderKeepsNumbers ==
  ASSUME TypeOK, NumberInv, NEW s \in Senders, SenderNext(s)
  PROVE  NumberInv'
<1>1. \A l \in Lists : lists'[l] \subseteq lists[l]
  BY SenderShrinks
<1>2. adding' = adding /\ item' = item /\ adds' = adds
  BY SenderLeaves
<1>3. \A l \in Lists : Numbered(lists'[l])
  BY <1>1, PartNumbered DEF NumberInv
<1>. QED
  BY <1>1, <1>2, <1>3 DEF NumberInv

\* Add gives each cookie a number that none in the lists has.
LEMMA AddKeepsNumbers ==
  ASSUME TypeOK, NumberInv, ClientNext
  PROVE  NumberInv'
<1>0. /\ lists \in [Lists -> SUBSET Items] /\ list \in Lists \cup {NoList} /\ adds \in Nat
      /\ \A l \in Lists : \A k \in lists[l] : k.id \in Int
  BY DEF TypeOK, Items
<1>1. ASSUME NEW s \in Senders, NEW c \in SetCookies, AddLookup(s, c)
      PROVE  NumberInv'
  <2>1. /\ lists' = lists /\ adds' = adds + 1
        /\ adding' # "none" => item'.id = adds + 1
    <3>1. lists' = lists /\ adds' = adds + 1 /\ adding = "none"
      BY <1>1 DEF AddLookup, storeVars
    <3>. DEFINE domain == ResolveCookieDomain(url[s], c)
    <3>2. CASE domain = <<>>
      BY <1>1, <3>1, <3>2 DEF AddLookup
    <3>3. CASE domain # <<>>
      BY <1>1, <3>1, <3>3 DEF AddLookup, CachedCookie
    <3>. QED
      BY <3>1, <3>2, <3>3
  <2>2. \A l \in Lists : \A k \in lists[l] : k.id < adds + 1
    BY <1>0 DEF NumberInv
  <2>. QED
    BY <1>0, <2>1, <2>2 DEF NumberInv
<1>2. CASE AddRemoveOld
  <2>1. \A l \in Lists : lists'[l] \subseteq lists[l]
    <3>1. CASE list = NoList
      BY <1>2, <3>1 DEF AddRemoveOld
    <3>2. CASE list # NoList
      <4>1. lists' = [lists EXCEPT ![list] = WithoutSame(@, item)]
        BY <1>2, <3>2 DEF AddRemoveOld
      <4>. QED
        BY <1>0, <4>1, WithoutIsPart
    <3>. QED
      BY <3>1, <3>2
  <2>2. adding = "remove" /\ adds' = adds /\ (adding' # "none" => item' = item)
    BY <1>2 DEF AddRemoveOld, AddReturns
  <2>3. \A l \in Lists : Numbered(lists'[l])
    BY <2>1, PartNumbered DEF NumberInv
  <2>. QED
    BY <2>1, <2>2, <2>3 DEF NumberInv
<1>3. CASE AddNewList
  BY <1>3 DEF AddNewList, NumberInv
<1>4. CASE AddInsert
  <2>1. /\ adding = "insert" /\ adding' = "none" /\ adds' = adds /\ list \in Lists
        /\ lists' = [lists EXCEPT ![list] = @ \cup {item}]
    BY <1>0, <1>4 DEF AddInsert, AddReturns
  <2>2. item.id = adds /\ \A k \in lists[list] : k.id < adds
    BY <2>1 DEF NumberInv
  <2>3. Numbered(lists[list] \cup {item})
    <3>1. Numbered(lists[list])
      BY <2>1 DEF NumberInv
    <3>2. IsFiniteSet(lists[list] \cup {item})
      BY <3>1, FS_AddElement DEF Numbered
    <3>3. \A k \in lists[list] : k.id # item.id
      BY <1>0, <2>1, <2>2
    <3>. QED
      BY <3>1, <3>2, <3>3 DEF Numbered
  <2>4. ASSUME NEW l \in Lists
        PROVE  Numbered(lists'[l]) /\ \A k \in lists'[l] : k.id <= adds
    <3>1. CASE l = list
      <4>1. lists'[l] = lists[list] \cup {item}
        BY <1>0, <2>1, <3>1
      <4>2. \A k \in lists[list] : k.id <= adds
        BY <2>1 DEF NumberInv
      <4>3. item.id <= adds
        BY <1>0, <2>2
      <4>. QED
        BY <2>3, <4>1, <4>2, <4>3
    <3>2. CASE l # list
      <4>1. lists'[l] = lists[l]
        BY <1>0, <2>1, <3>2
      <4>. QED
        BY <4>1 DEF NumberInv
    <3>. QED
      BY <3>1, <3>2
  <2>. QED
    BY <2>1, <2>4 DEF NumberInv
<1>. QED
  BY <1>1, <1>2, <1>3, <1>4 DEF ClientNext

\* Match keeps to the cookies that apply, wherever the list it looks at has come
\* to: what is in any list was set for its domain alone.
LEMMA MatchKeeps ==
  ASSUME TypeOK, ListInv, MatchInv, NEW s \in Senders, SenderNext(s)
  PROVE  MatchInv'
<1>. USE DEF storeVars, senderVars
<1>0. /\ found \in [Senders -> SUBSET Items] /\ url \in [Senders -> Urls]
      /\ step \in [Senders -> SenderSteps] /\ held \in [Senders -> Lists \cup {NoList}]
      /\ lists \in [Lists -> SUBSET Items]
      /\ InHand(step[s], purging[s], held[s], index[s])
  BY DEF TypeOK
<1>1. MatchOK(step[s], url[s], found[s])
  BY DEF MatchInv
<1>2. SUFFICES MatchOK(step'[s], url'[s], found'[s])
  <2>1. \A t \in Senders \ {s} :
          step'[t] = step[t] /\ url'[t] = url[t] /\ found'[t] = found[t]
    BY <1>0 DEF SenderNext, Submit, MatchLookup, MatchCookie, ListMatched, DomainsMatched,
       PurgeLookup, PurgeRemove, PurgeTest, DropDomain, MatchReturns, ResponseComplete
  <2>. QED
    BY <1>2, <2>1 DEF MatchInv
<1>3. ASSUME NEW u \in Urls, Submit(s, u)
      PROVE  MatchOK(step'[s], url'[s], found'[s])
  <2>1. found[s] = {} /\ found'[s] = {}
    BY <1>0, <1>1, <1>3 DEF Submit, MatchOK
  <2>. QED
    BY <2>1 DEF MatchOK
<1>4. CASE MatchCookie(s)
  <2>1. PICK k \in lists[held[s]] :
          found' = [found EXCEPT ![s] = IF Takes(k, url[s]) THEN @ \cup {k} ELSE @]
    BY <1>4 DEF MatchCookie
  <2>2. step[s] = "scan" /\ step'[s] = "scan" /\ url'[s] = url[s] /\ url[s] \in Urls
    BY <1>0, <1>4 DEF MatchCookie
  <2>3. k \in Items /\ k.cookie.domain = <<>> /\ k.path \in Paths
    <3>1. held[s] \in Lists
      BY <1>0, <2>2 DEF InHand
    <3>. QED
      BY <1>0, <3>1 DEF ListInv, HostOnly, Items
  <2>4. ASSUME Takes(k, url[s]) PROVE Applies(k, url[s])
    <3>1. /\ DomainMatches(url[s].host, k.domain, k.cookie.domain)
          /\ PathMatches(url[s].path, k.path) /\ (k.cookie.secure => url[s].secure)
      BY <2>4 DEF Takes
    <3>2. ValidForHost(k, url[s].host)
      BY <2>3, <3>1, HostOnlyMatches
    <3>3. k.path \in Directories(url[s].path)
      BY <2>2, <2>3, <3>1, PathMatchesDirectory, PathsAreSequences, UrlsAssumption
    <3>. QED
      BY <3>1, <3>2, <3>3 DEF Applies
  <2>5. found'[s] = found[s] \/ (Applies(k, url[s]) /\ found'[s] = found[s] \cup {k})
    BY <1>0, <2>1, <2>4
  <2>. QED
    BY <1>1, <2>2, <2>5 DEF MatchOK
<1>5. CASE MatchReturns(s)
  <2>1. step'[s] = "waiting" /\ found'[s] = {}
    BY <1>0, <1>5 DEF MatchReturns
  <2>. QED
    BY <2>1 DEF MatchOK
<1>6. CASE ResponseComplete(s)
  <2>1. step[s] = "waiting" /\ step'[s] = "idle" /\ UNCHANGED <<url, found>>
    BY <1>0, <1>6 DEF ResponseComplete
  <2>. QED
    BY <1>1, <2>1 DEF MatchOK
<1>7. CASE MatchLookup(s) \/ ListMatched(s)
  <2>1. step'[s] \in {"match", "scan"} /\ UNCHANGED <<url, found>>
    BY <1>0, <1>7 DEF MatchLookup, ListMatched
  <2>. QED
    BY <1>1, <2>1 DEF MatchOK
<1>8. CASE \/ DomainsMatched(s) \/ PurgeLookup(s) \/ PurgeRemove(s) \/ PurgeTest(s)
           \/ DropDomain(s)
  <2>1. step'[s] \in {"purge", "remove", "drop"} /\ UNCHANGED <<url, found>>
    BY <1>0, <1>8 DEF DomainsMatched, PurgeLookup, PurgeRemove, PurgeTest, DropDomain
  <2>. QED
    BY <1>1, <2>1 DEF MatchOK
<1>. QED
  BY <1>3, <1>4, <1>5, <1>6, <1>7, <1>8 DEF SenderNext

\* Add keeps the lists in order: it looks a list up, takes the older version
\* out of it, and puts the new one in, or makes a list for it.
LEMMA AddKeepsLists ==
  ASSUME TypeOK, RoomForList, MapInv, ListInv, AddInv, ClientNext
  PROVE  MapInv' /\ ListInv' /\ AddInv'
<1>. USE DEF storeVars
<1>0. /\ lists \in [Lists -> SUBSET Items] /\ cookies \in [Domains -> Lists \cup {NoList}]
      /\ held \in [Senders -> Lists \cup {NoList}] /\ list \in Lists \cup {NoList}
      /\ made \in Nat /\ adds \in Nat /\ adds <= MaxAdds /\ MaxAdds \in Nat
      /\ url \in [Senders -> Urls]
  BY LimitsAssumption DEF TypeOK
<1>1. held' = held
  BY ClientLeaves
<1>2. ASSUME NEW s \in Senders, NEW c \in SetCookies, AddLookup(s, c)
      PROVE  MapInv' /\ ListInv' /\ AddInv'
  <2>. DEFINE domain == ResolveCookieDomain(url[s], c)
              k == CachedCookie(c, domain, ResolveCookiePath(url[s], c), now, adds + 1)
  <2>1. adding = "none" /\ UNCHANGED <<cookies, lists, made>>
    BY <1>2 DEF AddLookup
  <2>2. ListInv'
    BY <2>1 DEF ListInv, Under
  <2>3. CASE domain = <<>>
    <3>1. adding' = "none" /\ item' = item /\ list' = list
      BY <1>2, <2>1, <2>3 DEF AddLookup
    <3>. QED
      BY <1>1, <2>1, <2>2, <3>1 DEF MapInv, AddInv
  <2>4. CASE domain # <<>>
    <3>1. adding' = "remove" /\ item' = k /\ list' = cookies[domain]
      BY <1>2, <2>4 DEF AddLookup
    <3>2. c.domain = <<>> /\ domain \in Domains
      BY <1>0, <2>4, ResolvedDomain, ChainFromHost
    <3>3. item'.cookie.domain = <<>> /\ item'.domain = domain
      BY <3>1, <3>2 DEF CachedCookie
    <3>. HIDE DEF domain, k
    <3>4. MapInv'
      BY <1>1, <2>1, <3>1, <3>2 DEF MapInv
    <3>5. ASSUME list' # NoList PROVE AddedTo(list)'
      <4>1. lists'[list'] = Under(domain)
        BY <2>1, <3>1, <3>5 DEF Under
      <4>2. \A m \in lists'[list'] : m.domain = item'.domain
        BY <3>2, <3>3, <4>1 DEF ListInv
      <4>3. \A d \in Domains : cookies'[d] = list' => d = item'.domain
        BY <2>1, <3>1, <3>2, <3>3, <3>5 DEF MapInv
      <4>. QED
        BY <3>1, <4>2, <4>3 DEF AddedTo
    <3>. QED
      BY <2>2, <3>3, <3>4, <3>5 DEF AddInv
  <2>. QED
    BY <2>3, <2>4
<1>3. CASE AddRemoveOld
  <2>1. adding = "remove" /\ item \in Items /\ UNCHANGED <<cookies, made>>
    BY <1>3 DEF AddRemoveOld, TypeOK
  <2>2. /\ \A l \in Lists : lists'[l] \subseteq lists[l]
        /\ list # NoList => \A m \in lists'[list] : ~SameCookie(m, item)
    <3>1. CASE list = NoList
      BY <1>3, <3>1 DEF AddRemoveOld
    <3>2. CASE list # NoList
      <4>1. lists' = [lists EXCEPT ![list] = WithoutSame(@, item)] /\ list \in Lists
        BY <1>0, <1>3, <3>2 DEF AddRemoveOld
      <4>2. lists'[list] = WithoutSame(lists[list], item)
        BY <1>0, <4>1
      <4>3. \A m \in lists'[list] : ~SameCookie(m, item)
        BY <1>0, <4>1, <4>2, WithoutAllSame DEF ListInv
      <4>4. \A l \in Lists : lists'[l] \subseteq lists[l]
        BY <1>0, <4>1, WithoutIsPart
      <4>. QED
        BY <4>3, <4>4
    <3>. QED
      BY <3>1, <3>2
  <2>3. \/ adding' = "none" /\ list' = NoList
        \/ adding' = "insert" /\ item' = item /\ list' = list
    BY <1>3 DEF AddRemoveOld, AddReturns
  <2>4. MapInv'
    <3>1. \A l \in Lists : l > made' => lists'[l] = {}
      BY <2>1, <2>2 DEF MapInv
    <3>2. list' <= made'
      BY <1>0, <2>1, <2>3 DEF MapInv, NoList
    <3>. QED
      BY <1>1, <2>1, <3>1, <3>2 DEF MapInv
  <2>5. ListInv'
    <3>1. \A l \in Lists : OneVersion(lists'[l]) /\ HostOnly(lists'[l])
      BY <2>2, PartOfList DEF ListInv
    <3>2. ASSUME NEW d \in Domains, NEW m \in Under(d)' PROVE m.domain = d
      <4>1. cookies[d] # NoList /\ m \in lists'[cookies[d]]
        BY <2>1, <3>2 DEF Under
      <4>2. m \in Under(d)
        BY <1>0, <2>2, <4>1 DEF Under
      <4>. QED
        BY <4>2 DEF ListInv
    <3>. QED
      BY <3>1, <3>2 DEF ListInv
  <2>6. AddInv'
    <3>1. ASSUME adding' # "none", list' # NoList PROVE AddedTo(list)'
      <4>1. item' = item /\ list' = list /\ list \in Lists
        BY <1>0, <2>3, <3>1
      <4>2. AddedTo(list)
        BY <2>1, <3>1, <4>1 DEF AddInv
      <4>. QED
        BY <2>1, <2>2, <3>1, <4>1, <4>2 DEF AddedTo
    <3>2. adding' # "none" => item'.cookie.domain = <<>>
      BY <2>1, <2>3 DEF AddInv
    <3>. QED
      BY <3>1, <3>2 DEF AddInv
  <2>. QED
    BY <2>4, <2>5, <2>6
<1>4. CASE AddNewList
  <2>1. /\ adding = "insert" /\ list = NoList /\ item \in Items
        /\ made' = made + 1 /\ list' = made + 1
        /\ cookies' = [cookies EXCEPT ![item.domain] = made + 1]
        /\ UNCHANGED <<lists, adding, item>>
    BY <1>4 DEF AddNewList, TypeOK
  <2>2. item.domain \in Domains /\ made + 1 \in Lists
    BY <1>0, <2>1 DEF Items, RoomForList, Lists
  <2>3. lists'[made + 1] = {}
    BY <1>0, <2>1, <2>2 DEF MapInv
  <2>4. /\ cookies'[item.domain] = made + 1
        /\ \A d \in Domains \ {item.domain} : cookies'[d] = cookies[d]
    BY <1>0, <2>1, <2>2
  <2>5. \A d \in Domains : cookies[d] \in Int /\ cookies[d] # made + 1
    BY <1>0 DEF MapInv, Lists, NoList
  <2>6. \A d \in Domains : cookies'[d] = made + 1 <=> d = item.domain
    BY <2>4, <2>5
  <2>7. MapInv'
    <3>1. \A l \in Lists : l > made' => lists'[l] = {}
      BY <1>0, <2>1 DEF MapInv, Lists
    <3>2. \A d \in Domains : cookies'[d] <= made'
      BY <1>0, <2>1, <2>4, <2>5 DEF MapInv
    <3>3. \A t \in Senders : held'[t] <= made'
      BY <1>0, <1>1, <2>1 DEF MapInv, Lists, NoList
    <3>4. \A c, d \in Domains : cookies'[c] # NoList /\ cookies'[c] = cookies'[d] => c = d
      BY <2>4, <2>6 DEF MapInv
    <3>. QED
      BY <1>0, <2>1, <3>1, <3>2, <3>3, <3>4 DEF MapInv
  <2>8. ListInv'
    <3>1. ASSUME NEW d \in Domains, NEW m \in Under(d)' PROVE m.domain = d
      <4>1. cookies'[d] # NoList /\ m \in lists'[cookies'[d]]
        BY <3>1 DEF Under
      <4>2. d # item.domain
        BY <2>3, <2>4, <4>1
      <4>3. m \in Under(d)
        BY <2>1, <2>4, <4>1, <4>2 DEF Under
      <4>. QED
        BY <4>3 DEF ListInv
    <3>. QED
      BY <2>1, <3>1 DEF ListInv
  <2>9. AddInv'
    <3>1. item'.cookie.domain = <<>>
      BY <2>1 DEF AddInv
    <3>2. AddedTo(list)'
      BY <2>1, <2>3, <2>6 DEF AddedTo
    <3>. QED
      BY <3>1, <3>2 DEF AddInv
  <2>. QED
    BY <2>7, <2>8, <2>9
<1>5. CASE AddInsert
  <2>1. /\ adding = "insert" /\ list # NoList /\ list \in Lists /\ item \in Items
        /\ lists' = [lists EXCEPT ![list] = @ \cup {item}]
        /\ adding' = "none" /\ list' = NoList
        /\ UNCHANGED <<cookies, made>>
    BY <1>0, <1>5 DEF AddInsert, AddReturns, TypeOK
  <2>2. AddedTo(list) /\ item.cookie.domain = <<>>
    BY <2>1 DEF AddInv
  <2>3. /\ lists'[list] = lists[list] \cup {item}
        /\ \A l \in Lists \ {list} : lists'[l] = lists[l]
    BY <1>0, <2>1
  <2>4. MapInv'
    <3>1. ASSUME NEW l \in Lists, l > made PROVE lists'[l] = {}
      <4>1. l # list
        BY <1>0, <3>1 DEF MapInv, Lists
      <4>. QED
        BY <2>3, <3>1, <4>1 DEF MapInv
    <3>2. list' <= made'
      BY <1>0, <2>1 DEF NoList
    <3>. QED
      BY <1>1, <2>1, <3>1, <3>2 DEF MapInv
  <2>5. ListInv'
    <3>1. OneVersion(lists[list] \cup {item})
      <4>1. OneVersion(lists[list]) /\ \A m \in lists[list] : ~SameCookie(m, item)
        BY <2>1, <2>2 DEF ListInv, AddedTo
      <4>2. \A m \in lists[list] : ~SameCookie(item, m)
        BY <4>1 DEF SameCookie
      <4>. QED
        BY <4>1, <4>2 DEF OneVersion
    <3>2. HostOnly(lists[list] \cup {item})
      BY <2>1, <2>2 DEF ListInv, HostOnly
    <3>3. \A l \in Lists : OneVersion(lists'[l]) /\ HostOnly(lists'[l])
      BY <2>3, <3>1, <3>2 DEF ListInv
    <3>4. ASSUME NEW d \in Domains, NEW m \in Under(d)' PROVE m.domain = d
      <4>1. cookies[d] \in Lists /\ m \in lists'[cookies[d]]
        BY <1>0, <2>1, <3>4 DEF Under
      <4>2. CASE cookies[d] = list
        <5>1. d = item.domain /\ (m \in lists[list] => m.domain = item.domain)
          BY <2>2, <4>2 DEF AddedTo
        <5>2. m \in lists[list] \/ m = item
          BY <2>3, <4>1, <4>2
        <5>. QED
          BY <5>1, <5>2
      <4>3. CASE cookies[d] # list
        <5>1. m \in Under(d)
          BY <2>1, <2>3, <4>1, <4>3 DEF Under
        <5>. QED
          BY <5>1 DEF ListInv
      <4>. QED
        BY <4>2, <4>3
    <3>. QED
      BY <3>3, <3>4 DEF ListInv
  <2>6. AddInv'
    BY <2>1 DEF AddInv
  <2>. QED
    BY <2>4, <2>5, <2>6
<1>. QED
  BY <1>2, <1>3, <1>4, <1>5 DEF ClientNext

\* Nothing is out of order to begin with.
LEMMA StoreInitially == Init => StoreInv
<1>. SUFFICES ASSUME Init PROVE StoreInv
  OBVIOUS
<1>1. MapInv
  <2>1. 0 <= 0
    OBVIOUS
  <2>. QED
    BY <2>1 DEF Init, MapInv, NoList
<1>2. ListInv
  BY DEF Init, ListInv, Under, OneVersion, HostOnly
<1>3. AddInv
  BY DEF Init, AddInv
<1>4. MatchInv
  BY DEF Init, MatchInv, MatchOK
<1>5. NumberInv
  BY FS_EmptySet DEF Init, NumberInv, Numbered
<1>. QED
  BY <1>1, <1>2, <1>3, <1>4, <1>5 DEF StoreInv

\* And it stays so, whatever the threads do.
LEMMA StoreInductive ==
  ASSUME TypeOK, RoomForList, StoreInv, [Next]_vars
  PROVE  StoreInv'
<1>. USE DEF StoreInv
<1>1. ASSUME NEW s \in Senders, SenderNext(s) PROVE StoreInv'
  BY <1>1, SenderKeepsLists, SenderKeepsNumbers, MatchKeeps
<1>2. CASE ClientNext
  <2>1. MatchInv'
    BY <1>2, ClientLeaves DEF MatchInv
  <2>. QED
    BY <1>2, <2>1, AddKeepsLists, AddKeepsNumbers
<1>3. CASE Tick \/ UNCHANGED vars
  <2>1. UNCHANGED <<cookies, lists, made, held, list, adding, item, adds, step, url, found>>
    BY <1>3 DEF Tick, vars, storeVars, senderVars, clientVars
  <2>2. MapInv'
    BY <2>1 DEF MapInv
  <2>3. ListInv'
    BY <2>1 DEF ListInv, Under
  <2>4. AddInv'
    BY <2>1 DEF AddInv, AddedTo
  <2>5. MatchInv'
    BY <2>1 DEF MatchInv
  <2>6. NumberInv'
    BY <2>1 DEF NumberInv
  <2>. QED
    BY <2>2, <2>3, <2>4, <2>5, <2>6
<1>. QED
  BY <1>1, <1>2, <1>3 DEF Next

\* In every state.
LEMMA StoreAlways == Spec => [](TypeOK /\ RoomForList /\ StoreInv)
<1>1. Init => TypeOK /\ RoomForList /\ StoreInv
  BY InitTypes, StoreInitially DEF Init, RoomForList
<1>2. TypeOK /\ RoomForList /\ StoreInv /\ [Next]_vars => (TypeOK /\ RoomForList /\ StoreInv)'
  BY TypesInductive, StoreInductive
<1>. QED
  BY <1>1, <1>2, PTL DEF Spec

\* A list in the map holds one version of a cookie, and only cookies of the
\* domain it is kept under, though Match and Add run side by side.
THEOREM ListsCorrect == Spec => []ListsConsistent
<1>1. TypeOK /\ StoreInv => ListsConsistent
  <2>. SUFFICES ASSUME TypeOK, StoreInv, NEW d \in Domains
                PROVE  /\ \A k \in Under(d) : k.domain = d
                       /\ OneVersion(Under(d))
    BY DEF ListsConsistent
  <2>1. cookies[d] \in Lists \cup {NoList} /\ ListInv
    BY DEF TypeOK, StoreInv
  <2>2. OneVersion(Under(d))
    <3>1. CASE cookies[d] = NoList
      BY <3>1 DEF Under, OneVersion
    <3>2. CASE cookies[d] # NoList
      BY <2>1, <3>2 DEF Under, ListInv
    <3>. QED
      BY <3>1, <3>2
  <2>. QED
    BY <2>1, <2>2 DEF ListInv
<1>. QED
  BY <1>1, StoreAlways, PTL

\* However the threads interleave, a request carries only cookies that its own
\* host has set, for a directory of its path, and over a secure connection if
\* they ask for one, though Add moves the elements of the list that Match looks
\* at.
THEOREM ScopeCorrect == Spec => []SentInScope
<1>1. StoreInv => SentInScope
  BY DEF StoreInv, MatchInv, MatchOK, SentInScope
<1>. QED
  BY <1>1, StoreAlways, PTL

----------------------------------------------------------------------------
(* An application that sends one request at a time.                        *)

\* Match and Add then take turns: Match runs before the request is on its way
\* and Add while its response comes.
OneSender == \A s, t \in Senders : s = t

\* Cookies of which the code and the documentation say the same: the code
\* refuses a Domain attribute, lets either of Max-Age and Expires expire a
\* cookie that has both, and gives one without an absolute Path the directory of
\* the request's path.
PlainCookies ==
  \A c \in SetCookies :
    c.domain = <<>> /\ ~(c.maxAge >= 0 /\ c.expires > 0) /\ AbsolutePath(c.path)

Matching(s) == step[s] \notin {"idle", "waiting"}

\* Add runs while every sender waits, and has the list of its domain in hand.
TurnInv ==
  adding # "none" =>
    /\ \A s \in Senders : step[s] = "waiting"
    /\ cookies[item.domain] = list

\* What should be in the store is in it, but for the version that Add is about
\* to put in.
KeptInv ==
  \A k \in jar : ~Lapsed(k, now) =>
    Stored(k) \/ (adding # "none" /\ SameCookie(k, item))

\* What is in the store and has not expired should be in it, but for the version
\* that Add is about to take out.
NothingElse ==
  \A d \in Domains : \A k \in Under(d) :
    k \in jar \/ IsExpired(k, now) \/ (adding = "remove" /\ SameCookie(k, item))

\* What Add puts in should be in the store, and no other version of it.
DueInv ==
  adding # "none" =>
    /\ item \in jar \/ IsExpired(item, now)
    /\ \A k \in jar : SameCookie(k, item) => k = item

\* What Match removes has expired and is in the store; the list it holds is the
\* one in the map; and the domain it drops has nothing in it.
PurgeInv ==
  \A s \in Senders :
    /\ ~Matching(s) => stale[s] = {}
    /\ step[s] = "scan" => \E d \in Domains : held[s] = cookies[d]
    /\ step[s] = "remove" => held[s] = cookies[purging[s]]
    /\ step[s] = "drop" => Under(purging[s]) = {}
    /\ \A k \in stale[s] : IsExpired(k, now) /\ Stored(k)

\* Match has still to come by a cookie: the host's list is the next to look at,
\* or in hand, and the EachIn has not passed the cookie.
Ahead(s, k) ==
  \/ step[s] = "match" /\ todo[s] # <<>> /\ Head(todo[s]) = url[s].host
  \/ /\ step[s] = "scan" /\ held[s] = cookies[url[s].host]
     /\ index[s] <= Position(lists[held[s]], k)

\* Match has found nothing that was not to be found, and what it should find it
\* has found or will come by.
FoundInv ==
  \A s \in Senders : Matching(s) =>
    /\ found[s] \subseteq jar /\ began[s] <= now
    /\ \A k \in found[s] : ~Lapsed(k, began[s])
    /\ \A k \in jar :
         Applies(k, url[s]) /\ ~Lapsed(k, now) => k \in found[s] \/ Ahead(s, k)

SerialInv == TurnInv /\ KeptInv /\ NothingElse /\ DueInv /\ PurgeInv /\ FoundInv

\* For plain cookies IsExpired says what the documentation says.
LEMMA PlainItems ==
  ASSUME PlainCookies, NEW k \in Items, NEW t
  PROVE  k.cookie.domain = <<>> /\ (Lapsed(k, t) <=> IsExpired(k, t))
<1>1. k.cookie.domain = <<>> /\ ~(k.cookie.maxAge >= 0 /\ k.cookie.expires > 0)
  BY DEF PlainCookies, Items
<1>. QED
  BY <1>1 DEF Lapsed, IsExpired

\* An expired cookie stays expired.
LEMMA StillExpired ==
  ASSUME NEW k \in Items, NEW t \in Nat, NEW u \in Nat, t <= u, IsExpired(k, t)
  PROVE  IsExpired(k, u)
<1>1. k.cookie.maxAge \in Int /\ k.cookie.expires \in Nat
  BY CookiesAssumption DEF Items, CookieShape
<1>2. k.creation \in Nat
  BY LimitsAssumption DEF Items
<1>. QED
  BY <1>1, <1>2 DEF IsExpired

\* Remove leaves what does not compare equal, and of a list with one version of
\* each cookie it takes nothing but the object it was called for.
LEMMA WithoutOthers ==
  ASSUME NEW ks, NEW k
  PROVE  /\ \A m \in ks : ~SameCookie(m, k) => m \in WithoutSame(ks, k)
         /\ OneVersion(ks) /\ k \in ks => ks \ {k} \subseteq WithoutSame(ks, k)
BY DEF WithoutSame, OneVersion

\* What a list in the map holds.
LEMMA UnderDomain ==
  ASSUME TypeOK, ListInv, NEW d \in Domains
  PROVE  /\ Under(d) \in SUBSET Items /\ OneVersion(Under(d)) /\ HostOnly(Under(d))
         /\ \A k \in Under(d) : k.domain = d /\ Stored(k)
<1>1. cookies[d] \in Lists \cup {NoList} /\ lists \in [Lists -> SUBSET Items]
  BY DEF TypeOK
<1>2. \A k \in Under(d) : k.domain = d /\ Stored(k)
  BY DEF ListInv, Stored
<1>3. CASE cookies[d] = NoList
  BY <1>2, <1>3 DEF Under, OneVersion, HostOnly
<1>4. CASE cookies[d] # NoList
  BY <1>1, <1>2, <1>4 DEF Under, ListInv
<1>. QED
  BY <1>3, <1>4

\* Of two objects in a list the one with the smaller number comes first.
LEMMA PositionGrows ==
  ASSUME NEW ks \in SUBSET Items, Numbered(ks), NEW k \in ks, NEW m \in ks, m.id < k.id
  PROVE  Position(ks, m) < Position(ks, k)
<1>. DEFINE Before(x) == {n \in ks : n.id < x.id}
<1>1. \A n \in ks : n.id \in Int
  BY DEF Items
<1>2. IsFiniteSet(ks) /\ IsFiniteSet(Before(m)) /\ IsFiniteSet(Before(k))
  BY FS_Subset DEF Numbered
<1>3. m \notin Before(m) /\ Before(m) \cup {m} \subseteq Before(k)
  BY <1>1
<1>. HIDE DEF Before
<1>4. Cardinality(Before(m) \cup {m}) = Cardinality(Before(m)) + 1
  BY <1>2, <1>3, FS_AddElement
<1>5. Cardinality(Before(m) \cup {m}) <= Cardinality(Before(k))
  BY <1>2, <1>3, FS_Subset
<1>6. Cardinality(Before(m)) \in Nat /\ Cardinality(Before(k)) \in Nat
  BY <1>2, FS_CardinalityType
<1>7. Position(ks, m) = Cardinality(Before(m)) /\ Position(ks, k) = Cardinality(Before(k))
  BY DEF Position, Before
<1>. QED
  BY <1>4, <1>5, <1>6, <1>7

\* A position is one in the list, and no other object's.
LEMMA PositionIsOwn ==
  ASSUME NEW ks \in SUBSET Items, Numbered(ks), NEW k \in ks
  PROVE  /\ Position(ks, k) \in Nat /\ Cardinality(ks) \in Nat
         /\ Position(ks, k) < Cardinality(ks)
         /\ \A m \in ks : Position(ks, m) = Position(ks, k) => m = k
<1>1. \A n \in ks : n.id \in Int
  BY DEF Items
<1>2. IsFiniteSet(ks)
  BY DEF Numbered
<1>. DEFINE before == {n \in ks : n.id < k.id}
<1>3. before \subseteq ks \ {k}
  BY <1>1
<1>4. /\ IsFiniteSet(ks \ {k}) /\ Cardinality(ks \ {k}) = Cardinality(ks) - 1
      /\ Cardinality(ks) \in Nat
  BY <1>2, FS_RemoveElement, FS_CardinalityType
<1>. HIDE DEF before
<1>5. Cardinality(before) \in Nat /\ Cardinality(before) <= Cardinality(ks \ {k})
  BY <1>3, <1>4, FS_Subset, FS_CardinalityType
<1>6. Position(ks, k) = Cardinality(before)
  BY DEF Position, before
<1>7. ASSUME NEW m \in ks, Position(ks, m) = Position(ks, k) PROVE m = k
  <2>1. ~(m.id < k.id)
    BY <1>5, <1>6, <1>7, PositionGrows
  <2>2. ~(k.id < m.id)
    BY <1>5, <1>6, <1>7, PositionGrows
  <2>. QED
    BY <1>1, <2>1, <2>2 DEF Numbered
<1>. QED
  BY <1>4, <1>5, <1>6, <1>7

\* While Match runs, Add does not.
LEMMA SenderTurn ==
  ASSUME TurnInv, NEW s \in Senders, SenderNext(s)
  PROVE  adding = "none"
<1>. SUFFICES ASSUME adding # "none" PROVE FALSE
  OBVIOUS
<1>1. step[s] = "waiting"
  BY DEF TurnInv
<1>. QED
  BY <1>1 DEF SenderNext, Submit, MatchLookup, MatchCookie, ListMatched, DomainsMatched,
     PurgeLookup, PurgeRemove, PurgeTest, DropDomain, MatchReturns, ResponseComplete

\* What Match takes out of the store it has seen expired, one object at a time.
LEMMA MatchTakesExpired ==
  ASSUME TypeOK, ListInv, PurgeInv, NEW s \in Senders, SenderNext(s)
  PROVE  \A d \in Domains :
           /\ Under(d)' \subseteq Under(d)
           /\ \A k \in Under(d) : k \in Under(d)' \/ (k \in stale[s] /\ k \notin stale'[s])
<1>. USE DEF storeVars
<1>0. /\ lists \in [Lists -> SUBSET Items] /\ cookies \in [Domains -> Lists \cup {NoList}]
      /\ held \in [Senders -> Lists \cup {NoList}]
      /\ purging \in [Senders -> Domains \cup {NoDomain}]
      /\ stale \in [Senders -> SUBSET Items]
      /\ InHand(step[s], purging[s], held[s], index[s])
  BY DEF TypeOK
<1>1. CASE PurgeRemove(s)
  <2>1. PICK x \in ToPurge(s, purging[s]) :
          /\ lists' = [lists EXCEPT ![held[s]] = WithoutSame(@, x)]
          /\ stale' = [stale EXCEPT ![s] = @ \ {x}]
    BY <1>1 DEF PurgeRemove
  <2>2. step[s] = "remove" /\ cookies' = cookies
    BY <1>1 DEF PurgeRemove
  <2>3. held[s] \in Lists /\ held[s] = cookies[purging[s]] /\ purging[s] \in Domains
    BY <1>0, <2>2 DEF PurgeInv, InHand
  <2>4. x \in stale[s] /\ x \notin stale'[s] /\ x.domain = purging[s]
    BY <1>0, <2>1 DEF ToPurge
  <2>5. x \in lists[held[s]] /\ OneVersion(lists[held[s]])
    BY <2>3, <2>4 DEF PurgeInv, Stored, Under, ListInv, Lists, NoList
  <2>6. /\ lists'[held[s]] \subseteq lists[held[s]]
        /\ lists[held[s]] \ {x} \subseteq lists'[held[s]]
        /\ \A l \in Lists \ {held[s]} : lists'[l] = lists[l]
    BY <1>0, <2>1, <2>3, <2>5, WithoutIsPart, WithoutOthers
  <2>. SUFFICES ASSUME NEW d \in Domains
                PROVE  /\ Under(d)' \subseteq Under(d)
                       /\ \A k \in Under(d) : k \in Under(d)' \/ k = x
    BY <2>4
  <2>7. CASE cookies[d] = NoList
    BY <2>2, <2>7 DEF Under
  <2>8. CASE cookies[d] # NoList
    <3>1. cookies[d] \in Lists /\ Under(d) = lists[cookies[d]] /\ Under(d)' = lists'[cookies[d]]
      BY <1>0, <2>2, <2>8 DEF Under
    <3>. QED
      BY <2>6, <3>1
  <2>. QED
    BY <2>7, <2>8
<1>2. CASE DropDomain(s)
  <2>1. /\ step[s] = "drop" /\ lists' = lists
        /\ cookies' = [cookies EXCEPT ![purging[s]] = NoList]
    BY <1>2 DEF DropDomain
  <2>2. Under(purging[s]) = {}
    BY <2>1 DEF PurgeInv
  <2>3. ASSUME NEW d \in Domains PROVE Under(d)' = Under(d)
    <3>1. CASE d = purging[s]
      BY <1>0, <2>1, <2>2, <3>1 DEF Under
    <3>2. CASE d # purging[s]
      BY <1>0, <2>1, <3>2 DEF Under
    <3>. QED
      BY <3>1, <3>2
  <2>. QED
    BY <2>3
<1>3. CASE cookies' = cookies /\ lists' = lists
  BY <1>3 DEF Under
<1>. QED
  BY <1>1, <1>2, <1>3 DEF SenderNext, Submit, MatchLookup, MatchCookie, ListMatched,
     DomainsMatched, PurgeLookup, PurgeTest, MatchReturns, ResponseComplete

\* So Match keeps what should be in the store, and adds nothing to it.
LEMMA MatchKeepsJar ==
  ASSUME TypeOK, ListInv, TurnInv, KeptInv, NothingElse, PurgeInv, PlainCookies,
         NEW s \in Senders, SenderNext(s)
  PROVE  KeptInv' /\ NothingElse'
<1>1. adding = "none" /\ jar' = jar /\ now' = now
  BY SenderTurn, SenderLeaves
<1>2. ASSUME NEW k \in jar, ~Lapsed(k, now) PROVE Stored(k)'
  <2>1. k \in Items /\ k.domain \in Domains
    BY DEF TypeOK, Items
  <2>2. ~IsExpired(k, now)
    BY <1>2, <2>1, PlainItems
  <2>3. k \in Under(k.domain)
    BY <1>1, <1>2 DEF KeptInv, Stored
  <2>4. k \notin stale[s]
    BY <2>2 DEF PurgeInv
  <2>5. k \in Under(k.domain)'
    BY <2>1, <2>3, <2>4, MatchTakesExpired
  <2>. QED
    BY <2>5 DEF Stored
<1>3. KeptInv'
  BY <1>1, <1>2 DEF KeptInv
<1>4. NothingElse'
  BY <1>1, MatchTakesExpired DEF NothingElse
<1>. QED
  BY <1>3, <1>4

\* Match stays in step with the map while it purges.
LEMMA MatchPurges ==
  ASSUME TypeOK, ListInv, PurgeInv, OneSender, NEW s \in Senders, SenderNext(s)
  PROVE  PurgeInv'
<1>. USE DEF storeVars
<1>0. /\ stale \in [Senders -> SUBSET Items] /\ todo \in [Senders -> Seq(Domains)]
      /\ step \in [Senders -> SenderSteps] /\ lists \in [Lists -> SUBSET Items]
      /\ held \in [Senders -> Lists \cup {NoList}]
      /\ purging \in [Senders -> Domains \cup {NoDomain}]
      /\ cookies \in [Domains -> Lists \cup {NoList}]
      /\ InHand(step[s], purging[s], held[s], index[s])
  BY DEF TypeOK
<1>1. now' = now
  BY SenderLeaves
<1>2. /\ ~Matching(s) => stale[s] = {}
      /\ step[s] = "scan" => \E d \in Domains : held[s] = cookies[d]
      /\ step[s] = "remove" => held[s] = cookies[purging[s]]
      /\ \A k \in stale[s] : IsExpired(k, now) /\ Stored(k)
  BY DEF PurgeInv
<1>3. SUFFICES /\ step'[s] \in {"idle", "waiting"} => stale'[s] = {}
               /\ step'[s] = "scan" => \E d \in Domains : held'[s] = cookies'[d]
               /\ step'[s] = "remove" => held'[s] = cookies'[purging'[s]]
               /\ step'[s] = "drop" => Under(purging[s])' = {}
               /\ \A k \in stale'[s] \ stale[s] : IsExpired(k, now) /\ Stored(k)'
  <2>1. ASSUME NEW k \in stale'[s], k \in stale[s] PROVE Stored(k)'
    <3>1. k \in Items /\ k.domain \in Domains /\ k \in Under(k.domain)
      BY <1>0, <1>2, <2>1 DEF Items, Stored
    <3>2. k \in Under(k.domain)'
      BY <2>1, <3>1, MatchTakesExpired
    <3>. QED
      BY <3>2 DEF Stored
  <2>2. \A t \in Senders : t = s
    BY DEF OneSender
  <2>. QED
    BY <1>1, <1>2, <1>3, <2>1, <2>2 DEF PurgeInv, Matching
<1>4. ASSUME NEW u \in Urls, Submit(s, u)
      PROVE  stale'[s] = {} /\ step'[s] \in {"waiting", "match"}
  <2>1. stale[s] = {}
    BY <1>2, <1>4 DEF Submit, Matching
  <2>. QED
    BY <1>0, <1>4, <2>1 DEF Submit
<1>5. CASE MatchLookup(s)
  <2>. DEFINE d == Head(todo[s])
  <2>1. /\ todo[s] # <<>> /\ cookies' = cookies /\ stale' = stale
        /\ \/ step'[s] = "match"
           \/ step'[s] = "scan" /\ held'[s] = cookies[d]
    BY <1>0, <1>5 DEF MatchLookup
  <2>2. d \in Domains
    BY <1>0, <2>1, HeadTailProperties
  <2>. HIDE DEF d
  <2>. QED
    BY <2>1, <2>2
<1>11. CASE MatchCookie(s)
  <2>1. PICK x \in lists[held[s]] :
          stale' = [stale EXCEPT ![s] = IF IsExpired(x, now) THEN @ \cup {x} ELSE @]
    BY <1>11 DEF MatchCookie
  <2>2. /\ step[s] = "scan" /\ UNCHANGED <<cookies, lists, step, held>>
    BY <1>11 DEF MatchCookie
  <2>3. PICK d \in Domains : held[s] = cookies[d]
    BY <1>2, <2>2
  <2>4. Stored(x)
    <3>1. held[s] # NoList
      BY <1>0, <2>2 DEF InHand
    <3>2. x \in Under(d)
      BY <2>3, <3>1 DEF Under
    <3>. QED
      BY <3>2, UnderDomain
  <2>5. Stored(x)'
    BY <2>2, <2>4 DEF Stored, Under
  <2>6. \A k \in stale'[s] \ stale[s] : k = x /\ IsExpired(x, now)
    BY <1>0, <2>1
  <2>. QED
    BY <2>2, <2>3, <2>5, <2>6
<1>12. CASE ListMatched(s)
  <2>1. step'[s] = "match" /\ stale' = stale
    BY <1>0, <1>12 DEF ListMatched
  <2>. QED
    BY <2>1
<1>6. CASE PurgeLookup(s)
  <2>1. PICK d \in Domains :
          IF cookies[d] = NoList
          THEN /\ stale' = [stale EXCEPT ![s] = @ \ ToPurge(s, d)]
               /\ UNCHANGED <<step, purging, held>>
          ELSE /\ step' = [step EXCEPT ![s] = "remove"]
               /\ purging' = [purging EXCEPT ![s] = d]
               /\ held' = [held EXCEPT ![s] = cookies[d]]
               /\ UNCHANGED stale
    BY <1>6 DEF PurgeLookup
  <2>2. step[s] = "purge" /\ cookies' = cookies
    BY <1>6 DEF PurgeLookup
  <2>3. CASE cookies[d] = NoList
    <3>1. stale'[s] \subseteq stale[s] /\ step' = step
      BY <1>0, <2>1, <2>3
    <3>. QED
      BY <2>2, <3>1
  <2>4. CASE cookies[d] # NoList
    <3>1. step'[s] = "remove" /\ purging'[s] = d /\ held'[s] = cookies[d] /\ stale' = stale
      BY <1>0, <2>1, <2>4
    <3>. QED
      BY <2>2, <3>1
  <2>. QED
    BY <2>3, <2>4
<1>7. CASE PurgeRemove(s)
  <2>1. /\ step[s] = "remove" /\ UNCHANGED <<cookies, step, purging, held>>
        /\ \E k : stale' = [stale EXCEPT ![s] = @ \ {k}]
    BY <1>7 DEF PurgeRemove
  <2>. QED
    BY <1>0, <1>2, <2>1
<1>8. CASE PurgeTest(s)
  <2>1. /\ step[s] = "remove" /\ UNCHANGED <<cookies, lists, stale>>
    BY <1>8 DEF PurgeTest
  <2>2. CASE lists[held[s]] = {}
    <3>1. step'[s] = "drop" /\ purging' = purging
      BY <1>0, <1>8, <2>2 DEF PurgeTest
    <3>2. Under(purging[s])' = {}
      BY <1>2, <2>1, <2>2, <3>1 DEF Under
    <3>. QED
      BY <2>1, <3>1, <3>2
  <2>3. CASE lists[held[s]] # {}
    <3>1. step'[s] = "purge"
      BY <1>0, <1>8, <2>3 DEF PurgeTest
    <3>. QED
      BY <2>1, <3>1
  <2>. QED
    BY <2>2, <2>3
<1>9. CASE DomainsMatched(s) \/ DropDomain(s)
  <2>1. step'[s] = "purge" /\ stale' = stale
    BY <1>0, <1>9 DEF DomainsMatched, DropDomain
  <2>. QED
    BY <2>1
<1>10. CASE MatchReturns(s) \/ ResponseComplete(s)
  <2>1. stale[s] = {} /\ stale' = stale /\ step'[s] \in {"idle", "waiting"}
    BY <1>0, <1>2, <1>10 DEF MatchReturns, ResponseComplete, Matching
  <2>. QED
    BY <2>1
<1>. QED
  BY <1>4, <1>5, <1>6, <1>7, <1>8, <1>9, <1>10, <1>11, <1>12 DEF SenderNext

\* Match finds every cookie that applies, when it comes by it under the host,
\* and finds nothing that was not set, or had lapsed.
LEMMA MatchFinds ==
  ASSUME TypeOK, ListInv, NumberInv, MatchInv, TurnInv, KeptInv, NothingElse, PurgeInv,
         FoundInv, OneSender, PlainCookies, NEW s \in Senders, SenderNext(s)
  PROVE  FoundInv'
<1>. USE DEF storeVars, senderVars
<1>0. /\ found \in [Senders -> SUBSET Items] /\ todo \in [Senders -> Seq(Domains)]
      /\ url \in [Senders -> Urls] /\ step \in [Senders -> SenderSteps]
      /\ held \in [Senders -> Lists \cup {NoList}] /\ lists \in [Lists -> SUBSET Items]
      /\ index \in [Senders -> Nat] /\ began \in [Senders -> 0 .. MaxTime]
      /\ cookies \in [Domains -> Lists \cup {NoList}]
      /\ jar \subseteq Items /\ now \in Nat
      /\ InHand(step[s], purging[s], held[s], index[s])
  BY LimitsAssumption DEF TypeOK
<1>1. adding = "none" /\ jar' = jar /\ now' = now
  BY SenderTurn, SenderLeaves
<1>2. Matching(s) =>
        /\ found[s] \subseteq jar /\ began[s] <= now
        /\ \A k \in found[s] : ~Lapsed(k, began[s])
        /\ \A k \in jar :
             Applies(k, url[s]) /\ ~Lapsed(k, now) => k \in found[s] \/ Ahead(s, k)
  BY DEF FoundInv
<1>3. SUFFICES ASSUME Matching(s)'
               PROVE  /\ found'[s] \subseteq jar /\ began'[s] <= now
                      /\ \A k \in found'[s] : ~Lapsed(k, began'[s])
                      /\ \A k \in jar : Applies(k, url'[s]) /\ ~Lapsed(k, now) =>
                           k \in found'[s] \/ Ahead(s, k)'
  <2>1. \A t \in Senders : t = s
    BY DEF OneSender
  <2>. QED
    BY <1>1, <1>3, <2>1 DEF FoundInv
<1>4. ASSUME NEW k \in jar, Applies(k, url[s]), ~Lapsed(k, now)
      PROVE  /\ cookies[url[s].host] # NoList
             /\ k \in lists[cookies[url[s].host]] /\ Takes(k, url[s])
  <2>1. k \in Items /\ k.path \in Paths /\ url[s] \in Urls
    BY <1>0 DEF Items
  <2>2. k.cookie.domain = <<>> /\ ~IsExpired(k, now)
    BY <1>4, <2>1, PlainItems
  <2>3. Stored(k)
    BY <1>1, <1>4 DEF KeptInv
  <2>4. /\ k.domain = url[s].host /\ DomainMatches(url[s].host, k.domain, k.cookie.domain)
        /\ (k.cookie.secure => url[s].secure) /\ k.path \in Directories(url[s].path)
    BY <1>4, <2>2, HostOnlyMatches DEF Applies
  <2>5. PathMatches(url[s].path, k.path)
    BY <2>1, <2>4, PathMatchesDirectory, PathsAreSequences, UrlsAssumption
  <2>. QED
    BY <2>2, <2>3, <2>4, <2>5 DEF Stored, Under, Takes
<1>5. ASSUME NEW u \in Urls, Submit(s, u)
      PROVE  /\ found'[s] = {} /\ began'[s] <= now /\ \A k : Ahead(s, k)'
  <2>1. found'[s] = {} /\ url'[s] = u
    BY <1>0, <1>5 DEF Submit, MatchInv, MatchOK
  <2>2. step'[s] = "match" /\ todo'[s] = DomainChain(u.host) /\ began'[s] = now
    BY <1>0, <1>3, <1>5 DEF Submit, Matching
  <2>. QED
    BY <1>0, <2>1, <2>2, ChainFromHost DEF Ahead
<1>6. CASE MatchLookup(s)
  <2>. DEFINE d == Head(todo[s])
  <2>1. /\ step[s] = "match" /\ todo[s] # <<>> /\ index[s] = 0
        /\ UNCHANGED <<url, found, began, cookies, lists, index>>
    BY <1>0, <1>6 DEF MatchLookup, InHand
  <2>2. ASSUME NEW k \in jar, Applies(k, url[s]), ~Lapsed(k, now)
        PROVE  k \in found[s] \/ Ahead(s, k)'
    <3>1. CASE d = url[s].host
      <4>1. /\ cookies[d] # NoList /\ k \in lists[cookies[d]]
        BY <1>4, <2>2, <3>1
      <4>2. step'[s] = "scan" /\ held'[s] = cookies[d]
        BY <1>0, <1>6, <4>1 DEF MatchLookup
      <4>3. Position(lists[cookies[d]], k) \in Nat
        <5>1. url[s].host \in Domains
          BY <1>0, ChainFromHost
        <5>2. cookies[d] \in Lists
          BY <1>0, <3>1, <4>1, <5>1
        <5>. HIDE DEF d
        <5>3. lists[cookies[d]] \in SUBSET Items /\ Numbered(lists[cookies[d]])
          BY <1>0, <5>2 DEF NumberInv
        <5>. QED
          BY <4>1, <5>3, PositionIsOwn
      <4>. HIDE DEF d
      <4>. QED
        BY <2>1, <3>1, <4>2, <4>3 DEF Ahead
    <3>2. CASE d # url[s].host
      <4>1. ~Ahead(s, k)
        BY <2>1, <3>2 DEF Ahead
      <4>. QED
        BY <1>2, <2>1, <2>2, <4>1 DEF Matching
    <3>. QED
      BY <3>1, <3>2
  <2>. HIDE DEF d
  <2>. QED
    BY <1>2, <2>1, <2>2 DEF Matching
<1>7. CASE MatchCookie(s)
  <2>1. PICK x \in lists[held[s]] :
          /\ Position(lists[held[s]], x) = index[s]
          /\ found' = [found EXCEPT ![s] = IF Takes(x, url[s]) THEN @ \cup {x} ELSE @]
    BY <1>7 DEF MatchCookie
  <2>2. /\ step[s] = "scan" /\ index'[s] = index[s] + 1
        /\ UNCHANGED <<cookies, lists, url, step, held, began>>
    BY <1>0, <1>7 DEF MatchCookie
  <2>3. held[s] \in Lists /\ held[s] # NoList
    BY <1>0, <2>2 DEF InHand
  <2>4. PICK d \in Domains : held[s] = cookies[d]
    BY <2>2 DEF PurgeInv
  <2>5. x \in Items /\ (x \in jar \/ IsExpired(x, now))
    <3>1. x \in Under(d)
      BY <2>3, <2>4 DEF Under
    <3>. QED
      BY <1>0, <1>1, <2>3, <3>1 DEF NothingElse
  <2>6. /\ found'[s] = IF Takes(x, url[s]) THEN found[s] \cup {x} ELSE found[s]
        /\ Matching(s)
    BY <1>0, <2>1, <2>2 DEF Matching
  <2>7. ASSUME Takes(x, url[s]) PROVE x \in jar /\ ~Lapsed(x, began[s])
    <3>1. ~IsExpired(x, now)
      BY <2>7 DEF Takes
    <3>2. began[s] \in Nat /\ began[s] <= now
      BY <1>0, <1>2, <2>6
    <3>3. ~IsExpired(x, began[s])
      BY <1>0, <2>5, <3>1, <3>2, StillExpired
    <3>. QED
      BY <2>5, <3>1, <3>3, PlainItems
  <2>8. /\ found'[s] \subseteq jar /\ began'[s] <= now
        /\ \A k \in found'[s] : ~Lapsed(k, began'[s])
    BY <1>2, <2>2, <2>6, <2>7
  <2>9. ASSUME NEW k \in jar, Applies(k, url[s]), ~Lapsed(k, now), k \notin found'[s]
        PROVE  Ahead(s, k)'
    <3>1. k \notin found[s] /\ Takes(k, url[s])
      BY <1>4, <2>6, <2>9
    <3>2. held[s] = cookies[url[s].host] /\ index[s] <= Position(lists[held[s]], k)
      BY <1>2, <2>2, <2>6, <2>9, <3>1 DEF Ahead
    <3>3. k \in lists[held[s]]
      BY <1>4, <2>9, <3>2
    <3>4. /\ Position(lists[held[s]], k) \in Nat
          /\ Position(lists[held[s]], x) = Position(lists[held[s]], k) => x = k
      <4>1. lists[held[s]] \in SUBSET Items /\ Numbered(lists[held[s]])
        BY <1>0, <2>3 DEF NumberInv
      <4>. QED
        BY <2>1, <3>3, <4>1, PositionIsOwn
    <3>5. k # x
      BY <2>6, <2>9, <3>1
    <3>6. index[s] + 1 <= Position(lists[held[s]], k)
      BY <1>0, <2>1, <3>2, <3>4, <3>5
    <3>. QED
      BY <2>2, <3>2, <3>6 DEF Ahead
  <2>. QED
    BY <2>2, <2>8, <2>9
<1>8. CASE ListMatched(s)
  <2>1. /\ step[s] = "scan" /\ index[s] >= Cardinality(lists[held[s]])
        /\ UNCHANGED <<url, found, began>>
    BY <1>8 DEF ListMatched
  <2>2. held[s] \in Lists
    BY <1>0, <2>1 DEF InHand
  <2>3. ASSUME NEW k \in jar, Applies(k, url[s]), ~Lapsed(k, now) PROVE k \in found[s]
    <3>1. SUFFICES ASSUME Ahead(s, k) PROVE FALSE
      BY <1>2, <2>1, <2>3 DEF Matching
    <3>2. held[s] = cookies[url[s].host] /\ index[s] <= Position(lists[held[s]], k)
      BY <2>1, <3>1 DEF Ahead
    <3>3. k \in lists[held[s]]
      BY <1>4, <2>3, <3>2
    <3>4. /\ Position(lists[held[s]], k) \in Nat /\ Cardinality(lists[held[s]]) \in Nat
          /\ Position(lists[held[s]], k) < Cardinality(lists[held[s]])
      <4>1. lists[held[s]] \in SUBSET Items /\ Numbered(lists[held[s]])
        BY <1>0, <2>2 DEF NumberInv
      <4>. QED
        BY <3>3, <4>1, PositionIsOwn
    <3>. QED
      BY <1>0, <2>1, <3>2, <3>4
  <2>. QED
    BY <1>2, <2>1, <2>3 DEF Matching
<1>9. CASE DomainsMatched(s)
  <2>1. step[s] = "match" /\ todo[s] = <<>> /\ UNCHANGED <<found, url, began>>
    BY <1>9 DEF DomainsMatched
  <2>2. Matching(s) /\ \A k : ~Ahead(s, k)
    BY <2>1 DEF Ahead, Matching
  <2>. QED
    BY <1>2, <2>1, <2>2
<1>10. CASE PurgeLookup(s) \/ PurgeRemove(s) \/ PurgeTest(s) \/ DropDomain(s)
  <2>1. step[s] \in {"purge", "remove", "drop"} /\ UNCHANGED <<found, url, began>>
    BY <1>10 DEF PurgeLookup, PurgeRemove, PurgeTest, DropDomain
  <2>2. Matching(s) /\ \A k : ~Ahead(s, k)
    BY <2>1 DEF Ahead, Matching
  <2>. QED
    BY <1>2, <2>1, <2>2
<1>11. CASE MatchReturns(s) \/ ResponseComplete(s)
  <2>1. step'[s] \in {"idle", "waiting"}
    BY <1>0, <1>11 DEF MatchReturns, ResponseComplete
  <2>. QED
    BY <1>3, <2>1 DEF Matching
<1>. QED
  BY <1>5, <1>6, <1>7, <1>8, <1>9, <1>10, <1>11 DEF SenderNext

\* Everything together, for a step of the one that sends.
LEMMA SenderSerial ==
  ASSUME TypeOK, StoreInv, SerialInv, OneSender, PlainCookies, NEW s \in Senders, SenderNext(s)
  PROVE  SerialInv'
<1>1. TurnInv'
  BY SenderTurn, SenderLeaves DEF SerialInv, TurnInv
<1>2. KeptInv' /\ NothingElse'
  BY MatchKeepsJar DEF SerialInv, StoreInv
<1>3. PurgeInv'
  BY MatchPurges DEF SerialInv, StoreInv
<1>4. FoundInv'
  BY MatchFinds DEF SerialInv, StoreInv
<1>5. DueInv'
  BY SenderLeaves DEF SerialInv, DueInv
<1>. QED
  BY <1>1, <1>2, <1>3, <1>4, <1>5 DEF SerialInv

\* While Add runs, nobody is in Match.
LEMMA ClientTurn ==
  ASSUME TurnInv, PurgeInv, OneSender, ClientNext
  PROVE  (\A s \in Senders : step'[s] = "waiting") /\ PurgeInv' /\ FoundInv'
<1>1. \A s \in Senders : step[s] = "waiting"
  BY DEF ClientNext, AddLookup, AddRemoveOld, AddNewList, AddInsert, TurnInv, OneSender
<1>2. step' = step /\ stale' = stale
  BY ClientLeaves
<1>3. \A s \in Senders : stale[s] = {}
  BY <1>1 DEF PurgeInv, Matching
<1>. QED
  BY <1>1, <1>2, <1>3 DEF PurgeInv, FoundInv, Matching

\* Add begins: it has the list of the cookie's domain in hand, and from now on
\* the cookie should be in the store.
LEMMA LookupSerial ==
  ASSUME TypeOK, TurnInv, KeptInv, NothingElse, OneSender, PlainCookies,
         NEW s \in Senders, NEW c \in SetCookies, AddLookup(s, c)
  PROVE  TurnInv' /\ KeptInv' /\ NothingElse' /\ DueInv'
<1>. DEFINE domain == ResolveCookieDomain(url[s], c)
            path   == ResolveCookiePath(url[s], c)
<1>1. /\ url[s] \in Urls /\ domain # <<>> /\ domain = url[s].host
      /\ domain = DocumentedDomain(url[s], c) /\ path = DocumentedPath(url[s], c)
  <2>1. url[s] \in Urls
    BY DEF TypeOK
  <2>2. domain = url[s].host /\ DocumentedDomain(url[s], c) = url[s].host
    BY DEF PlainCookies, ResolveCookieDomain, DocumentedDomain
  <2>3. path = DocumentedPath(url[s], c)
    BY DEF PlainCookies, ResolveCookiePath, DocumentedPath
  <2>. QED
    BY <2>1, <2>2, <2>3, UrlsAssumption
<1>2. /\ adding = "none" /\ step[s] = "waiting" /\ list' = cookies[domain]
      /\ item' = CachedCookie(c, domain, path, now, adds + 1)
      /\ adding' = "remove" /\ UNCHANGED <<cookies, lists, now, step>>
  BY <1>1 DEF AddLookup, storeVars, senderVars
<1>3. item' \in Items
  <2>1. domain \in Domains /\ path \in Paths /\ adds < MaxAdds
    BY <1>1, ChainFromHost, ResolvedPath DEF AddLookup
  <2>. QED
    BY <1>2, <2>1, MadeItem DEF TypeOK
<1>4. jar' = {m \in jar : ~SameCookie(m, item')}
               \cup (IF Lapsed(item', now) THEN {} ELSE {item'})
  <2>1. jar' = JarAfter(url[s], c)
    BY DEF AddLookup
  <2>. QED
    BY <1>1, <1>2, <2>1 DEF JarAfter, JarWith
<1>5. item'.domain = domain
  BY <1>2 DEF CachedCookie
<1>6. SameCookie(item', item') /\ (Lapsed(item', now) <=> IsExpired(item', now))
  BY <1>3, PlainItems DEF SameCookie
<1>. HIDE DEF domain, path
<1>7. TurnInv'
  BY <1>2, <1>5 DEF TurnInv, OneSender
<1>8. KeptInv'
  BY <1>2, <1>4, <1>6 DEF KeptInv, Stored, Under
<1>9. NothingElse'
  BY <1>2, <1>4 DEF NothingElse, Under
<1>10. DueInv'
  BY <1>2, <1>4, <1>6 DEF DueInv
<1>. QED
  BY <1>7, <1>8, <1>9, <1>10

\* Add takes the older version out: of what should be in the store only the new
\* one is missing, and it should not be there any more if it has expired.
LEMMA RemoveOldSerial ==
  ASSUME TypeOK, ListInv, TurnInv, KeptInv, NothingElse, DueInv, PlainCookies, AddRemoveOld
  PROVE  TurnInv' /\ KeptInv' /\ NothingElse' /\ DueInv'
<1>0. /\ lists \in [Lists -> SUBSET Items] /\ cookies \in [Domains -> Lists \cup {NoList}]
      /\ list \in Lists \cup {NoList} /\ jar \subseteq Items
  BY DEF TypeOK
<1>1. /\ adding = "remove" /\ item \in Items /\ item.domain \in Domains
      /\ cookies' = cookies /\ now' = now /\ step' = step /\ jar' = jar
  BY DEF AddRemoveOld, TypeOK, Items, senderVars
<1>2. PICK domain \in Domains : domain = item.domain /\ cookies[domain] = list
  BY <1>1 DEF TurnInv
<1>3. /\ \A d \in Domains : Under(d)' \subseteq Under(d)
      /\ \A d \in Domains : \A k \in Under(d) : k \in Under(d)' \/ SameCookie(k, item)
      /\ \A k \in Under(domain)' : ~SameCookie(k, item)
  <2>1. CASE list = NoList
    BY <1>0, <1>1, <1>2, <2>1 DEF AddRemoveOld, Under
  <2>2. CASE list # NoList
    <3>1. lists' = [lists EXCEPT ![list] = WithoutSame(@, item)] /\ list \in Lists
      BY <1>0, <2>2 DEF AddRemoveOld
    <3>2. /\ lists'[list] = WithoutSame(lists[list], item)
          /\ \A l \in Lists \ {list} : lists'[l] = lists[l]
      BY <1>0, <3>1
    <3>3. /\ lists'[list] \subseteq lists[list]
          /\ \A k \in lists[list] : k \in lists'[list] \/ SameCookie(k, item)
          /\ \A k \in lists'[list] : ~SameCookie(k, item)
      BY <1>0, <3>1, <3>2, WithoutIsPart, WithoutOthers, WithoutAllSame DEF ListInv
    <3>4. Under(domain)' = lists'[list]
      BY <1>1, <1>2, <2>2 DEF Under
    <3>5. ASSUME NEW d \in Domains
          PROVE  /\ Under(d)' \subseteq Under(d)
                 /\ \A k \in Under(d) : k \in Under(d)' \/ SameCookie(k, item)
      <4>1. CASE cookies[d] = NoList
        BY <1>1, <4>1 DEF Under
      <4>2. CASE cookies[d] # NoList
        <5>1. /\ cookies[d] \in Lists /\ Under(d) = lists[cookies[d]]
              /\ Under(d)' = lists'[cookies[d]]
          BY <1>0, <1>1, <4>2 DEF Under
        <5>. QED
          BY <3>2, <3>3, <5>1
      <4>. QED
        BY <4>1, <4>2
    <3>. QED
      BY <3>3, <3>4, <3>5
  <2>. QED
    BY <2>1, <2>2
<1>4. ASSUME NEW k \in jar, ~Lapsed(k, now), ~SameCookie(k, item) PROVE Stored(k)'
  <2>1. k.domain \in Domains /\ k \in Under(k.domain)
    BY <1>0, <1>1, <1>4 DEF KeptInv, Stored, Items
  <2>2. k \in Under(k.domain)'
    BY <1>3, <1>4, <2>1
  <2>. QED
    BY <2>2 DEF Stored
<1>5. ASSUME NEW d \in Domains, NEW k \in Under(d)'
      PROVE  (k \in jar /\ ~SameCookie(k, item)) \/ IsExpired(k, now)
  <2>1. k \in Under(d) /\ k.domain = d
    BY <1>3, <1>5 DEF ListInv
  <2>2. ~SameCookie(k, item)
    BY <1>2, <1>3, <1>5, <2>1 DEF SameCookie
  <2>. QED
    BY <2>1, <2>2 DEF NothingElse
<1>6. CASE IsExpired(item, now)
  <2>1. adding' = "none"
    BY <1>6 DEF AddRemoveOld, AddReturns
  <2>2. \A k \in jar : ~Lapsed(k, now) => ~SameCookie(k, item)
    BY <1>1, <1>6, PlainItems DEF DueInv
  <2>3. TurnInv' /\ DueInv'
    BY <2>1 DEF TurnInv, DueInv
  <2>4. KeptInv'
    BY <1>1, <1>4, <2>2 DEF KeptInv
  <2>5. NothingElse'
    BY <1>1, <1>5 DEF NothingElse
  <2>. QED
    BY <2>3, <2>4, <2>5
<1>7. CASE ~IsExpired(item, now)
  <2>1. adding' = "insert" /\ item' = item /\ list' = list
    BY <1>7 DEF AddRemoveOld
  <2>2. TurnInv' /\ DueInv'
    BY <1>1, <2>1 DEF TurnInv, DueInv
  <2>3. KeptInv'
    BY <1>1, <1>4, <2>1 DEF KeptInv
  <2>4. NothingElse'
    BY <1>1, <1>5, <2>1 DEF NothingElse
  <2>. QED
    BY <2>2, <2>3, <2>4
<1>. QED
  BY <1>6, <1>7

\* A new list takes the place of none.
LEMMA NewListSerial ==
  ASSUME TypeOK, RoomForList, MapInv, TurnInv, KeptInv, NothingElse, DueInv, AddNewList
  PROVE  TurnInv' /\ KeptInv' /\ NothingElse' /\ DueInv'
<1>1. /\ adding = "insert" /\ list = NoList /\ item \in Items /\ item.domain \in Domains
      /\ list' = made + 1 /\ cookies' = [cookies EXCEPT ![item.domain] = made + 1]
      /\ cookies \in [Domains -> Lists \cup {NoList}] /\ jar \subseteq Items
      /\ UNCHANGED <<lists, adding, item, now, step, jar>>
  BY DEF AddNewList, TypeOK, Items, senderVars
<1>2. made + 1 \in Lists /\ made \in Nat
  BY <1>1, LimitsAssumption DEF TypeOK, RoomForList, Lists
<1>3. lists'[made + 1] = {}
  BY <1>1, <1>2 DEF MapInv
<1>4. cookies[item.domain] = NoList
  BY <1>1 DEF TurnInv
<1>5. ASSUME NEW d \in Domains PROVE Under(d)' = Under(d)
  <2>1. CASE d = item.domain
    BY <1>1, <1>3, <1>4, <2>1 DEF Under
  <2>2. CASE d # item.domain
    BY <1>1, <2>2 DEF Under
  <2>. QED
    BY <2>1, <2>2
<1>6. TurnInv' /\ DueInv'
  BY <1>1 DEF TurnInv, DueInv
<1>7. KeptInv'
  <2>1. \A k \in jar : k.domain \in Domains
    BY <1>1 DEF Items
  <2>. QED
    BY <1>1, <1>5, <2>1 DEF KeptInv, Stored
<1>8. NothingElse'
  BY <1>1, <1>5 DEF NothingElse
<1>. QED
  BY <1>6, <1>7, <1>8

\* The new version goes where the older one was.
LEMMA InsertSerial ==
  ASSUME TypeOK, ListInv, AddInv, TurnInv, KeptInv, NothingElse, DueInv, AddInsert
  PROVE  TurnInv' /\ KeptInv' /\ NothingElse' /\ DueInv'
<1>0. /\ lists \in [Lists -> SUBSET Items] /\ cookies \in [Domains -> Lists \cup {NoList}]
      /\ list \in Lists \cup {NoList} /\ jar \subseteq Items
  BY DEF TypeOK
<1>1. /\ adding = "insert" /\ list \in Lists /\ list # NoList
      /\ item \in Items /\ item.domain \in Domains
      /\ lists' = [lists EXCEPT ![list] = @ \cup {item}]
      /\ adding' = "none" /\ jar' = jar /\ cookies' = cookies /\ now' = now
  BY <1>0 DEF AddInsert, AddReturns, TypeOK, Items
<1>2. PICK domain \in Domains :
        domain = item.domain /\ cookies[domain] = list /\ AddedTo(list)
  BY <1>1 DEF TurnInv, AddInv
<1>3. /\ \A k : k \in Under(domain)' <=> k \in Under(domain) \/ k = item
      /\ \A k \in Under(domain) : ~SameCookie(k, item)
  <2>1. lists'[list] = lists[list] \cup {item}
    BY <1>0, <1>1
  <2>. QED
    BY <1>1, <1>2, <2>1 DEF Under, AddedTo
<1>4. ASSUME NEW d \in Domains, d # domain PROVE Under(d)' = Under(d)
  <2>1. cookies[d] # list
    BY <1>2, <1>4 DEF AddedTo
  <2>. QED
    BY <1>0, <1>1, <2>1 DEF Under
<1>5. TurnInv' /\ DueInv'
  BY <1>1 DEF TurnInv, DueInv
<1>6. KeptInv'
  <2>. SUFFICES ASSUME NEW k \in jar, ~Lapsed(k, now) PROVE Stored(k)'
    BY <1>1 DEF KeptInv
  <2>1. CASE k = item
    BY <1>2, <1>3, <2>1 DEF Stored
  <2>2. CASE k # item
    <3>1. ~SameCookie(k, item)
      BY <1>1, <2>2 DEF DueInv
    <3>2. k \in Under(k.domain) /\ k.domain \in Domains
      BY <1>0, <1>1, <3>1 DEF KeptInv, Stored, Items
    <3>3. k \in Under(k.domain)'
      BY <1>3, <1>4, <3>2
    <3>. QED
      BY <3>3 DEF Stored
  <2>. QED
    BY <2>1, <2>2
<1>7. NothingElse'
  <2>. SUFFICES ASSUME NEW d \in Domains, NEW k \in Under(d)'
                PROVE  k \in jar \/ IsExpired(k, now)
    BY <1>1 DEF NothingElse
  <2>1. CASE k = item
    BY <1>1, <2>1 DEF DueInv
  <2>2. CASE k # item
    <3>1. k \in Under(d)
      BY <1>3, <1>4, <2>2
    <3>. QED
      BY <1>1, <3>1 DEF NothingElse
  <2>. QED
    BY <2>1, <2>2
<1>. QED
  BY <1>5, <1>6, <1>7

\* Everything together, for a step of the client's thread.
LEMMA ClientSerial ==
  ASSUME TypeOK, RoomForList, StoreInv, SerialInv, OneSender, PlainCookies, ClientNext
  PROVE  SerialInv'
<1>. USE DEF StoreInv, SerialInv
<1>1. TurnInv' /\ KeptInv' /\ NothingElse' /\ DueInv'
  <2>1. ASSUME NEW s \in Senders, NEW c \in SetCookies, AddLookup(s, c)
        PROVE  TurnInv' /\ KeptInv' /\ NothingElse' /\ DueInv'
    BY <2>1, LookupSerial
  <2>2. CASE AddRemoveOld
    BY <2>2, RemoveOldSerial
  <2>3. CASE AddNewList
    BY <2>3, NewListSerial
  <2>4. CASE AddInsert
    BY <2>4, InsertSerial
  <2>. QED
    BY <2>1, <2>2, <2>3, <2>4 DEF ClientNext
<1>2. PurgeInv' /\ FoundInv'
  BY ClientTurn
<1>. QED
  BY <1>1, <1>2

\* When a second goes by, cookies expire; none comes back.
LEMMA TickSerial ==
  ASSUME TypeOK, SerialInv, PlainCookies, Tick
  PROVE  SerialInv'
<1>1. /\ now' = now + 1 /\ now \in Nat /\ jar \subseteq Items
      /\ stale \in [Senders -> SUBSET Items] /\ lists \in [Lists -> SUBSET Items]
      /\ cookies \in [Domains -> Lists \cup {NoList}]
  BY LimitsAssumption DEF Tick, TypeOK
<1>2. UNCHANGED <<cookies, lists, step, url, todo, found, stale, purging, held, index, began,
                  adding, item, list, jar>>
  BY DEF Tick, storeVars, senderVars, clientVars
<1>3. \A k \in Items : /\ IsExpired(k, now) => IsExpired(k, now')
                       /\ ~Lapsed(k, now') => ~Lapsed(k, now)
  <2>1. now' \in Nat /\ now <= now'
    BY <1>1
  <2>. QED
    BY <1>1, <2>1, StillExpired, PlainItems
<1>4. \A d \in Domains : Under(d)' = Under(d) /\ Under(d) \subseteq Items
  BY <1>1, <1>2 DEF Under
<1>5. \A k : Stored(k)' <=> Stored(k)
  BY <1>2 DEF Stored, Under
<1>6. TurnInv'
  BY <1>2 DEF SerialInv, TurnInv
<1>7. KeptInv'
  BY <1>1, <1>2, <1>3, <1>5 DEF SerialInv, KeptInv
<1>8. NothingElse'
  BY <1>2, <1>3, <1>4 DEF SerialInv, NothingElse
<1>9. PurgeInv'
  <2>. SUFFICES ASSUME NEW s \in Senders
                PROVE  /\ ~Matching(s)' => stale'[s] = {}
                       /\ step'[s] = "scan" => \E d \in Domains : held'[s] = cookies'[d]
                       /\ step'[s] = "remove" => held'[s] = cookies'[purging'[s]]
                       /\ step'[s] = "drop" => Under(purging[s])' = {}
                       /\ \A k \in stale'[s] : IsExpired(k, now') /\ Stored(k)'
    BY DEF PurgeInv
  <2>1. Under(purging[s])' = Under(purging[s])
    BY <1>2 DEF Under
  <2>. QED
    BY <1>1, <1>2, <1>3, <1>5, <2>1 DEF SerialInv, PurgeInv, Matching
<1>10. FoundInv'
  <2>1. began \in [Senders -> 0 .. MaxTime]
    BY DEF TypeOK
  <2>2. \A s \in Senders : began[s] <= now => began[s] <= now'
    BY <1>1, <2>1
  <2>3. \A s \in Senders : \A k : Ahead(s, k)' <=> Ahead(s, k)
    BY <1>2 DEF Ahead
  <2>. QED
    BY <1>1, <1>2, <1>3, <2>2, <2>3 DEF SerialInv, FoundInv, Matching
<1>11. DueInv'
  <2>1. adding # "none" => item \in Items
    BY DEF TypeOK
  <2>. QED
    BY <1>2, <1>3, <2>1 DEF SerialInv, DueInv
<1>. QED
  BY <1>6, <1>7, <1>8, <1>9, <1>10, <1>11 DEF SerialInv

\* With one request at a time and plain cookies, the store holds what it should
\* at every moment.
LEMMA SerialAlways ==
  ASSUME OneSender, PlainCookies
  PROVE  Spec => [](TypeOK /\ RoomForList /\ StoreInv /\ SerialInv)
<1>1. Init => SerialInv
  BY DEF Init, SerialInv, TurnInv, KeptInv, NothingElse, DueInv, PurgeInv, FoundInv, Matching,
     Under, Stored
<1>2. ASSUME TypeOK, RoomForList, StoreInv, SerialInv, [Next]_vars PROVE SerialInv'
  <2>1. ASSUME NEW s \in Senders, SenderNext(s) PROVE SerialInv'
    BY <1>2, <2>1, SenderSerial
  <2>2. CASE ClientNext
    BY <1>2, <2>2, ClientSerial
  <2>3. CASE Tick
    BY <1>2, <2>3, TickSerial
  <2>4. CASE UNCHANGED vars
    BY <1>2, <2>4 DEF vars, storeVars, senderVars, clientVars, SerialInv, TurnInv, KeptInv,
       NothingElse, DueInv, PurgeInv, FoundInv, Matching, Ahead, Under, Stored
  <2>. QED
    BY <1>2, <2>1, <2>2, <2>3, <2>4 DEF Next
<1>. QED
  BY <1>1, <1>2, StoreAlways, PTL DEF Spec

\* A cookie a server has set is in the store until it lapses or is set again:
\* neither another cookie nor the purge of expired ones in Match takes it out.
THEOREM RememberedCorrect ==
  ASSUME OneSender, PlainCookies
  PROVE  Spec => []Remembered
<1>1. SerialInv => Remembered
  BY DEF SerialInv, KeptInv, Remembered
<1>. QED
  BY <1>1, SerialAlways, PTL

\* The cookies sent with a request are all those set for its host, its path and
\* its scheme, and no others: none that was replaced, and none that had lapsed
\* when Match was called.
THEOREM SentCorrect ==
  ASSUME OneSender, PlainCookies
  PROVE  Spec => []CookiesSent
<1>1. StoreInv /\ SerialInv => CookiesSent
  BY DEF StoreInv, MatchInv, MatchOK, SerialInv, FoundInv, Matching, Ahead, CookiesSent
<1>. QED
  BY <1>1, SerialAlways, PTL
==============================================================================
