---------------------------- MODULE HttpProofs -----------------------------
(***************************************************************************)
(* Proofs about Http, for every set of URLs, hosts, requests and cookies   *)
(* and every limit.                                                        *)
(*                                                                         *)
(* The headers of a hop come from the jar as it is when the hop starts, so *)
(* the invariant says whose cookies the jar holds and what is known of a   *)
(* request in each phase; that of the cache bounds its entries in time.    *)
(***************************************************************************)
EXTENDS Http, FiniteSetTheorems, TLAPS

-----------------------------------------------------------------------------
(* The inductive invariant.                                                *)

\* TaiCookieJar: a cookie is filed under its host.
JarInv == \A h \in Hosts : jar[h] # None => jar[h].host = h

\* The headers start gave the hop.
HeadersFit(q) ==
    /\ q.cookie # None =>
         /\ q.cookie.host = HostOf[q.url]
         /\ ~ (q.cookie.lax /\ CrossHostPost(q.ask, q.url))
    /\ q.referer # None =>
         /\ q.referer \in HttpUrls
         /\ q.ask.policy # "no-referrer"
         /\ q.ask.policy = "same-origin" =>
                OriginOf[q.referer] = OriginOf[q.url]

FromCache(q) ==
    q.response # None =>
        q.response.since < q.response.age /\ Plain(q.ask)

\* A request, by its phase.
RequestOK(q) ==
    /\ q.phase \in {"sent", "answered"} => q.url \in HttpUrls
    /\ q.phase = "sent" => HeadersFit(q)
    /\ q.phase = "answered" => q.response \in Answers
    /\ q.phase = "ready" => FromCache(q)
RequestInv == \A r \in Slots : RequestOK(req[r])

\* The response cache: its entries were stored in the past.
CacheInv ==
    /\ IsFiniteSet(DOMAIN cache)
    /\ Cardinality(DOMAIN cache) <= CacheLimit
    /\ \A u \in DOMAIN cache : cache[u].stored <= now /\ cache[u].plain

IInv ==
    /\ TypeOK
    /\ JarInv
    /\ RequestInv
    /\ CacheInv

-----------------------------------------------------------------------------
(* The jar, a request and the cache, each by what a step may do to it.     *)

JarTypes == jar \in [Hosts -> Cookies \cup {None}]
RequestTypes == req \in [Slots -> Hops \cup {Free}]
CacheTypes ==
    \A u \in DOMAIN cache :
        /\ u \in HttpUrls
        /\ cache[u] \in [stored : Times, age : Nat, plain : BOOLEAN]

LEMMA HostsOfUrls ==
    ASSUME NEW u \in HttpUrls
    PROVE  HostOf[u] \in Hosts
BY DEF Hosts

LEMMA ValidCookie ==
    ASSUME JarTypes, JarInv, NEW h \in Hosts
    PROVE  /\ Valid(h) \in Cookies \cup {None}
           /\ Valid(h) # None => Valid(h) = jar[h] /\ Valid(h).host = h
BY DEF JarTypes, JarInv, Valid

LEMMA LookUpKeepsJar ==
    ASSUME JarTypes, JarInv, NEW h \in Hosts, LookUp(h)
    PROVE  JarTypes' /\ JarInv'
<1>1. jar' = [jar EXCEPT ![h] = Valid(h)]
  BY DEF LookUp
<1>2. JarTypes'
  BY <1>1, ValidCookie DEF JarTypes
<1>3. JarInv'
  BY <1>1, ValidCookie DEF JarTypes, JarInv
<1> QED
  BY <1>2, <1>3

LEMMA NewCookieType ==
    ASSUME now \in Times, NEW h \in Hosts, NEW set \in SetCookies
    PROVE  NewCookie(h, set) \in Cookies /\ NewCookie(h, set).host = h
<1>1. set \in [httpOnly : BOOLEAN, lax : BOOLEAN, life : Nat \cup {Forever}]
  BY HttpAssumption
<1>2. now \in Nat
  BY HttpAssumption DEF Times
<1>3. (IF set.life = Forever THEN Forever ELSE now + set.life)
          \in Nat \cup {Forever}
  BY <1>1, <1>2
<1> QED
  BY <1>1, <1>3 DEF NewCookie, Cookies

LEMMA StoreKeepsJar ==
    ASSUME now \in Times, JarTypes, JarInv,
           NEW h \in Hosts, NEW set \in SetCookies, Store(h, set)
    PROVE  JarTypes' /\ JarInv'
<1> DEFINE cookie == IF Expired(NewCookie(h, set)) THEN None
                     ELSE NewCookie(h, set)
<1>1. jar' = [jar EXCEPT ![h] = cookie]
  BY DEF Store
<1>2. cookie \in Cookies \cup {None} /\ (cookie # None => cookie.host = h)
  BY NewCookieType
<1> HIDE DEF cookie
<1>3. JarTypes'
  BY <1>1, <1>2 DEF JarTypes
<1>4. JarInv'
  BY <1>1, <1>2 DEF JarTypes, JarInv
<1> QED
  BY <1>3, <1>4

LEMMA RequestChanges ==
    ASSUME RequestTypes, RequestInv, NEW r \in Slots,
           NEW q \in Hops \cup {Free}, RequestOK(q),
           req' = [req EXCEPT ![r] = q]
    PROVE  RequestTypes' /\ RequestInv'
<1>1. RequestTypes'
  BY DEF RequestTypes
<1>2. ASSUME NEW s \in Slots
      PROVE  RequestOK(req'[s])
  BY DEF RequestTypes, RequestInv
<1> QED
  BY <1>1, <1>2 DEF RequestInv

LEMMA FreeIsOK == RequestOK(Free)
BY DEF RequestOK, Free

LEMMA RequestFreed ==
    ASSUME RequestTypes, RequestInv, NEW r \in Slots,
           req' = [req EXCEPT ![r] = Free]
    PROVE  RequestTypes' /\ RequestInv'
BY FreeIsOK, RequestChanges

\* A ready request holds no response, or a fresh one of the cache.
LEMMA ReadyRequest ==
    ASSUME RequestTypes, RequestInv, NEW r \in Slots, NEW ask \in Requests,
           NEW response \in [since : Times, age : Nat] \cup {None},
           response # None => response.since < response.age /\ Plain(ask),
           Ready(r, ask, response)
    PROVE  RequestTypes' /\ RequestInv'
<1> DEFINE q == Hop("ready", ask, None, 0, None, None, response)
<1>1. q \in Hops \cup {Free}
  BY HttpAssumption DEF Hop, Hops, Responses
<1>2. RequestOK(q)
  BY DEF RequestOK, Hop, FromCache
<1>3. req' = [req EXCEPT ![r] = q]
  BY DEF Ready
<1> HIDE DEF q
<1> QED
  BY <1>1, <1>2, <1>3, RequestChanges

-----------------------------------------------------------------------------
(* start: the headers fit the hop they are made for.                       *)

LEMMA CookieFits ==
    ASSUME JarTypes, JarInv, NEW ask \in Requests, NEW url \in HttpUrls
    PROVE  LET cookie == CookieHeader(ask, url)
           IN  /\ cookie \in Cookies \cup {None}
               /\ cookie # None =>
                    /\ cookie.host = HostOf[url]
                    /\ ~ (cookie.lax /\ CrossHostPost(ask, url))
BY HostsOfUrls, ValidCookie DEF CookieHeader

LEMMA RefererFits ==
    ASSUME NEW ask \in Requests, NEW url \in HttpUrls
    PROVE  LET referer == RefererHeader(ask, url)
           IN  /\ referer \in HttpUrls \cup {None}
               /\ referer # None =>
                    /\ referer \in HttpUrls
                    /\ ask.policy # "no-referrer"
                    /\ ask.policy = "same-origin" =>
                           OriginOf[referer] = OriginOf[url]
<1>1. None \notin HttpUrls
  BY HttpAssumption
<1> QED
  BY <1>1 DEF RefererHeader

LEMMA SentRequest ==
    ASSUME RequestTypes, RequestInv, JarTypes, JarInv,
           NEW r \in Slots, NEW ask \in Requests, NEW url \in HttpUrls,
           NEW redirects \in 0..RedirectLimit,
           req' = [req EXCEPT ![r] =
                      Hop("sent", ask, url, redirects, CookieHeader(ask, url),
                          RefererHeader(ask, url), None)]
    PROVE  RequestTypes' /\ RequestInv'
<1> DEFINE cookie  == CookieHeader(ask, url)
           referer == RefererHeader(ask, url)
           q       == Hop("sent", ask, url, redirects, cookie, referer, None)
<1>1. /\ cookie \in Cookies \cup {None}
      /\ cookie # None =>
           /\ cookie.host = HostOf[url]
           /\ ~ (cookie.lax /\ CrossHostPost(ask, url))
  BY CookieFits
<1>2. /\ referer \in HttpUrls \cup {None}
      /\ referer # None =>
           /\ referer \in HttpUrls
           /\ ask.policy # "no-referrer"
           /\ ask.policy = "same-origin" => OriginOf[referer] = OriginOf[url]
  BY RefererFits
<1>3. req' = [req EXCEPT ![r] = q]
  OBVIOUS
<1> HIDE DEF cookie, referer
<1>4. q \in Hops \cup {Free}
  BY <1>1, <1>2 DEF Hop, Hops, Responses
<1>5. RequestOK(q)
  BY <1>1, <1>2 DEF RequestOK, HeadersFit, Hop
<1> HIDE DEF q
<1> QED
  BY <1>3, <1>4, <1>5, RequestChanges

LEMMA StartKeeps ==
    ASSUME now \in Times, RequestTypes, RequestInv, JarTypes, JarInv,
           CacheTypes, CacheInv,
           NEW r \in Slots, NEW ask \in Requests,
           NEW url \in HttpUrls \cup LocalUrls,
           NEW redirects \in 0..RedirectLimit,
           Start(r, ask, url, redirects)
    PROVE  RequestTypes' /\ RequestInv' /\ JarTypes' /\ JarInv'
<1>1. CASE url \in LocalUrls /\ Ready(r, ask, None) /\ UNCHANGED jar
  <2>1. RequestTypes' /\ RequestInv'
    BY <1>1, ReadyRequest
  <2>2. JarTypes' /\ JarInv'
    BY <1>1 DEF JarTypes, JarInv
  <2> QED
    BY <2>1, <2>2
<1>2. CASE /\ url \in HttpUrls
           /\ Plain(ask) /\ Fresh(url)
           /\ Ready(r, ask, [since |-> now - cache[url].stored,
                             age |-> cache[url].age])
           /\ UNCHANGED jar
  <2> DEFINE since == now - cache[url].stored
             age   == cache[url].age
  <2>1. /\ cache[url].stored \in Times /\ age \in Nat
        /\ cache[url].stored <= now /\ cache[url].stored + age > now
    BY <1>2 DEF Fresh, CacheTypes, CacheInv
  <2>2. since \in Times /\ since < age
    BY <2>1, HttpAssumption DEF Times
  <2> DEFINE response == [since |-> since, age |-> age]
  <2>3. /\ response \in [since : Times, age : Nat] \cup {None}
        /\ response.since < response.age /\ Plain(ask)
    BY <1>2, <2>1, <2>2
  <2>4. Ready(r, ask, response)
    BY <1>2
  <2> HIDE DEF response
  <2>5. RequestTypes' /\ RequestInv'
    BY <2>3, <2>4, ReadyRequest
  <2>6. JarTypes' /\ JarInv'
    BY <1>2 DEF JarTypes, JarInv
  <2> QED
    BY <2>5, <2>6
<1>3. CASE /\ url \in HttpUrls
           /\ req' = [req EXCEPT ![r] =
                         Hop("sent", ask, url, redirects,
                             CookieHeader(ask, url),
                             RefererHeader(ask, url), None)]
           /\ LookUp(HostOf[url])
  <2>1. RequestTypes' /\ RequestInv'
    BY <1>3, SentRequest
  <2>2. JarTypes' /\ JarInv'
    BY <1>3, HostsOfUrls, LookUpKeepsJar
  <2> QED
    BY <2>1, <2>2
<1> QED
  BY <1>1, <1>2, <1>3 DEF Start

-----------------------------------------------------------------------------
(* cache_store: emptied or not, the cache has room for the new entry.      *)

LEMMA RoomForTheEntry ==
    ASSUME NEW S, IsFiniteSet(S), Cardinality(S) + 1 <= CacheLimit, NEW u
    PROVE  /\ IsFiniteSet((S \ {u}) \cup {u})
           /\ Cardinality((S \ {u}) \cup {u}) <= CacheLimit
<1> DEFINE K == S \ {u}
<1>1. K \subseteq S
  OBVIOUS
<1> HIDE DEF K
<1>2. IsFiniteSet(K) /\ Cardinality(K) <= Cardinality(S)
  BY <1>1, FS_Subset
<1>3. Cardinality(S) \in Nat /\ Cardinality(K) \in Nat
  BY <1>2, FS_CardinalityType
<1>4. /\ IsFiniteSet(K \cup {u})
      /\ Cardinality(K \cup {u}) \in {Cardinality(K), Cardinality(K) + 1}
  BY <1>2, FS_AddElement
<1>5. Cardinality(K \cup {u}) <= CacheLimit
  BY <1>2, <1>3, <1>4, HttpAssumption
<1> QED
  BY <1>4, <1>5 DEF K

LEMMA StoreKeepsCache ==
    ASSUME now \in Times, now' = now, CacheTypes, CacheInv,
           NEW q \in Hops, q.url \in HttpUrls, q.response \in Answers,
           MayStore(q), StoreResponse(q)
    PROVE  CacheTypes' /\ CacheInv'
<1> DEFINE entry == [stored |-> now, age |-> q.response.age,
                     plain |-> Plain(q.ask)]
<1>1. PICK full \in BOOLEAN :
          LET kept == IF full \/ Overflows(q.url) THEN {}
                      ELSE DOMAIN cache \ {q.url}
          IN  cache' = [u \in kept \cup {q.url} |->
                          IF u = q.url THEN entry ELSE cache[u]]
  BY DEF StoreResponse
<1> DEFINE kept == IF full \/ Overflows(q.url) THEN {}
                   ELSE DOMAIN cache \ {q.url}
<1>2. cache' = [u \in kept \cup {q.url} |->
                  IF u = q.url THEN entry ELSE cache[u]]
  BY <1>1
<1>3. entry.age \in Nat /\ entry.plain = TRUE /\ entry.stored = now
  BY HttpAssumption DEF MayStore, Answers, Plain
<1>4. entry \in [stored : Times, age : Nat, plain : BOOLEAN]
  BY <1>3
<1>5. kept \subseteq DOMAIN cache
  OBVIOUS
<1>6. /\ IsFiniteSet(kept \cup {q.url})
      /\ Cardinality(kept \cup {q.url}) <= CacheLimit
  <2>1. CASE full \/ Overflows(q.url)
    <3>1. kept \cup {q.url} = {q.url}
      BY <2>1
    <3>2. IsFiniteSet({q.url}) /\ Cardinality({q.url}) = 1
      BY FS_Singleton
    <3> QED
      BY <3>1, <3>2, HttpAssumption
  <2>2. CASE ~ (full \/ Overflows(q.url))
    <3>1. Cardinality(DOMAIN cache) + 1 <= CacheLimit
      <4>1. Cardinality(DOMAIN cache) \in Nat
        BY FS_CardinalityType DEF CacheInv
      <4> QED
        BY <2>2, <4>1, HttpAssumption DEF Overflows
    <3>2. kept = DOMAIN cache \ {q.url}
      BY <2>2
    <3> HIDE DEF kept
    <3> QED
      BY <3>1, <3>2, RoomForTheEntry DEF CacheInv
  <2> QED
    BY <2>1, <2>2
<1> HIDE DEF kept, entry
<1>7. DOMAIN cache' = kept \cup {q.url}
  BY <1>2
<1>8. ASSUME NEW u \in DOMAIN cache'
      PROVE  /\ u \in HttpUrls
             /\ cache'[u] \in [stored : Times, age : Nat, plain : BOOLEAN]
             /\ cache'[u].stored <= now /\ cache'[u].plain
  <2>1. CASE u = q.url
    <3>1. cache'[u] = entry
      BY <1>2, <1>7, <2>1
    <3>2. now <= now
      BY HttpAssumption DEF Times
    <3> QED
      BY <1>3, <1>4, <2>1, <3>1, <3>2
  <2>2. CASE u # q.url
    <3>1. u \in DOMAIN cache /\ cache'[u] = cache[u]
      BY <1>2, <1>5, <1>7, <2>2
    <3> QED
      BY <3>1 DEF CacheTypes, CacheInv
  <2> QED
    BY <2>1, <2>2
<1>9. CacheTypes'
  BY <1>8 DEF CacheTypes
<1>10. CacheInv'
  BY <1>6, <1>7, <1>8 DEF CacheInv
<1> QED
  BY <1>9, <1>10

-----------------------------------------------------------------------------
(* The invariant holds at the start and no step breaks it.                 *)

LEMMA Parts ==
    ASSUME IInv
    PROVE  /\ now \in Times /\ JarTypes /\ CacheTypes /\ RequestTypes
           /\ waiting \in Slots \cup {None} /\ open \in BOOLEAN
           /\ JarInv /\ RequestInv /\ CacheInv
BY Zenon DEF IInv, TypeOK, JarTypes, CacheTypes, RequestTypes

LEMMA Assembled ==
    ASSUME now' \in Times, JarTypes', CacheTypes', RequestTypes',
           (waiting \in Slots \cup {None})', (open \in BOOLEAN)',
           JarInv', RequestInv', CacheInv'
    PROVE  IInv'
BY Zenon DEF IInv, TypeOK, JarTypes, CacheTypes, RequestTypes

LEMMA JarUnchanged ==
    ASSUME JarTypes, JarInv, UNCHANGED jar
    PROVE  JarTypes' /\ JarInv'
BY DEF JarTypes, JarInv

LEMMA RequestsUnchanged ==
    ASSUME RequestTypes, RequestInv, UNCHANGED req
    PROVE  RequestTypes' /\ RequestInv'
BY DEF RequestTypes, RequestInv

LEMMA CacheUnchanged ==
    ASSUME CacheTypes, CacheInv, UNCHANGED <<now, cache>>
    PROVE  CacheTypes' /\ CacheInv'
BY DEF CacheTypes, CacheInv

\* A request that is not free is on a hop.
LEMMA ListedRequest ==
    ASSUME RequestTypes, NEW r \in Slots,
           req[r].phase \in {"sent", "answered", "ready"}
    PROVE  req[r] \in Hops
BY DEF RequestTypes, Free

LEMMA InitInv == Init => IInv
<1> SUFFICES ASSUME Init PROVE IInv
  OBVIOUS
<1>1. now \in Times
  BY HttpAssumption DEF Init, Times
<1>2. JarTypes /\ JarInv
  BY DEF Init, JarTypes, JarInv
<1>3. RequestTypes
  BY DEF Init, RequestTypes
<1>4. RequestInv
  BY FreeIsOK DEF Init, RequestInv
<1>5. DOMAIN cache = {}
  BY DEF Init
<1>6. CacheTypes
  BY <1>5 DEF CacheTypes
<1>7. CacheInv
  <2>1. IsFiniteSet({}) /\ Cardinality({}) = 0
    BY FS_EmptySet
  <2> QED
    BY <1>5, <2>1, HttpAssumption DEF CacheInv
<1>8. waiting \in Slots \cup {None} /\ open \in BOOLEAN
  BY DEF Init
<1> QED
  BY <1>1, <1>2, <1>3, <1>4, <1>6, <1>7, <1>8, Zenon
     DEF IInv, TypeOK, JarTypes, CacheTypes, RequestTypes

LEMMA ScriptReadsInv ==
    ASSUME IInv, NEW host \in Hosts, ScriptReads(host) PROVE IInv'
<1>1. JarTypes' /\ JarInv'
  BY Parts, LookUpKeepsJar DEF ScriptReads
<1>2. /\ now' = now /\ cache' = cache /\ req' = req
      /\ waiting' = waiting /\ open' = open
  BY DEF ScriptReads
<1> QED
  BY <1>1, <1>2, Parts, RequestsUnchanged, CacheUnchanged, Assembled

LEMMA ScriptSetsInv ==
    ASSUME IInv, NEW host \in Hosts, NEW set \in SetCookies,
           ScriptSets(host, set)
    PROVE  IInv'
<1>1. JarTypes' /\ JarInv'
  <2>1. CASE Store(host, set)
    BY <2>1, Parts, StoreKeepsJar
  <2>2. CASE LookUp(host)
    BY <2>2, Parts, LookUpKeepsJar
  <2> QED
    BY <2>1, <2>2 DEF ScriptSets
<1>2. /\ now' = now /\ cache' = cache /\ req' = req
      /\ waiting' = waiting /\ open' = open
  BY DEF ScriptSets
<1> QED
  BY <1>1, <1>2, Parts, RequestsUnchanged, CacheUnchanged, Assembled

\* Submit and RequestUntil: a request starts on its first hop.
LEMMA FirstHop ==
    ASSUME IInv, NEW r \in Slots, NEW ask \in Requests,
           Start(r, ask, ask.url, 0)
    PROVE  RequestTypes' /\ RequestInv' /\ JarTypes' /\ JarInv'
<1>1. ask.url \in HttpUrls \cup LocalUrls /\ 0 \in 0..RedirectLimit
  BY HttpAssumption
<1> QED
  BY <1>1, Parts, StartKeeps

LEMMA SubmitInv ==
    ASSUME IInv, NEW r \in Slots, NEW ask \in Requests, Submit(r, ask)
    PROVE  IInv'
<1>1. RequestTypes' /\ RequestInv' /\ JarTypes' /\ JarInv'
  BY FirstHop DEF Submit
<1>2. /\ now' = now /\ cache' = cache
      /\ waiting' = waiting /\ open' = open
  BY DEF Submit
<1> QED
  BY <1>1, <1>2, Parts, CacheUnchanged, Assembled

LEMMA RequestUntilInv ==
    ASSUME IInv, NEW r \in Slots, NEW ask \in Requests, RequestUntil(r, ask)
    PROVE  IInv'
<1>1. RequestTypes' /\ RequestInv' /\ JarTypes' /\ JarInv'
  BY FirstHop DEF RequestUntil
<1>2. /\ now' = now /\ cache' = cache
      /\ waiting' = r /\ open' = open
  BY DEF RequestUntil
<1> QED
  BY <1>1, <1>2, Parts, CacheUnchanged, Assembled

\* A request that fails or ends is ready and holds no response.
LEMMA ReadyWithNone ==
    ASSUME RequestTypes, RequestInv, NEW r \in Slots,
           req[r].phase \in {"sent", "answered"},
           Ready(r, req[r].ask, None)
    PROVE  RequestTypes' /\ RequestInv'
<1>1. req[r].ask \in Requests
  BY ListedRequest DEF Hops
<1> QED
  BY <1>1, ReadyRequest

LEMMA TransferFailsInv ==
    ASSUME IInv, NEW r \in Slots, TransferFails(r) PROVE IInv'
<1>1. RequestTypes' /\ RequestInv'
  BY Parts, ReadyWithNone DEF TransferFails
<1>2. /\ now' = now /\ jar' = jar /\ cache' = cache
      /\ waiting' = waiting /\ open' = open
  BY DEF TransferFails
<1> QED
  BY <1>1, <1>2, Parts, JarUnchanged, CacheUnchanged, Assembled

LEMMA RespondInv ==
    ASSUME IInv, NEW r \in Slots, NEW answer \in Answers, Respond(r, answer)
    PROVE  IInv'
<1> USE Parts
<1>1. req[r].phase = "sent" /\ req[r] \in Hops
  BY ListedRequest DEF Respond
<1>2. req[r].url \in HttpUrls
  BY <1>1 DEF RequestInv, RequestOK
<1>3. JarTypes' /\ JarInv'
  <2>1. HostOf[req[r].url] \in Hosts
    BY <1>2, HostsOfUrls
  <2>2. CASE UNCHANGED jar
    BY <2>2, JarUnchanged
  <2>3. CASE \E set \in SetCookies : Store(HostOf[req[r].url], set)
    <3>1. PICK set \in SetCookies : Store(HostOf[req[r].url], set)
      BY <2>3
    <3> QED
      BY <2>1, <3>1, StoreKeepsJar
  <2> QED
    BY <2>2, <2>3 DEF Respond
<1>4. RequestTypes' /\ RequestInv'
  <2> DEFINE q == Hop("answered", req[r].ask, req[r].url, req[r].redirects,
                      None, None, answer)
  <2>1. q \in Hops \cup {Free}
    BY <1>1, <1>2 DEF Hop, Hops, Responses
  <2>2. RequestOK(q)
    BY <1>2 DEF RequestOK, Hop
  <2>3. req' = [req EXCEPT ![r] = q]
    BY DEF Respond
  <2> HIDE DEF q
  <2> QED
    BY <2>1, <2>2, <2>3, RequestChanges
<1>5. /\ now' = now /\ cache' = cache
      /\ waiting' = waiting /\ open' = open
  BY DEF Respond
<1> QED
  BY <1>3, <1>4, <1>5, CacheUnchanged, Assembled

LEMMA RedirectInv ==
    ASSUME IInv, NEW r \in Slots, Redirect(r) PROVE IInv'
<1> USE Parts
<1> DEFINE q == req[r]
<1>1. q.phase = "answered" /\ q \in Hops
  BY ListedRequest DEF Redirect
<1>2. q.ask \in Requests /\ q.redirects \in 0..RedirectLimit
  BY <1>1 DEF Hops
<1>3. /\ now' = now /\ cache' = cache
      /\ waiting' = waiting /\ open' = open
  BY DEF Redirect
<1>4. RequestTypes' /\ RequestInv' /\ JarTypes' /\ JarInv'
  <2>1. CASE Ready(r, q.ask, None) /\ UNCHANGED jar
    BY <1>1, <2>1, ReadyWithNone, JarUnchanged
  <2>2. CASE /\ ~ TooManyRedirects(q.redirects)
             /\ q.response.location \in HttpUrls
             /\ Start(r, q.ask, q.response.location, q.redirects + 1)
    <3>1. q.redirects + 1 \in 0..RedirectLimit
      BY <1>2, <2>2, HttpAssumption DEF TooManyRedirects
    <3>2. q.response.location \in HttpUrls \cup LocalUrls
      BY <2>2
    <3> DEFINE redirects == q.redirects + 1
               location  == q.response.location
    <3>3. Start(r, q.ask, location, redirects)
      BY <2>2
    <3> HIDE DEF redirects, location, q
    <3> QED
      BY <1>2, <3>1, <3>2, <3>3, StartKeeps DEF redirects, location
  <2> QED
    BY <2>1, <2>2 DEF Redirect
<1> QED
  BY <1>3, <1>4, CacheUnchanged, Assembled

LEMMA CompleteInv ==
    ASSUME IInv, NEW r \in Slots, Complete(r) PROVE IInv'
<1> USE Parts
<1> DEFINE q == req[r]
<1>1. q.phase = "answered" /\ q \in Hops
  BY ListedRequest DEF Complete
<1>2. q.url \in HttpUrls /\ q.response \in Answers
  BY <1>1 DEF RequestInv, RequestOK
<1>3. /\ now' = now /\ jar' = jar
      /\ waiting' = waiting /\ open' = open
      /\ Ready(r, q.ask, None)
  BY DEF Complete
<1>4. RequestTypes' /\ RequestInv'
  BY <1>1, <1>3, ReadyWithNone
<1>5. CacheTypes' /\ CacheInv'
  <2>1. CASE MayStore(q) /\ StoreResponse(q)
    <3> HIDE DEF q
    <3> QED
      BY <1>1, <1>2, <1>3, <2>1, StoreKeepsCache
  <2>2. CASE cache' = cache
    BY <1>3, <2>2, CacheUnchanged
  <2> QED
    BY <2>1, <2>2 DEF Complete
<1> QED
  BY <1>3, <1>4, <1>5, JarUnchanged, Assembled

LEMMA DispatchInv ==
    ASSUME IInv, NEW r \in Slots, Dispatch(r) PROVE IInv'
<1>1. RequestTypes' /\ RequestInv'
  BY Parts, RequestFreed DEF Dispatch
<1>2. /\ now' = now /\ jar' = jar /\ cache' = cache /\ open' = open
      /\ waiting' \in {waiting, None}
  BY DEF Dispatch
<1> QED
  BY <1>1, <1>2, Parts, JarUnchanged, CacheUnchanged, Assembled

LEMMA CancelInv ==
    ASSUME IInv, NEW r \in Slots, Cancel(r) PROVE IInv'
<1>1. RequestTypes' /\ RequestInv'
  BY Parts, RequestFreed DEF Cancel
<1>2. /\ now' = now /\ jar' = jar /\ cache' = cache
      /\ waiting' = waiting /\ open' = open
  BY DEF Cancel
<1> QED
  BY <1>1, <1>2, Parts, JarUnchanged, CacheUnchanged, Assembled

LEMMA GiveUpInv ==
    ASSUME IInv, GiveUp PROVE IInv'
<1>1. waiting \in Slots
  BY Parts DEF GiveUp
<1>2. RequestTypes' /\ RequestInv'
  BY <1>1, Parts, RequestFreed DEF GiveUp
<1>3. /\ now' = now /\ jar' = jar /\ cache' = cache
      /\ waiting' = None /\ open' = open
  BY DEF GiveUp
<1> QED
  BY <1>2, <1>3, Parts, JarUnchanged, CacheUnchanged, Assembled

LEMMA DestroyInv ==
    ASSUME IInv, Destroy PROVE IInv'
<1>1. /\ now' = now /\ jar' = jar /\ waiting' = waiting /\ open' = FALSE
      /\ req' = [r \in Slots |-> Free] /\ DOMAIN cache' = {}
  BY DEF Destroy
<1>2. RequestTypes'
  BY <1>1 DEF RequestTypes
<1>3. RequestInv'
  BY <1>1, FreeIsOK DEF RequestInv
<1>4. CacheTypes'
  BY <1>1 DEF CacheTypes
<1>5. CacheInv'
  <2>1. IsFiniteSet({}) /\ Cardinality({}) = 0
    BY FS_EmptySet
  <2> QED
    BY <1>1, <2>1, HttpAssumption DEF CacheInv
<1> QED
  BY <1>1, <1>2, <1>3, <1>4, <1>5, Parts, JarUnchanged, Assembled

LEMMA TickInv ==
    ASSUME IInv, Tick PROVE IInv'
<1>1. /\ now' = now + 1 /\ now < MaxNow
      /\ jar' = jar /\ cache' = cache /\ req' = req
      /\ waiting' = waiting /\ open' = open
  BY DEF Tick
<1>2. now \in Nat /\ now' \in Times /\ now <= now'
  BY <1>1, Parts, HttpAssumption DEF Times
<1>3. CacheTypes'
  BY <1>1, Parts DEF CacheTypes
<1>4. CacheInv'
  <2>1. ASSUME NEW u \in DOMAIN cache
        PROVE  cache[u].stored <= now'
    <3>1. cache[u].stored \in Nat /\ cache[u].stored <= now
      BY Parts, HttpAssumption DEF CacheTypes, CacheInv, Times
    <3> QED
      BY <1>1, <1>2, <3>1
  <2> QED
    BY <1>1, <2>1, Parts DEF CacheInv
<1> QED
  BY <1>1, <1>2, <1>3, <1>4, Parts, JarUnchanged, RequestsUnchanged, Assembled

LEMMA NextInv == IInv /\ [Next]_vars => IInv'
<1> SUFFICES ASSUME IInv, [Next]_vars PROVE IInv'
  OBVIOUS
<1>1. ASSUME NEW host \in Hosts, ScriptReads(host) PROVE IInv'
  BY <1>1, ScriptReadsInv
<1>2. ASSUME NEW host \in Hosts, NEW set \in SetCookies, ScriptSets(host, set)
      PROVE  IInv'
  BY <1>2, ScriptSetsInv
<1>3. ASSUME NEW r \in Slots, NEW ask \in Requests,
             Submit(r, ask) \/ RequestUntil(r, ask)
      PROVE  IInv'
  BY <1>3, SubmitInv, RequestUntilInv
<1>4. ASSUME NEW r \in Slots, Transfer(r) PROVE IInv'
  BY <1>4, TransferFailsInv, RespondInv, RedirectInv, CompleteInv
     DEF Transfer
<1>5. ASSUME NEW r \in Slots, Dispatch(r) \/ Cancel(r) PROVE IInv'
  BY <1>5, DispatchInv, CancelInv
<1>6. CASE GiveUp
  BY <1>6, GiveUpInv
<1>7. CASE Destroy
  BY <1>7, DestroyInv
<1>8. CASE Tick
  BY <1>8, TickInv
<1>9. CASE UNCHANGED vars
  <2>1. /\ now' = now /\ jar' = jar /\ cache' = cache /\ req' = req
        /\ waiting' = waiting /\ open' = open
    BY <1>9 DEF vars
  <2> QED
    BY <2>1, Parts, JarUnchanged, RequestsUnchanged, CacheUnchanged, Assembled
<1> QED
  BY <1>1, <1>2, <1>3, <1>4, <1>5, <1>6, <1>7, <1>8, <1>9 DEF Next

\* The invariant holds in every state.
THEOREM Inductive == Spec => []IInv
<1>1. Init => IInv
  BY InitInv
<1>2. IInv /\ [Next]_vars => IInv'
  BY NextInv
<1> QED
  BY <1>1, <1>2, PTL DEF Spec

-----------------------------------------------------------------------------
(* What the runs check, for every instance.                                *)

\* Every variable keeps its type: in particular a request never has followed
\* more redirects than the limit allows.
THEOREM TypeCorrect == Spec => []TypeOK
<1>1. IInv => TypeOK
  BY DEF IInv
<1> QED
  BY <1>1, Inductive, PTL

\* What a hop sends fits the host and origin it is sent to: the cookie is that
\* host's, a SameSite=lax one is in no cross-host post, the referrer policy is
\* kept and a local page is not named, after any number of redirects and any
\* script's writing.
THEOREM HeadersAlwaysFit == Spec => []HeadersFitTheHop
<1>1. IInv => HeadersFitTheHop
  BY DEF IInv, RequestInv, RequestOK, HeadersFit, HeadersFitTheHop
<1> QED
  BY <1>1, Inductive, PTL

\* The response cache holds no more than its limit, only responses to requests
\* with neither body nor origin, and answers from it before they expire.
THEOREM CacheStaysSound == Spec => []CacheIsSound
<1>1. IInv => CacheIsSound
  BY DEF IInv, CacheInv, RequestInv, RequestOK, FromCache, CacheIsSound
<1> QED
  BY <1>1, Inductive, PTL

\* The step HttpOnlyIsKept asks for.
HttpOnlyStep ==
    \A host \in Hosts :
        /\ jar[host] # None /\ ~ Expired(jar[host]) /\ jar[host].httpOnly
        /\ jar'[host] # jar[host]
        => \E r \in Slots : /\ req[r].phase = "sent"
                            /\ HostOf[req[r].url] = host
                            /\ req'[r].phase = "answered"

LEMMA LookUpKeepsValid ==
    ASSUME JarTypes, NEW host \in Hosts, NEW h \in Hosts, LookUp(h),
           ~ Expired(jar[host])
    PROVE  jar'[host] = jar[host]
BY DEF JarTypes, LookUp, Valid

LEMMA StoreKeepsOthers ==
    ASSUME JarTypes, NEW host \in Hosts, NEW h, NEW set, Store(h, set),
           jar'[host] # jar[host]
    PROVE  host = h
BY DEF JarTypes, Store

LEMMA OnlyAnswersReplace == IInv /\ [Next]_vars => HttpOnlyStep
<1> SUFFICES ASSUME IInv, [Next]_vars, NEW host \in Hosts,
                    jar[host] # None, ~ Expired(jar[host]),
                    jar[host].httpOnly, jar'[host] # jar[host]
             PROVE  \E r \in Slots : /\ req[r].phase = "sent"
                                     /\ HostOf[req[r].url] = host
                                     /\ req'[r].phase = "answered"
  BY DEF HttpOnlyStep
<1>0. JarTypes /\ RequestTypes
  BY Parts
<1>1. ~ UNCHANGED jar
  OBVIOUS
<1>2. \A h \in Hosts : ~ LookUp(h)
  BY <1>0, LookUpKeepsValid
<1>3. \A h \in Hosts, set \in SetCookies : ~ ScriptSets(h, set)
  <2> SUFFICES ASSUME NEW h \in Hosts, NEW set \in SetCookies,
                      ScriptSets(h, set)
               PROVE  FALSE
    OBVIOUS
  <2>1. ScriptMaySet(h, set) /\ Store(h, set)
    BY <1>2 DEF ScriptSets
  <2>2. h = host
    BY <1>0, <2>1, StoreKeepsOthers
  <2> QED
    BY <2>1, <2>2 DEF ScriptMaySet, Valid
<1>4. \A r \in Slots, ask \in Requests, redirects \in Nat :
          \A url \in HttpUrls \cup LocalUrls : ~ Start(r, ask, url, redirects)
  BY <1>1, <1>2, HostsOfUrls DEF Start
<1>5. \A r \in Slots, ask \in Requests :
          ~ (Submit(r, ask) \/ RequestUntil(r, ask))
  <2>1. \A ask \in Requests : ask.url \in HttpUrls \cup LocalUrls
    BY HttpAssumption
  <2> QED
    BY <1>4, <2>1 DEF Submit, RequestUntil
<1>6. \A r \in Slots : ~ Redirect(r)
  <2> SUFFICES ASSUME NEW r \in Slots, Redirect(r) PROVE FALSE
    OBVIOUS
  <2>1. req[r] \in Hops
    BY <1>0, ListedRequest DEF Redirect
  <2>2. req[r].ask \in Requests /\ req[r].redirects \in 0..RedirectLimit
    BY <2>1 DEF Hops
  <2>3. req[r].redirects + 1 \in Nat
    BY <2>2, HttpAssumption
  <2>4. /\ req[r].response.location \in HttpUrls
        /\ Start(r, req[r].ask, req[r].response.location,
                 req[r].redirects + 1)
    BY <1>1 DEF Redirect
  <2> QED
    BY <1>4, <2>2, <2>3, <2>4
<1>7. PICK r \in Slots, answer \in Answers : Respond(r, answer)
  BY <1>1, <1>2, <1>3, <1>5, <1>6
     DEF Next, vars, ScriptReads, Transfer, TransferFails, Complete,
         Dispatch, Cancel, GiveUp, Destroy, Tick
<1>8. req[r].phase = "sent"
  BY <1>7 DEF Respond
<1>9. HostOf[req[r].url] = host
  BY <1>0, <1>7, StoreKeepsOthers DEF Respond
<1>10. req'[r].phase = "answered"
  BY <1>0, <1>7 DEF Respond, RequestTypes, Hop
<1> QED
  BY <1>8, <1>9, <1>10

\* A valid HttpOnly cookie changes only with a response from its host: no
\* script's write and no other step of the network touches it.
THEOREM HttpOnlyStays == Spec => HttpOnlyIsKept
<1>1. IInv /\ [Next]_vars => [HttpOnlyStep]_vars
  BY OnlyAnswersReplace
<1> QED
  BY <1>1, Inductive, PTL DEF Spec, HttpOnlyIsKept, HttpOnlyStep

=============================================================================
