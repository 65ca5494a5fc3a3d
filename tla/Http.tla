-------------------------------- MODULE Http --------------------------------
(***************************************************************************)
(* The HTTP side of a TaiNetwork (src/network.c): what a request sends at  *)
(* each hop of its redirects, what it leaves in the cookie jar and in the  *)
(* response cache, and how it is answered from there.                      *)
(*                                                                         *)
(* Two threads act.  The loader thread owns the network: it submits,       *)
(* polls, follows redirects and dispatches.  The SDL thread shares the jar *)
(* (TaiCookieJar, under its mutex): document.cookie of a page reads and    *)
(* writes it at any moment, also between the two halves of                 *)
(* complete_transfer, which takes the mutex once for Set-Cookie and once   *)
(* for the Cookie header of the next hop.                                  *)
(*                                                                         *)
(* Abstracted: bytes and text.  A cookie is what the code tests of it, a   *)
(* response its status and where it came from; the bodies' total size is   *)
(* a choice.  The order of dispatch among ready requests and which page a  *)
(* callback reaches are the business of PageLoads and XhrJobs.             *)
(***************************************************************************)
EXTENDS Naturals, FiniteSets

CONSTANTS
    HttpUrls,       \* http and https URLs, by their key
    LocalUrls,      \* about, data, mailto and file URLs
    HostOf,         \* the host of a URL, without its port; a local one has
                    \* none, or what was left of it when its parsing gave up
    OriginOf,       \* its scheme, host and port
    Requests,       \* what callers ask of tai_network_submit
    SetCookies,     \* the cookies servers and scripts set
    MaxAges,        \* the max-age values servers send
    Slots,          \* bound: requests listed at a time
    CacheLimit,     \* entries a cache may hold: 64
    RedirectLimit,  \* the redirect that fails a request: 10
    MaxNow,         \* bound on the clock
    Forever,        \* the life of a cookie without a valid expires
    None

Hosts == {HostOf[u] : u \in HttpUrls}
Policies == {"", "no-referrer", "same-origin"}

ASSUME HttpAssumption ==
    /\ HttpUrls \cap LocalUrls = {}
    /\ None \notin HttpUrls \cup LocalUrls \cup Hosts \cup Slots
    /\ DOMAIN HostOf = HttpUrls \cup LocalUrls
    /\ DOMAIN OriginOf = HttpUrls \cup LocalUrls
    /\ Requests \subseteq [url : HttpUrls \cup LocalUrls,
                           referrer : HttpUrls \cup LocalUrls \cup {None},
                           policy : Policies, payload : BOOLEAN,
                           origin : BOOLEAN, nested : BOOLEAN]
    /\ SetCookies \subseteq [httpOnly : BOOLEAN, lax : BOOLEAN,
                             life : Nat \cup {Forever}]
    /\ MaxAges \subseteq Nat
    /\ CacheLimit \in Nat \ {0} /\ RedirectLimit \in Nat \ {0}
    /\ MaxNow \in Nat /\ Forever \notin Nat

VARIABLES
    now,            \* time(NULL), on which cookies and responses expire
    jar,            \* TaiCookieJar: at most one cookie per host
    cache,          \* network->cache: its entries by URL
    req,            \* network->requests
    waiting,        \* the request tai_network_request_until waits for
    open            \* whether the network exists

vars == <<now, jar, cache, req, waiting, open>>

Times == 0..MaxNow
Cookies == [host : Hosts, httpOnly : BOOLEAN, lax : BOOLEAN,
            expires : Nat \cup {Forever}]

\* What a transfer ends with.  location: where a 3xx points, a URL that is
\* not HTTP(S) included; age: a usable max-age without no-store.
Answers ==
    [status : {"200", "other"}, location : {None}, age : MaxAges \cup {None}]
    \cup [status : {"3xx"}, location : HttpUrls \cup LocalUrls, age : {None}]

Responses == Answers \cup [since : Times, age : Nat] \cup {None}

\* A listed request, on one of its hops.
Hops == [phase : {"sent", "answered", "ready"}, ask : Requests,
         url : HttpUrls \cup {None}, redirects : 0..RedirectLimit,
         cookie : Cookies \cup {None},
         referer : HttpUrls \cup LocalUrls \cup {None}, response : Responses]
Free == [phase |-> "free"]

TypeOK ==
    /\ now \in Times
    /\ jar \in [Hosts -> Cookies \cup {None}]
    /\ \A u \in DOMAIN cache :
           /\ u \in HttpUrls
           /\ cache[u] \in [stored : Times, age : Nat, plain : BOOLEAN]
    /\ req \in [Slots -> Hops \cup {Free}]
    /\ waiting \in Slots \cup {None}
    /\ open \in BOOLEAN

Init ==
    /\ now = 0
    /\ jar = [h \in Hosts |-> None]
    /\ cache = [u \in {} |-> None]
    /\ req = [r \in Slots |-> Free]
    /\ waiting = None
    /\ open = TRUE

-----------------------------------------------------------------------------
(* The cookie jar.                                                         *)

Expired(cookie) == cookie.expires # Forever /\ cookie.expires <= now

\* cookie_valid: looking a host up drops its cookie once that has expired.
Valid(host) ==
    IF jar[host] # None /\ Expired(jar[host]) THEN None ELSE jar[host]
LookUp(host) == jar' = [jar EXCEPT ![host] = Valid(host)]

NewCookie(host, set) ==
    [host |-> host, httpOnly |-> set.httpOnly, lax |-> set.lax,
     expires |-> IF set.life = Forever THEN Forever ELSE now + set.life]

ScriptMayReplaceAny(host, set) == ~ set.httpOnly

\* A script neither replaces an HttpOnly cookie nor sets one.
ScriptMaySet(host, set) ==
    /\ ~ (Valid(host) # None /\ Valid(host).httpOnly)
    /\ ~ set.httpOnly

\* cookie_store: one cookie per host; one that is already expired removes it.
Store(host, set) ==
    jar' = [jar EXCEPT ![host] =
                IF Expired(NewCookie(host, set)) THEN None
                ELSE NewCookie(host, set)]

\* document.cookie = ..., on the SDL thread or in a script of a load.
ScriptSets(host, set) ==
    /\ IF ScriptMaySet(host, set) THEN Store(host, set) ELSE LookUp(host)
    /\ UNCHANGED <<now, cache, req, waiting, open>>

ScriptReads(host) ==
    /\ LookUp(host)
    /\ UNCHANGED <<now, cache, req, waiting, open>>

-----------------------------------------------------------------------------
(* One hop of a request.                                                   *)

\* A form or request with a body that another host's page sends, a local page
\* among them.
CrossHostPost(ask, url) ==
    ask.payload /\ ask.referrer # None /\ HostOf[ask.referrer] # HostOf[url]

CookieHeaderOfFirstHop(ask, url) ==
    LET cookie == Valid(HostOf[url])
    IN  IF cookie # None /\ ~ (cookie.lax /\ CrossHostPost(ask, ask.url))
        THEN cookie ELSE None

CookieHeader(ask, url) ==
    LET cookie == Valid(HostOf[url])
    IN  IF cookie # None /\ ~ (cookie.lax /\ CrossHostPost(ask, url))
        THEN cookie ELSE None

\* The page that asks is named only if it came over HTTP(S).
RefererHeader(ask, url) ==
    IF \/ ask.referrer \notin HttpUrls
       \/ ask.policy = "no-referrer"
       \/ ask.policy = "same-origin" /\ OriginOf[ask.referrer] # OriginOf[url]
    THEN None ELSE ask.referrer

Plain(ask) == ~ ask.payload /\ ~ ask.origin

FreshForever(url) == url \in DOMAIN cache

\* cache_find
Fresh(url) ==
    url \in DOMAIN cache /\ cache[url].stored + cache[url].age > now

Hop(phase, ask, url, redirects, cookie, referer, response) ==
    [phase |-> phase, ask |-> ask, url |-> url, redirects |-> redirects,
     cookie |-> cookie, referer |-> referer, response |-> response]

\* Of a request that is ready only a cached response is told apart: since when
\* it was kept, and for how long it may be.
Ready(r, ask, response) ==
    req' = [req EXCEPT ![r] =
                Hop("ready", ask, None, 0, None, None, response)]

\* start: a local URL and a cached response are ready at once, anything else
\* is sent with the headers of this hop.
Start(r, ask, url, redirects) ==
    \/ /\ url \in LocalUrls
       /\ Ready(r, ask, None)
       /\ UNCHANGED jar
    \/ /\ url \in HttpUrls
       /\ Plain(ask) /\ Fresh(url)
       /\ Ready(r, ask, [since |-> now - cache[url].stored,
                         age |-> cache[url].age])
       /\ UNCHANGED jar
    \/ /\ url \in HttpUrls
       /\ ~ (Plain(ask) /\ Fresh(url))
       /\ req' = [req EXCEPT ![r] =
                      Hop("sent", ask, url, redirects, CookieHeader(ask, url),
                          RefererHeader(ask, url), None)]
       /\ LookUp(HostOf[url])

\* The loader thread is in the middle of no complete_transfer.
Idle == \A r \in Slots : req[r].phase # "answered"

Submit(r, ask) ==
    /\ open /\ Idle /\ req[r].phase = "free"
    /\ Start(r, ask, ask.url, 0)
    /\ UNCHANGED <<now, cache, waiting, open>>

\* tai_network_request_until: submits the request it then waits for.
RequestUntil(r, ask) ==
    /\ open /\ Idle /\ req[r].phase = "free" /\ waiting = None
    /\ Start(r, ask, ask.url, 0)
    /\ waiting' = r
    /\ UNCHANGED <<now, cache, open>>

-----------------------------------------------------------------------------
(* Answers.                                                                *)

\* An error of libcurl, a limit of body_cb or header_cb, or a timeout.
TransferFails(r) ==
    /\ Idle /\ req[r].phase = "sent"
    /\ Ready(r, req[r].ask, None)
    /\ UNCHANGED <<now, jar, cache, waiting, open>>

\* complete_transfer, up to the jar_store of Set-Cookie.
Respond(r, answer) ==
    /\ Idle /\ req[r].phase = "sent"
    /\ \/ UNCHANGED jar
       \/ \E set \in SetCookies : Store(HostOf[req[r].url], set)
    /\ req' = [req EXCEPT
                 ![r] = Hop("answered", req[r].ask, req[r].url,
                            req[r].redirects, None, None, answer)]
    /\ UNCHANGED <<now, cache, waiting, open>>

TooManyRedirects(redirects) == redirects + 1 >= RedirectLimit

\* complete_transfer, the rest: a redirect ...
Redirect(r) ==
    LET q == req[r]
    IN  /\ q.phase = "answered" /\ q.response.status = "3xx"
        /\ \/ /\ \/ TooManyRedirects(q.redirects)
                 \/ q.response.location \notin HttpUrls
              /\ Ready(r, q.ask, None)
              /\ UNCHANGED jar
           \/ /\ ~ TooManyRedirects(q.redirects)
              /\ q.response.location \in HttpUrls
              /\ Start(r, q.ask, q.response.location, q.redirects + 1)
        /\ UNCHANGED <<now, cache, waiting, open>>

MayStore(q) ==
    Plain(q.ask) /\ q.response.status = "200" /\ q.response.age # None

\* cache_store: a cache over its limit is emptied before the entry goes in.
\* The new entry counts although it may replace one; full stands for the
\* limit on the bytes of all bodies.
Overflows(url) == Cardinality(DOMAIN cache) + 1 > CacheLimit

StoreResponse(q) ==
    \E full \in BOOLEAN :
        LET kept == IF full \/ Overflows(q.url) THEN {}
                    ELSE DOMAIN cache \ {q.url}
        IN  cache' = [u \in kept \cup {q.url} |->
                        IF u = q.url
                        THEN [stored |-> now, age |-> q.response.age,
                              plain |-> Plain(q.ask)]
                        ELSE cache[u]]

\* ... or the end of the request.
Complete(r) ==
    LET q == req[r]
    IN  /\ q.phase = "answered" /\ q.response.status # "3xx"
        /\ IF MayStore(q) THEN StoreResponse(q) ELSE UNCHANGED cache
        /\ Ready(r, q.ask, None)
        /\ UNCHANGED <<now, jar, waiting, open>>

\* dispatchable: a poll inside a wait leaves other pages' requests alone.
Dispatchable(r) ==
    /\ req[r].phase = "ready"
    /\ waiting = None \/ waiting = r \/ req[r].ask.nested

\* network_poll detaches the request and calls back, which also ends the
\* wait for it.
Dispatch(r) ==
    /\ Idle /\ Dispatchable(r)
    /\ req' = [req EXCEPT ![r] = Free]
    /\ waiting' = IF waiting = r THEN None ELSE waiting
    /\ UNCHANGED <<now, jar, cache, open>>

\* tai_network_cancel by the owner of the request.
Cancel(r) ==
    /\ Idle /\ req[r].phase \in {"sent", "ready"} /\ waiting # r
    /\ req' = [req EXCEPT ![r] = Free]
    /\ UNCHANGED <<now, jar, cache, waiting, open>>

\* The wait is cancelled by its service, reaches its deadline, or the poll
\* fails: the request goes with it.
GiveUp ==
    /\ Idle /\ waiting # None
    /\ req' = [req EXCEPT ![waiting] = Free]
    /\ waiting' = None
    /\ UNCHANGED <<now, jar, cache, open>>

\* tai_network_destroy calls nobody back; the jar is the application's.
Destroy ==
    /\ open /\ Idle /\ waiting = None
    /\ open' = FALSE
    /\ req' = [r \in Slots |-> Free]
    /\ cache' = [u \in {} |-> None]
    /\ UNCHANGED <<now, jar, waiting>>

Tick ==
    /\ now < MaxNow
    /\ now' = now + 1
    /\ UNCHANGED <<jar, cache, req, waiting, open>>

Transfer(r) ==
    \/ TransferFails(r)
    \/ \E answer \in Answers : Respond(r, answer)
    \/ Redirect(r)
    \/ Complete(r)

Next ==
    \/ \E host \in Hosts :
           ScriptReads(host) \/ \E set \in SetCookies : ScriptSets(host, set)
    \/ \E r \in Slots :
           \/ \E ask \in Requests : Submit(r, ask) \/ RequestUntil(r, ask)
           \/ Transfer(r) \/ Dispatch(r) \/ Cancel(r)
    \/ GiveUp \/ Destroy \/ Tick

Spec == Init /\ [][Next]_vars

-----------------------------------------------------------------------------
(* Properties.                                                             *)

\* The headers of a request in flight are those of the hop it is on, however
\* often it was redirected: the cookie is one the host it is sent to set, a
\* SameSite=lax cookie is in no cross-host post, a page that restricts its
\* referrer to its own origin is named to no other, and a file, data or about
\* page to nobody (start).
HeadersFitTheHop ==
    \A r \in Slots : req[r].phase = "sent" =>
        LET q == req[r]
        IN  /\ q.cookie # None =>
                 /\ q.cookie.host = HostOf[q.url]
                 /\ ~ (q.cookie.lax /\ CrossHostPost(q.ask, q.url))
            /\ q.referer # None =>
                 /\ q.referer \in HttpUrls
                 /\ q.ask.policy # "no-referrer"
                 /\ q.ask.policy = "same-origin" =>
                        OriginOf[q.referer] = OriginOf[q.url]

\* A response taken from the cache was kept for less than its max-age, both it
\* and the request it answers had neither body nor origin (cache_store,
\* cache_find), and the cache never holds more entries than its limit, which is
\* only looked at when a response is stored.
CacheIsSound ==
    /\ Cardinality(DOMAIN cache) <= CacheLimit
    /\ \A r \in Slots : req[r].phase = "ready" /\ req[r].response # None =>
           /\ req[r].response.since < req[r].response.age
           /\ Plain(req[r].ask)
    /\ \A u \in DOMAIN cache : cache[u].plain

\* As long as it is valid an HttpOnly cookie changes only with a response
\* from its host: a script cannot write it, whatever it wrote before and
\* whenever it writes (cookie_store under the jar's mutex).
HttpOnlyIsKept ==
    [][\A host \in Hosts :
          /\ jar[host] # None /\ ~ Expired(jar[host]) /\ jar[host].httpOnly
          /\ jar'[host] # jar[host]
          => \E r \in Slots : /\ req[r].phase = "sent"
                              /\ HostOf[req[r].url] = host
                              /\ req'[r].phase = "answered"]_vars

=============================================================================
