--------------------------- MODULE XhrJobsProofs ----------------------------
(***************************************************************************)
(* Proofs about XhrJobs, for every set of pages and any number of requests. *)
(*                                                                         *)
(* That a fetch is freed exactly once is not inductive: it rests on which  *)
(* list names it, on the order of the lists, on where its job is and on    *)
(* the stages in which either thread can still hand out a job.  IInv adds  *)
(* those facts.  What a step does to fetches is one of five things; each   *)
(* has its lemma, whichever thread does it.                                *)
(***************************************************************************)
EXTENDS XhrJobs, FiniteSetTheorems, TLAPS

-----------------------------------------------------------------------------
(* The inductive invariant.                                                *)

Listed(f) == \E p \in Pages : f \in Range(fetches[p])

\* page->fetches: a fetch is on one list and there once, in the order of sending.
ListInv ==
    /\ \A p \in Pages : \A i \in DOMAIN fetches[p] : fetches[p][i] < nextFetch
    /\ \A p, q \in Pages : \A i \in DOMAIN fetches[p], j \in DOMAIN fetches[q] :
           fetches[p][i] = fetches[q][j] => p = q /\ i = j

\* One TaiPageFetch: who counts as its holder, and what has happened to it.
FetchOK(f) ==
    /\ references[f] = (IF Listed(f) THEN 1 ELSE 0)
                       + (IF job[f] = "none" THEN 0 ELSE 1)
    /\ f >= nextFetch => /\ job[f] = "none" /\ ~ Listed(f)
                         /\ f \notin done /\ f \notin abandoned
                         /\ delivered[f] = 0
    /\ f < nextFetch => (f \in done <=> job[f] = "none")
    /\ Listed(f) => delivered[f] = 0 /\ f \notin abandoned
    /\ delivered[f] <= 1
    /\ delivered[f] = 1 => f \in done /\ f \notin abandoned
FetchInv == \A f \in Fetches : FetchOK(f)

Walks == [page : Pages, last : Fetches, slot : Nat, final : BOOLEAN]
Scripts == [page : Pages, from : {"start", "poll"}]

\* The page whose script the loader runs is still loading; the one whose
\* onloads the SDL thread runs is in a window.
PageInv ==
    /\ \A p \in Pages : where[p] \in {"unborn", "destroyed"} => fetches[p] = <<>>
    /\ pc \in {"script", "nested"} =>
           script \in Scripts /\ where[script.page] = "loader"
    /\ script # None => /\ pc \in {"script", "submit", "expire", "nested"}
                        /\ where[script.page] = "loader"
    /\ sdl \in {"walk", "callback"} =>
           walk \in Walks /\ where[walk.page] = "sdl" /\ walk.slot >= 1

\* Shutdown: who may still hand out a job, and what the loader has in hand.
StopInv ==
    /\ pc # "submit" => sync # "taken" /\ AsyncIn("taken") = {}
    /\ pc \in {"closing", "drain", "exited"} => stopping /\ Loading = {}
    /\ pc \in {"drain", "exited"} => xhrClosed
    /\ pc = "exited" => \A f \in Fetches : job[f] = "none"
    /\ sdl \in {"joining", "done"} <=> stopping
    /\ stopping => sync = "none" /\ \A p \in Pages : where[p] # "sdl"
    /\ sdl = "done" => /\ pc = "exited"
                       /\ \A p \in Pages : where[p] \in {"unborn", "destroyed"}


\* TypeOK in two: what TaiPageFetch steps change, and the rest.
FetchTypes ==
    /\ fetches \in [Pages -> Seq(Fetches)]
    /\ nextFetch \in 1..(MaxFetches + 1)
    /\ references \in [Fetches -> 0..2]
    /\ done \subseteq Fetches
    /\ abandoned \subseteq Fetches
    /\ delivered \in [Fetches -> Nat]
    /\ job \in [Fetches -> JobPlaces]
ThreadTypes ==
    /\ where \in [Pages ->
            {"unborn", "loader", "published", "sdl", "destroyed"}]
    /\ sync \in JobPlaces \cup {"done"}
    /\ syncs \in 0..MaxSyncs
    /\ late \subseteq Fetches \cup {None}
    /\ sdl \in {"idle", "walk", "callback", "joining", "done"}
    /\ walk \in Walks \cup {None}
    /\ pc \in {"wait", "service", "script", "submit", "expire", "nested",
               "poll", "reap", "check", "closing", "drain", "exited"}
    /\ script \in Scripts \cup {None}
    /\ stopping \in BOOLEAN
    /\ stopSeen \in BOOLEAN
    /\ xhrClosed \in BOOLEAN
    /\ networkFailed \in BOOLEAN

FetchPart == FetchTypes /\ ListInv /\ FetchInv

IInv ==
    /\ FetchPart
    /\ ThreadTypes
    /\ PageInv
    /\ WalkStaysOnList
    /\ StopInv

LEMMA TypeParts == TypeOK <=> FetchTypes /\ ThreadTypes
  BY Zenon DEF TypeOK, FetchTypes, ThreadTypes, Walks, Scripts

-----------------------------------------------------------------------------
(* Sequences.                                                              *)

LEMMA RemoveAtElements ==
    ASSUME NEW S, NEW s \in Seq(S), NEW n \in 1..Len(s)
    PROVE  /\ RemoveAt(s, n) \in Seq(S)
           /\ Len(RemoveAt(s, n)) = Len(s) - 1
           /\ \A i \in 1..(Len(s) - 1) :
                  RemoveAt(s, n)[i] = IF i < n THEN s[i] ELSE s[i + 1]
  <1> DEFINE a == SubSeq(s, 1, n - 1)
             b == SubSeq(s, n + 1, Len(s))
  <1>1. /\ a \in Seq(S) /\ Len(a) = n - 1
        /\ \A i \in 1..(n - 1) : a[i] = s[i]
    OBVIOUS
  <1>2. b \in Seq(S) /\ Len(b) = Len(s) - n
    OBVIOUS
  <1>3. ASSUME NEW i \in 1..(Len(s) - n) PROVE b[i] = s[n + i]
    OBVIOUS
  <1>4. RemoveAt(s, n) = a \o b
    BY DEF RemoveAt
  <1> HIDE DEF a, b
  <1>5. (a \o b) \in Seq(S) /\ Len(a \o b) = Len(s) - 1
    BY <1>1, <1>2
  <1>6. ASSUME NEW i \in 1..(Len(s) - 1)
        PROVE  (a \o b)[i] = IF i < n THEN s[i] ELSE s[i + 1]
    <2>1. CASE i < n
      BY <1>1, <1>2, <2>1
    <2>2. CASE ~ (i < n)
      <3>1. /\ i - (n - 1) \in 1..(Len(s) - n)
            /\ n + (i - (n - 1)) = i + 1
        BY <2>2
      <3>2. (a \o b)[i] = b[i - (n - 1)]
        <4>1. i \in 1..(Len(a) + Len(b)) /\ i > Len(a)
          BY <1>1, <1>2, <2>2
        <4>2. (a \o b)[i] = b[i - Len(a)]
          BY <1>1, <1>2, <4>1
        <4> QED
          BY <1>1, <4>2
      <3> QED
        BY <1>3, <2>2, <3>1, <3>2
    <2> QED
      BY <2>1, <2>2
  <1> QED
    BY <1>4, <1>5, <1>6

\* In terms of elements, for a sequence without duplicates.
LEMMA RemoveAtRange ==
    ASSUME NEW S, NEW s \in Seq(S), NEW n \in 1..Len(s),
           \A i, j \in 1..Len(s) : s[i] = s[j] => i = j
    PROVE  Range(RemoveAt(s, n)) = Range(s) \ {s[n]}
  <1> DEFINE r == RemoveAt(s, n)
  <1>1. /\ r \in Seq(S) /\ Len(r) = Len(s) - 1
        /\ \A i \in 1..(Len(s) - 1) : r[i] = IF i < n THEN s[i] ELSE s[i + 1]
    BY RemoveAtElements
  <1> HIDE DEF r
  <1>2. DOMAIN r = 1..(Len(s) - 1) /\ DOMAIN s = 1..Len(s)
    BY <1>1
  <1>3. ASSUME NEW x \in Range(r) PROVE x \in Range(s) \ {s[n]}
    <2>1. PICK i \in 1..(Len(s) - 1) : x = r[i]
      BY <1>2 DEF Range
    <2>2. PICK k \in 1..Len(s) : x = s[k] /\ k # n
      BY <1>1, <2>1
    <2> QED
      BY <1>2, <2>2 DEF Range
  <1>4. ASSUME NEW x \in Range(s) \ {s[n]} PROVE x \in Range(r)
    <2>1. PICK k \in 1..Len(s) : x = s[k] /\ k # n
      BY <1>2 DEF Range
    <2>2. CASE k < n
      BY <1>1, <1>2, <2>1, <2>2 DEF Range
    <2>3. CASE k > n
      <3>1. k - 1 \in 1..(Len(s) - 1) /\ r[k - 1] = s[k]
        BY <1>1, <2>3
      <3> QED
        BY <1>2, <2>1, <3>1 DEF Range
    <2> QED
      BY <2>1, <2>2, <2>3
  <1> QED
    BY <1>3, <1>4 DEF r

LEMMA AppendRange ==
    ASSUME NEW S, NEW s \in Seq(S), NEW x
    PROVE  /\ Range(Append(s, x)) = Range(s) \cup {x}
           /\ Len(Append(s, x)) = Len(s) + 1
           /\ \A i \in 1..Len(s) : Append(s, x)[i] = s[i]
           /\ Append(s, x)[Len(s) + 1] = x
  <1> DEFINE r == Append(s, x)
  <1>1. /\ Len(r) = Len(s) + 1 /\ DOMAIN r = 1..(Len(s) + 1)
        /\ DOMAIN s = 1..Len(s)
        /\ \A i \in 1..Len(s) : r[i] = s[i]
        /\ r[Len(s) + 1] = x
    OBVIOUS
  <1> HIDE DEF r
  <1>2. Len(s) \in Nat
    OBVIOUS
  <1>3. Range(r) = Range(s) \cup {x}
    BY <1>1, <1>2 DEF Range
  <1> QED
    BY <1>1, <1>3 DEF r

-----------------------------------------------------------------------------
(* The five things a step does to fetches.                                 *)

\* Jobs move between the loader's queues and the network.
LEMMA JobsMove ==
    ASSUME FetchPart, UNCHANGED <<fetches, fetchVars, delivered>>,
           job' \in [Fetches -> JobPlaces],
           \A f \in Fetches : job'[f] = "none" <=> job[f] = "none"
    PROVE  FetchPart'
  <1>1. FetchTypes'
    BY DEF FetchPart, FetchTypes, fetchVars
  <1>2. ListInv'
    BY DEF FetchPart, ListInv, fetchVars
  <1>3. FetchInv'
    BY DEF FetchPart, FetchInv, FetchOK, Listed, fetchVars
  <1> QED
    BY <1>1, <1>2, <1>3 DEF FetchPart

\* tai_page_fetch_finish: the jobs of some fetches end.
LEMMA JobsEnd ==
    ASSUME FetchPart, NEW ended \in SUBSET Fetches, Finish(ended),
           UNCHANGED <<fetches, nextFetch, abandoned, delivered>>,
           \A f \in ended : job[f] # "none",
           job' \in [Fetches -> JobPlaces],
           \A f \in Fetches :
               job'[f] = "none" <=> job[f] = "none" \/ f \in ended
    PROVE  FetchPart'
  <1>1. ListInv'
    BY DEF FetchPart, ListInv
  <1>2. \A f \in Fetches : Listed(f)' <=> Listed(f)
    BY DEF Listed
  <1>3. ASSUME NEW f \in Fetches
        PROVE  /\ FetchOK(f)'
               /\ references'[f] \in 0..2
    <2>1. FetchOK(f)
      BY DEF FetchPart, FetchInv
    <2>2. references'[f] = IF f \in ended THEN references[f] - 1
                                          ELSE references[f]
      BY DEF Finish
    <2>3. f \in done' <=> f \in done \/ f \in ended
      BY DEF Finish
    <2>4. references'[f] = (IF Listed(f) THEN 1 ELSE 0)
                           + (IF job'[f] = "none" THEN 0 ELSE 1)
      BY <2>1, <2>2 DEF FetchOK
    <2>5. nextFetch \in Nat /\ f \in Nat
      BY XhrAssumption DEF FetchPart, FetchTypes, Fetches
    <2> QED
      BY <1>2, <2>1, <2>3, <2>4, <2>5 DEF FetchOK
  <1>4. FetchTypes'
    BY <1>3 DEF FetchPart, FetchTypes, Finish
  <1> QED
    BY <1>1, <1>3, <1>4 DEF FetchPart, FetchInv

\* page_xhr_start: a new fetch of p, which its owner took or not.
LEMMA FetchStarts ==
    ASSUME FetchPart, NEW p \in Pages, NEW place \in JobPlaces \ {"none"},
           NEW accepted \in BOOLEAN, StartFetch(p, place, accepted),
           UNCHANGED delivered
    PROVE  FetchPart'
  <1> USE XhrAssumption
  <1> DEFINE new == nextFetch
  <1>1. /\ fetches \in [Pages -> Seq(Fetches)] /\ new \in Fetches
        /\ Fetches \subseteq Nat /\ nextFetch' = new + 1
        /\ fetches' = [fetches EXCEPT ![p] = Append(@, new)]
    BY DEF FetchPart, FetchTypes, StartFetch, Fetches
  <1>2. fetches' \in [Pages -> Seq(Fetches)]
    BY <1>1
  <1>3. \A q \in Pages : Range(fetches'[q]) =
            IF q = p THEN Range(fetches[q]) \cup {new} ELSE Range(fetches[q])
    <2>1. Range(Append(fetches[p], new)) = Range(fetches[p]) \cup {new}
      BY <1>1, AppendRange
    <2>2. \A q \in Pages : fetches'[q] =
              IF q = p THEN Append(fetches[p], new) ELSE fetches[q]
      BY <1>1
    <2> QED
      BY <2>1, <2>2
  <1>4. \A f \in Fetches : Listed(f)' <=> Listed(f) \/ f = new
    BY <1>3 DEF Listed
  <1>5. ListInv'
    <2>1. /\ DOMAIN fetches[p] = 1..Len(fetches[p])
          /\ Len(fetches[p]) \in Nat
          /\ DOMAIN fetches'[p] = 1..(Len(fetches[p]) + 1)
          /\ \A i \in DOMAIN fetches[p] : fetches'[p][i] = fetches[p][i]
          /\ fetches'[p][Len(fetches[p]) + 1] = new
      BY <1>1, AppendRange
    <2>2. \A q \in Pages \ {p} : fetches'[q] = fetches[q]
      BY <1>1
    <2>3. \A q \in Pages : \A i \in DOMAIN fetches'[q] :
              \/ i \in DOMAIN fetches[q] /\ fetches'[q][i] = fetches[q][i]
              \/ q = p /\ i = Len(fetches[p]) + 1 /\ fetches'[q][i] = new
      BY <2>1, <2>2
    <2>4. \A q \in Pages : \A i \in DOMAIN fetches[q] :
              fetches[q][i] \in Nat /\ fetches[q][i] < new
      <3>1. \A q \in Pages : \A i \in DOMAIN fetches[q] : fetches[q][i] \in Fetches
        BY <1>1
      <3> QED
        BY <1>1, <3>1 DEF FetchPart, ListInv
    <2>5. \A q \in Pages : \A i \in DOMAIN fetches'[q] :
              fetches'[q][i] < nextFetch'
      BY <1>1, <2>3, <2>4
    <2>6. ASSUME NEW q \in Pages, NEW r \in Pages,
                 NEW i \in DOMAIN fetches'[q], NEW j \in DOMAIN fetches'[r],
                 fetches'[q][i] = fetches'[r][j]
          PROVE  q = r /\ i = j
      BY <1>1, <2>3, <2>4, <2>6 DEF FetchPart, ListInv
    <2> QED
      BY <2>5, <2>6 DEF ListInv
  <1>6. ASSUME NEW f \in Fetches
        PROVE  FetchOK(f)' /\ references'[f] \in 0..2
    <2>1. FetchOK(f) /\ f \in Nat
      BY <1>1 DEF FetchPart, FetchInv
    <2>2. /\ references'[f] = IF f = new THEN IF accepted THEN 2 ELSE 1
                                         ELSE references[f]
          /\ f \in done' <=> f \in done \/ (f = new /\ ~accepted)
          /\ job'[f] = IF f = new THEN IF accepted THEN place ELSE "none"
                                  ELSE job[f]
          /\ abandoned' = abandoned
      BY <1>1 DEF FetchPart, FetchTypes, StartFetch
    <2>3. CASE f = new
      BY <1>1, <1>4, <2>1, <2>2, <2>3 DEF FetchOK
    <2>4. CASE f # new
      <3>1. (f >= nextFetch' => f >= nextFetch)
            /\ (f < nextFetch' => f < nextFetch)
        BY <1>1, <2>1, <2>4
      <3>2. FetchOK(f)'
        BY <1>4, <2>1, <2>2, <2>4, <3>1 DEF FetchOK
      <3> QED
        BY <2>1, <2>2, <2>4, <3>2 DEF FetchPart, FetchTypes
    <2> QED
      BY <2>3, <2>4
  <1>7. FetchTypes'
    <2>1. nextFetch' \in 1..(MaxFetches + 1)
      BY <1>1 DEF Fetches
    <2>2. job' \in [Fetches -> JobPlaces]
      BY DEF FetchPart, FetchTypes, StartFetch, JobPlaces
    <2>3. references' \in [Fetches -> 0..2]
      BY DEF FetchPart, FetchTypes, StartFetch
    <2> QED
      BY <1>1, <1>2, <2>1, <2>2, <2>3 DEF FetchPart, FetchTypes, StartFetch
  <1> QED
    BY <1>5, <1>6, <1>7 DEF FetchPart, FetchInv

\* tai_page_destroy: pages let go of their fetches.
LEMMA PagesLetGo ==
    ASSUME FetchPart, NEW pages \in SUBSET Pages, NEW published,
           LetGo(pages, published), UNCHANGED <<nextFetch, done, delivered, job>>
    PROVE  FetchPart'
  <1> DEFINE gone == UNION {Range(fetches[p]) : p \in pages}
  <1>1. /\ fetches \in [Pages -> Seq(Fetches)]
        /\ \A p \in Pages : fetches'[p] = IF p \in pages THEN <<>> ELSE fetches[p]
    BY DEF FetchPart, FetchTypes, LetGo
  <1>2. fetches' \in [Pages -> Seq(Fetches)]
    BY <1>1 DEF LetGo
  <1>3. \A p \in pages : DOMAIN fetches'[p] = {} /\ Range(fetches'[p]) = {}
    BY <1>1 DEF Range
  <1>4. ListInv'
    BY <1>1, <1>3 DEF FetchPart, ListInv
  <1>5. ASSUME NEW p \in Pages, NEW q \in Pages, NEW f \in Fetches,
               f \in Range(fetches[p]), f \in Range(fetches[q])
        PROVE  p = q
    BY <1>5 DEF FetchPart, ListInv, Range
  <1>6. ASSUME NEW f \in Fetches
        PROVE  /\ f \in gone => Listed(f)
               /\ Listed(f)' <=> Listed(f) /\ f \notin gone
    BY <1>1, <1>3, <1>5 DEF Listed
  <1>7. gone \subseteq Fetches
    BY <1>1 DEF Range
  <1>8. ASSUME NEW f \in Fetches
        PROVE  FetchOK(f)' /\ references'[f] \in 0..2
    <2>1. FetchOK(f)
      BY DEF FetchPart, FetchInv
    <2>2. references'[f] = IF f \in gone THEN references[f] - 1
                                         ELSE references[f]
      BY DEF LetGo
    <2>3. f \in abandoned' <=> f \in abandoned \/ f \in gone
      BY DEF LetGo
    <2> HIDE DEF gone
    <2>4. references'[f] = (IF Listed(f)' THEN 1 ELSE 0)
                           + (IF job[f] = "none" THEN 0 ELSE 1)
      BY <1>6, <2>1, <2>2 DEF FetchOK
    <2> QED
      BY <1>6, <2>1, <2>3, <2>4 DEF FetchOK
  <1>9. FetchTypes'
    <2>1. references' \in [Fetches -> 0..2]
      BY <1>8 DEF LetGo
    <2> QED
      BY <1>2, <1>7, <2>1 DEF FetchPart, FetchTypes, LetGo
  <1> QED
    BY <1>4, <1>8, <1>9 DEF FetchPart, FetchInv

\* tai_page_run_tasks takes a fetch that is done off its list and answers it.
LEMMA FetchDelivered ==
    ASSUME FetchPart, NEW p \in Pages, NEW n \in 1..Len(fetches[p]),
           fetches[p][n] \in done,
           fetches' = [fetches EXCEPT ![p] = RemoveAt(@, n)],
           delivered' = [delivered EXCEPT ![fetches[p][n]] = @ + 1],
           references' = [references EXCEPT ![fetches[p][n]] = @ - 1],
           UNCHANGED <<nextFetch, done, abandoned, job>>
    PROVE  FetchPart'
  <1> USE XhrAssumption
  <1> DEFINE out == fetches[p][n]
  <1>1. /\ fetches \in [Pages -> Seq(Fetches)]
        /\ DOMAIN fetches[p] = 1..Len(fetches[p]) /\ Len(fetches[p]) \in Nat
        /\ out \in Fetches /\ Fetches \subseteq Nat
    BY DEF FetchPart, FetchTypes, Fetches
  <1>2. /\ RemoveAt(fetches[p], n) \in Seq(Fetches)
        /\ Len(RemoveAt(fetches[p], n)) = Len(fetches[p]) - 1
        /\ \A i \in 1..(Len(fetches[p]) - 1) : RemoveAt(fetches[p], n)[i] =
               IF i < n THEN fetches[p][i] ELSE fetches[p][i + 1]
        /\ Range(RemoveAt(fetches[p], n)) = Range(fetches[p]) \ {out}
    <2>1. \A i, j \in 1..Len(fetches[p]) :
              fetches[p][i] = fetches[p][j] => i = j
      BY <1>1 DEF FetchPart, ListInv
    <2>2. fetches[p] \in Seq(Fetches)
      BY <1>1
    <2>3. Range(RemoveAt(fetches[p], n)) = Range(fetches[p]) \ {out}
      BY <2>1, <2>2, RemoveAtRange, Zenon
    <2> QED
      BY <2>2, <2>3, RemoveAtElements, Zenon
  <1>3. \A q \in Pages : fetches'[q] =
            IF q = p THEN RemoveAt(fetches[p], n) ELSE fetches[q]
    BY <1>1
  <1>4. fetches' \in [Pages -> Seq(Fetches)]
    BY <1>1, <1>2
  <1>5. ASSUME NEW q \in Pages, out \in Range(fetches[q]) PROVE q = p
    BY <1>1, <1>5 DEF FetchPart, ListInv, Range
  <1>6. \A f \in Fetches : Listed(f)' <=> Listed(f) /\ f # out
    BY <1>2, <1>3, <1>5 DEF Listed
  <1>7. Listed(out)
    BY <1>1 DEF Listed, Range
  <1>8. ListInv'
    <2>1. DOMAIN fetches'[p] = 1..(Len(fetches[p]) - 1)
      BY <1>2, <1>3
    <2>2. ASSUME NEW q \in Pages, NEW i \in DOMAIN fetches'[q]
          PROVE  \E k \in DOMAIN fetches[q] :
                     /\ fetches'[q][i] = fetches[q][k]
                     /\ k = IF q = p /\ ~ (i < n) THEN i + 1 ELSE i
      BY <1>1, <1>2, <1>3, <2>1
    <2>3. \A q \in Pages : \A i \in DOMAIN fetches'[q] : i \in Nat
      BY <1>4
    <2>4. \A q \in Pages : \A i \in DOMAIN fetches'[q] :
              fetches'[q][i] < nextFetch'
      BY <2>2 DEF FetchPart, ListInv
    <2>5. ASSUME NEW q \in Pages, NEW r \in Pages,
                 NEW i \in DOMAIN fetches'[q], NEW j \in DOMAIN fetches'[r],
                 fetches'[q][i] = fetches'[r][j]
          PROVE  q = r /\ i = j
      <3>1. PICK k \in DOMAIN fetches[q] :
                /\ fetches'[q][i] = fetches[q][k]
                /\ k = IF q = p /\ ~ (i < n) THEN i + 1 ELSE i
        BY <2>2
      <3>2. PICK l \in DOMAIN fetches[r] :
                /\ fetches'[r][j] = fetches[r][l]
                /\ l = IF r = p /\ ~ (j < n) THEN j + 1 ELSE j
        BY <2>2
      <3>3. q = r /\ k = l
        BY <2>5, <3>1, <3>2 DEF FetchPart, ListInv
      <3> QED
        BY <2>3, <3>1, <3>2, <3>3
    <2> QED
      BY <2>4, <2>5 DEF ListInv
  <1>9. ASSUME NEW f \in Fetches
        PROVE  /\ FetchOK(f)' /\ references'[f] \in 0..2
               /\ delivered'[f] \in Nat
    <2>1. FetchOK(f) /\ delivered[f] \in Nat /\ nextFetch \in Nat
      BY DEF FetchPart, FetchInv, FetchTypes
    <2>2. /\ references'[f] = IF f = out THEN references[f] - 1
                                         ELSE references[f]
          /\ delivered'[f] = IF f = out THEN delivered[f] + 1 ELSE delivered[f]
      BY <1>1 DEF FetchPart, FetchTypes
    <2> HIDE DEF out
    <2>3. references'[f] = (IF Listed(f)' THEN 1 ELSE 0)
                           + (IF job[f] = "none" THEN 0 ELSE 1)
      BY <1>6, <1>7, <2>1, <2>2 DEF FetchOK
    <2>4. CASE f = out
      BY <1>1, <1>6, <1>7, <2>1, <2>2, <2>3, <2>4 DEF FetchOK, out
    <2>5. CASE f # out
      BY <1>6, <2>1, <2>2, <2>3, <2>5 DEF FetchOK
    <2> QED
      BY <2>4, <2>5, <2>3, <2>1, <2>2
  <1>10. FetchTypes'
    <2>1. references' \in [Fetches -> 0..2] /\ delivered' \in [Fetches -> Nat]
      BY <1>9 DEF FetchPart, FetchTypes
    <2> QED
      BY <1>4, <2>1 DEF FetchPart, FetchTypes
  <1> QED
    BY <1>8, <1>9, <1>10 DEF FetchPart, FetchInv

-----------------------------------------------------------------------------
(* The steps of the SDL thread.                                            *)

LEMMA InitInv == Init => IInv
  <1> SUFFICES ASSUME Init PROVE IInv
    OBVIOUS
  <1> USE XhrAssumption DEF Init
  <1>1. \A p \in Pages : DOMAIN fetches[p] = {} /\ Range(fetches[p]) = {}
    BY DEF Range
  <1>2. FetchTypes
    BY DEF FetchTypes, Fetches, JobPlaces
  <1>3. ListInv
    BY <1>1 DEF ListInv
  <1>4. FetchInv
    BY <1>1 DEF FetchInv, FetchOK, Listed, Fetches
  <1>5. ThreadTypes
    <2>1. syncs \in 0..MaxSyncs /\ late \subseteq Fetches \cup {None}
      OBVIOUS
    <2>2. sync \in JobPlaces \cup {"done"}
      BY DEF JobPlaces
    <2>3. where \in [Pages ->
              {"unborn", "loader", "published", "sdl", "destroyed"}]
      OBVIOUS
    <2> QED
      BY <2>1, <2>2, <2>3, Zenon DEF ThreadTypes
  <1>6. PageInv /\ WalkStaysOnList
    BY DEF PageInv, WalkStaysOnList
  <1>7. StopInv
    BY DEF StopInv, AsyncIn
  <1> QED
    BY <1>2, <1>3, <1>4, <1>5, <1>6, <1>7 DEF IInv, FetchPart

\* A step that touches no fetch and no job of one.
LEMMA QuietFetches ==
    ASSUME FetchPart, UNCHANGED <<fetches, fetchVars, delivered, job>>
    PROVE  FetchPart'
  BY JobsMove DEF FetchPart, FetchTypes

\* Onloads send more requests, behind the last one the walk goes to.
LEMMA WalkSurvivesSending ==
    ASSUME IInv, NEW p \in Pages, NEW place, NEW accepted,
           StartFetch(p, place, accepted), UNCHANGED sdlVars
    PROVE  WalkStaysOnList'
  <1> SUFFICES ASSUME sdl = "walk" \/ (sdl = "callback" /\ ~walk.final)
               PROVE  \E i \in DOMAIN fetches'[walk.page] :
                          i >= walk.slot /\ fetches'[walk.page][i] = walk.last
    BY DEF WalkStaysOnList, sdlVars
  <1>1. walk.page \in Pages
    BY DEF IInv, PageInv, Walks
  <1>2. PICK i \in DOMAIN fetches[walk.page] :
            i >= walk.slot /\ fetches[walk.page][i] = walk.last
    BY DEF IInv, WalkStaysOnList
  <1>3. fetches[p] \in Seq(Fetches) /\ fetches \in [Pages -> Seq(Fetches)]
    BY DEF IInv, FetchPart, FetchTypes
  <1>4. /\ DOMAIN fetches[p] = 1..Len(fetches[p]) /\ Len(fetches[p]) \in Nat
        /\ DOMAIN Append(fetches[p], nextFetch) = 1..(Len(fetches[p]) + 1)
        /\ \A j \in 1..Len(fetches[p]) :
               Append(fetches[p], nextFetch)[j] = fetches[p][j]
    BY <1>3, AppendRange
  <1>5. fetches'[walk.page] = IF walk.page = p THEN Append(fetches[p], nextFetch)
                                               ELSE fetches[walk.page]
    BY <1>1, <1>3 DEF StartFetch
  <1>6. i \in DOMAIN fetches'[walk.page]
        /\ fetches'[walk.page][i] = fetches[walk.page][i]
    BY <1>2, <1>4, <1>5
  <1> QED
    BY <1>2, <1>6

LEMMA SendAsyncInv ==
    ASSUME IInv, NEW p \in Pages, SendAsync(p)
    PROVE  IInv'
  <1>1. PICK accepted \in BOOLEAN : /\ accepted => ~stopping /\ ~xhrClosed
                                    /\ StartFetch(p, "queued", accepted)
    BY DEF SendAsync
  <1>2. UNCHANGED <<where, delivered, sync, syncs, late, sdlVars, loaderVars,
                    appVars>>
    BY DEF SendAsync
  <1> USE XhrAssumption DEF IInv, sdlVars, loaderVars, appVars
  <1>3. FetchPart'
    BY <1>1, <1>2, FetchStarts DEF JobPlaces
  <1>4. ThreadTypes'
    BY <1>2 DEF ThreadTypes
  <1>5. PageInv'
    BY <1>1, <1>2 DEF PageInv, SendAsync, RunsScript, StartFetch
  <1>6. WalkStaysOnList'
    BY <1>1, <1>2, WalkSurvivesSending
  <1>7. StopInv'
    BY <1>1, <1>2 DEF StopInv, StartFetch, AsyncIn, Loading, FetchPart, FetchTypes
  <1> QED
    BY <1>3, <1>4, <1>5, <1>6, <1>7

LEMMA SendSyncInv ==
    ASSUME IInv, NEW p \in Pages, SendSync(p)
    PROVE  IInv'
  <1> USE XhrAssumption DEF IInv, SendSync, pageVars, fetchVars, sdlVars,
                            loaderVars, appVars
  <1>1. FetchPart'
    BY QuietFetches
  <1>2. ThreadTypes'
    BY DEF ThreadTypes, JobPlaces
  <1>3. PageInv' /\ WalkStaysOnList'
    BY DEF PageInv, WalkStaysOnList
  <1>4. StopInv'
    BY DEF StopInv, AsyncIn, Loading, RunsScript
  <1> QED
    BY <1>1, <1>2, <1>3, <1>4

LEMMA ReturnSyncInv ==
    ASSUME IInv, ReturnSync
    PROVE  IInv'
  <1> USE XhrAssumption DEF IInv, ReturnSync, pageVars, fetchVars, sdlVars,
                            loaderVars, appVars
  <1>1. FetchPart'
    BY QuietFetches
  <1>2. ThreadTypes'
    BY DEF ThreadTypes, JobPlaces
  <1>3. PageInv' /\ WalkStaysOnList'
    BY DEF PageInv, WalkStaysOnList
  <1>4. StopInv'
    BY DEF StopInv, AsyncIn, Loading
  <1> QED
    BY <1>1, <1>2, <1>3, <1>4

LEMMA RunTasksInv ==
    ASSUME IInv, NEW p \in Pages, RunTasks(p)
    PROVE  IInv'
  <1> USE XhrAssumption DEF IInv, RunTasks, pageVars, fetchVars, jobVars,
                            loaderVars, appVars
  <1>1. FetchPart'
    BY QuietFetches
  <1>2. /\ Len(fetches[p]) \in Nat /\ DOMAIN fetches[p] = 1..Len(fetches[p])
        /\ Len(fetches[p]) > 0 /\ Last(fetches[p]) \in Fetches
        /\ fetches[p][Len(fetches[p])] = Last(fetches[p])
    <2>1. fetches[p] \in Seq(Fetches)
      BY DEF FetchPart, FetchTypes
    <2>2. DOMAIN fetches[p] # {}
      BY DEF Range
    <2> QED
      BY <2>1, <2>2 DEF Last
  <1>7. walk' \in Walks /\ walk'.page = p /\ walk'.slot = 1
    BY <1>2 DEF Walks
  <1>3. ThreadTypes'
    BY <1>7 DEF ThreadTypes
  <1>4. PageInv'
    BY <1>7 DEF PageInv
  <1>5. WalkStaysOnList'
    BY <1>2 DEF WalkStaysOnList
  <1>6. StopInv'
    BY DEF StopInv, AsyncIn, Loading
  <1> QED
    BY <1>1, <1>3, <1>4, <1>5, <1>6

\* What the walk is looking at.
LEMMA WalkSlot ==
    ASSUME IInv, sdl \in {"walk", "callback"}
    PROVE  /\ walk.page \in Pages /\ walk.slot \in Nat /\ walk.slot >= 1
           /\ fetches[walk.page] \in Seq(Fetches)
           /\ sdl = "walk" => walk.slot \in 1..Len(fetches[walk.page])
  <1>1. walk.page \in Pages /\ walk.slot \in Nat /\ walk.slot >= 1
    BY DEF IInv, PageInv, Walks
  <1>2. fetches[walk.page] \in Seq(Fetches)
    BY <1>1 DEF IInv, FetchPart, FetchTypes
  <1>3. ASSUME sdl = "walk"
        PROVE  walk.slot \in 1..Len(fetches[walk.page])
    <2>1. PICK i \in DOMAIN fetches[walk.page] : i >= walk.slot
      BY <1>3 DEF IInv, WalkStaysOnList
    <2> QED
      BY <1>1, <1>2, <2>1
  <1> QED
    BY <1>1, <1>2, <1>3

LEMMA SkipFetchInv ==
    ASSUME IInv, SkipFetch
    PROVE  IInv'
  <1> USE XhrAssumption DEF IInv, SkipFetch, pageVars, fetchVars, jobVars,
                            loaderVars, appVars
  <1> DEFINE fetch == fetches[walk.page][walk.slot]
  <1>1. FetchPart'
    BY QuietFetches
  <1>2. CASE IsFinal(fetch) /\ sdl' = "idle" /\ walk' = None
    <2>1. ThreadTypes'
      BY <1>2 DEF ThreadTypes
    <2>2. PageInv' /\ WalkStaysOnList'
      BY <1>2 DEF PageInv, WalkStaysOnList
    <2>3. StopInv'
      BY <1>2 DEF StopInv, AsyncIn, Loading
    <2> QED
      BY <1>1, <2>1, <2>2, <2>3
  <1>3. CASE /\ ~IsFinal(fetch)
             /\ walk' = [walk EXCEPT !.slot = @ + 1]
             /\ UNCHANGED sdl
    <2>1. /\ walk.page \in Pages /\ walk.slot \in Nat /\ walk.slot >= 1
          /\ fetches[walk.page] \in Seq(Fetches)
      BY WalkSlot
    <2>2. /\ walk' \in Walks /\ walk'.page = walk.page
          /\ walk'.slot = walk.slot + 1 /\ walk'.last = walk.last
      BY <1>3, <2>1 DEF PageInv, Walks
    <2>3. ThreadTypes'
      BY <1>3, <2>2 DEF ThreadTypes
    <2>4. PageInv'
      BY <1>3, <2>1, <2>2 DEF PageInv
    <2>5. WalkStaysOnList'
      <3>1. PICK i \in DOMAIN fetches[walk.page] :
                i >= walk.slot /\ fetches[walk.page][i] = walk.last
        BY DEF WalkStaysOnList
      <3>2. i # walk.slot
        BY <1>3, <3>1 DEF IsFinal
      <3>3. i >= walk.slot + 1
        BY <2>1, <3>1, <3>2
      <3> QED
        BY <2>2, <3>1, <3>3 DEF WalkStaysOnList
    <2>6. StopInv'
      BY <1>3 DEF StopInv, AsyncIn, Loading
    <2> QED
      BY <1>1, <2>3, <2>4, <2>5, <2>6
  <1> QED
    BY <1>2, <1>3

LEMMA DeliverFetchInv ==
    ASSUME IInv, DeliverFetch
    PROVE  IInv'
  <1> DEFINE page == walk.page
             slot == walk.slot
             fetch == fetches[page][slot]
  <1>1. /\ page \in Pages /\ slot \in 1..Len(fetches[page])
        /\ fetches[page] \in Seq(Fetches) /\ fetches \in [Pages -> Seq(Fetches)]
    BY WalkSlot DEF DeliverFetch, IInv, FetchPart, FetchTypes
  <1>2. /\ fetch \in done
        /\ walk' = [walk EXCEPT !.final = IsFinal(fetch)]
        /\ fetches' = [fetches EXCEPT ![page] = RemoveAt(@, slot)]
        /\ delivered' = [delivered EXCEPT ![fetch] = @ + 1]
        /\ references' = [references EXCEPT ![fetch] = @ - 1]
        /\ sdl = "walk" /\ sdl' = "callback"
        /\ UNCHANGED <<where, nextFetch, done, abandoned, jobVars, loaderVars,
                       appVars>>
    BY DEF DeliverFetch
  <1> USE XhrAssumption DEF IInv, jobVars, loaderVars, appVars
  <1>3. FetchPart'
    BY <1>1, <1>2, FetchDelivered
  <1>4. /\ walk' \in Walks /\ walk'.page = page /\ walk'.slot = slot
        /\ walk'.last = walk.last /\ walk'.final = (fetch = walk.last)
    BY <1>2 DEF PageInv, Walks, IsFinal
  <1>5. ThreadTypes'
    BY <1>2, <1>4 DEF ThreadTypes
  <1>6. \A p \in Pages : fetches'[p] = IF p = page THEN RemoveAt(fetches[page], slot)
                                       ELSE fetches[p]
    BY <1>1, <1>2
  <1>7. PageInv'
    <2>1. page \in Pages /\ where[page] = "sdl"
      BY <1>1, <1>2 DEF PageInv
    <2>2. \A p \in Pages : where[p] \in {"unborn", "destroyed"}
                               => fetches'[p] = <<>>
      BY <1>6, <2>1 DEF PageInv
    <2> QED
      BY <1>1, <1>2, <1>4, <2>1, <2>2 DEF PageInv
  <1>8. WalkStaysOnList'
    <2> SUFFICES ASSUME fetch # walk.last
                 PROVE  \E i \in DOMAIN fetches'[page] :
                            i >= slot /\ fetches'[page][i] = walk.last
      BY <1>2, <1>4 DEF WalkStaysOnList
    <2>1. PICK i \in DOMAIN fetches[page] :
              i >= slot /\ fetches[page][i] = walk.last
      BY <1>2 DEF WalkStaysOnList
    <2>2. /\ Len(RemoveAt(fetches[page], slot)) = Len(fetches[page]) - 1
          /\ RemoveAt(fetches[page], slot) \in Seq(Fetches)
          /\ \A k \in 1..(Len(fetches[page]) - 1) :
                 RemoveAt(fetches[page], slot)[k] =
                     IF k < slot THEN fetches[page][k] ELSE fetches[page][k + 1]
      BY <1>1, RemoveAtElements
    <2>3. /\ i \in 1..Len(fetches[page]) /\ i # slot
          /\ i - 1 >= slot /\ i - 1 \in 1..(Len(fetches[page]) - 1)
      BY <1>1, <2>1
    <2>4. RemoveAt(fetches[page], slot)[i - 1] = fetches[page][i]
      BY <1>1, <2>2, <2>3
    <2>5. i - 1 \in DOMAIN RemoveAt(fetches[page], slot)
      BY <2>2, <2>3
    <2> QED
      BY <1>1, <1>6, <2>1, <2>3, <2>4, <2>5
  <1>9. StopInv'
    BY <1>2 DEF StopInv, AsyncIn, Loading
  <1> QED
    BY <1>3, <1>5, <1>7, <1>8, <1>9

LEMMA EndCallbackInv ==
    ASSUME IInv, EndCallback
    PROVE  IInv'
  <1> USE XhrAssumption DEF IInv, EndCallback, pageVars, fetchVars, jobVars,
                            loaderVars, appVars
  <1>1. FetchPart'
    BY QuietFetches
  <1>2. ThreadTypes'
    BY DEF ThreadTypes
  <1>3. PageInv' /\ WalkStaysOnList'
    BY DEF PageInv, WalkStaysOnList
  <1>4. StopInv'
    BY DEF StopInv, AsyncIn, Loading
  <1> QED
    BY <1>1, <1>2, <1>3, <1>4

LEMMA CommitPageInv ==
    ASSUME IInv, NEW p \in Pages, CommitPage(p)
    PROVE  IInv'
  <1> USE XhrAssumption DEF IInv, CommitPage, fetchVars, jobVars, sdlVars,
                            loaderVars, appVars
  <1>1. FetchPart'
    BY QuietFetches
  <1>2. ThreadTypes'
    BY DEF ThreadTypes
  <1>3. PageInv'
    BY DEF PageInv, ThreadTypes, Scripts
  <1>4. WalkStaysOnList'
    BY DEF WalkStaysOnList
  <1>5. StopInv'
    BY DEF StopInv, AsyncIn, Loading, ThreadTypes
  <1> QED
    BY <1>1, <1>2, <1>3, <1>4, <1>5

LEMMA DestroyAppInv ==
    ASSUME IInv, DestroyApp
    PROVE  IInv'
  <1> USE XhrAssumption DEF IInv, DestroyApp, pageVars, fetchVars, jobVars,
                            loaderVars, appVars
  <1>1. FetchPart'
    BY QuietFetches
  <1>2. ThreadTypes'
    BY DEF ThreadTypes
  <1>3. PageInv' /\ WalkStaysOnList'
    BY DEF PageInv, WalkStaysOnList
  <1>4. StopInv'
    BY DEF StopInv, AsyncIn, Loading, Unblocked
  <1> QED
    BY <1>1, <1>2, <1>3, <1>4

LEMMA ClosePageInv ==
    ASSUME IInv, NEW p \in Pages, ClosePage(p)
    PROVE  IInv'
  <1> USE XhrAssumption DEF IInv
  <1>1. /\ LetGo({p}, {}) /\ where[p] \in {"published", "sdl"} /\ sdl = "idle"
        /\ UNCHANGED <<nextFetch, done, delivered, jobVars, sdlVars, loaderVars,
                       appVars>>
    BY DEF ClosePage
  <1>2. /\ where' = [q \in Pages |-> IF q = p THEN "destroyed" ELSE where[q]]
        /\ fetches' = [q \in Pages |-> IF q = p THEN <<>> ELSE fetches[q]]
    <2>1. where \in [Pages ->
              {"unborn", "loader", "published", "sdl", "destroyed"}]
      BY DEF ThreadTypes
    <2> QED
      BY <1>1, <2>1 DEF LetGo
  <1>3. FetchPart'
    BY <1>1, PagesLetGo DEF jobVars
  <1> USE <1>1, <1>2 DEF sdlVars, loaderVars, appVars, jobVars
  <1>4. ThreadTypes'
    BY DEF ThreadTypes
  <1>5. PageInv'
    BY DEF PageInv, ThreadTypes, Scripts
  <1>6. WalkStaysOnList'
    BY DEF WalkStaysOnList
  <1>7. StopInv'
    BY DEF StopInv, AsyncIn, Loading, ThreadTypes
  <1> QED
    BY <1>3, <1>4, <1>5, <1>6, <1>7

LEMMA JoinLoaderInv ==
    ASSUME IInv, JoinLoader
    PROVE  IInv'
  <1> USE XhrAssumption DEF IInv
  <1> DEFINE left == {p \in Pages : where[p] = "published"}
  <1>1. /\ sdl = "joining" /\ pc = "exited" /\ sdl' = "done"
        /\ LetGo(left, {})
        /\ UNCHANGED <<nextFetch, done, delivered, jobVars, walk, loaderVars,
                       appVars>>
    BY DEF JoinLoader
  <1>2. where \in [Pages ->
            {"unborn", "loader", "published", "sdl", "destroyed"}]
    BY DEF ThreadTypes
  <1>3. /\ where' = [p \in Pages |-> IF where[p] = "published" THEN "destroyed"
                                                               ELSE where[p]]
        /\ fetches' = [p \in Pages |-> IF where[p] = "published" THEN <<>>
                                                                 ELSE fetches[p]]
    BY <1>1, <1>2 DEF LetGo
  <1>4. FetchPart'
    BY <1>1, PagesLetGo DEF jobVars
  <1> USE <1>1, <1>3 DEF sdlVars, loaderVars, appVars, jobVars
  <1>5. \A p \in Pages : where[p] \in {"unborn", "published", "destroyed"}
    BY <1>2 DEF StopInv, Loading
  <1>6. ThreadTypes'
    BY DEF ThreadTypes
  <1>7. PageInv'
    BY <1>5 DEF PageInv
  <1>8. WalkStaysOnList'
    BY DEF WalkStaysOnList
  <1>9. StopInv'
    BY <1>5 DEF StopInv, AsyncIn, Loading
  <1> QED
    BY <1>4, <1>6, <1>7, <1>8, <1>9

-----------------------------------------------------------------------------
(* The steps of the loader thread.                                         *)

LEMMA StageInv ==
    ASSUME IInv, Wake \/ EndScript \/ SkipPoll \/ CheckDone \/ CloseXhr
    PROVE  IInv'
  <1> USE XhrAssumption DEF IInv, pageVars, fetchVars, jobVars, sdlVars, appVars,
                            Wake, EndScript, SkipPoll, CheckDone, CloseXhr
  <1>1. FetchPart'
    BY QuietFetches
  <1>2. ThreadTypes'
    BY DEF ThreadTypes
  <1>3. PageInv' /\ WalkStaysOnList'
    BY DEF PageInv, WalkStaysOnList
  <1>4. StopInv'
    BY DEF StopInv, AsyncIn, Loading, Done, HasLoads
  <1> QED
    BY <1>1, <1>2, <1>3, <1>4

LEMMA StartLoadInv ==
    ASSUME IInv, NEW p \in Pages, StartLoad(p)
    PROVE  IInv'
  <1> USE XhrAssumption DEF IInv, StartLoad, fetchVars, jobVars, sdlVars, appVars
  <1>1. FetchPart'
    BY QuietFetches
  <1>2. script' \in Scripts /\ script'.page = p
    BY DEF Scripts
  <1>3. where \in [Pages ->
            {"unborn", "loader", "published", "sdl", "destroyed"}]
    BY DEF ThreadTypes
  <1>4. ThreadTypes'
    BY <1>2, <1>3 DEF ThreadTypes
  <1>5. PageInv'
    BY <1>2, <1>3 DEF PageInv, Walks
  <1>6. WalkStaysOnList'
    BY DEF WalkStaysOnList
  <1>7. StopInv'
    BY <1>3 DEF StopInv, AsyncIn
  <1> QED
    BY <1>1, <1>4, <1>5, <1>6, <1>7

LEMMA ResumeLoadInv ==
    ASSUME IInv, NEW p \in Pages, ResumeLoad(p)
    PROVE  IInv'
  <1> USE XhrAssumption DEF IInv, ResumeLoad, pageVars, fetchVars, jobVars,
                            sdlVars, appVars
  <1>1. FetchPart'
    BY QuietFetches
  <1>2. script' \in Scripts /\ script'.page = p
    BY DEF Scripts
  <1>3. ThreadTypes'
    BY <1>2 DEF ThreadTypes
  <1>4. PageInv'
    BY <1>2 DEF PageInv
  <1>5. WalkStaysOnList'
    BY DEF WalkStaysOnList
  <1>6. StopInv'
    BY DEF StopInv, AsyncIn
  <1> QED
    BY <1>1, <1>3, <1>4, <1>5, <1>6

LEMMA LoaderSendInv ==
    ASSUME IInv, LoaderSend
    PROVE  IInv'
  <1> DEFINE p == script.page
  <1>1. PICK accepted \in BOOLEAN : StartFetch(p, "inflight", accepted)
    BY DEF LoaderSend
  <1>2. /\ pc = "script"
        /\ UNCHANGED <<where, delivered, sync, syncs, late, sdlVars, loaderVars,
                       appVars>>
    BY DEF LoaderSend
  <1>3. p \in Pages /\ where[p] = "loader"
    BY <1>2 DEF IInv, PageInv, Scripts
  <1> USE XhrAssumption DEF IInv, sdlVars, loaderVars, appVars
  <1>4. FetchPart'
    BY <1>1, <1>2, <1>3, FetchStarts DEF JobPlaces
  <1>5. ThreadTypes'
    BY <1>2 DEF ThreadTypes
  <1>6. PageInv'
    BY <1>1, <1>2, <1>3 DEF PageInv, StartFetch
  <1>7. WalkStaysOnList'
    BY <1>1, <1>2, <1>3, WalkSurvivesSending
  <1>8. StopInv'
    BY <1>1, <1>2 DEF StopInv, StartFetch, AsyncIn, Loading, FetchPart, FetchTypes
  <1> QED
    BY <1>4, <1>5, <1>6, <1>7, <1>8

LEMMA TakeJobsInv ==
    ASSUME IInv, TakeJobs
    PROVE  IInv'
  <1> USE XhrAssumption DEF IInv
  <1>1. /\ pc \in {"service", "script"} /\ pc' = "submit"
        /\ job' = [f \in Fetches |-> IF job[f] = "queued" THEN "taken" ELSE job[f]]
        /\ sync' = IF sync = "queued" THEN "taken" ELSE sync
        /\ UNCHANGED <<pageVars, fetchVars, delivered, syncs, late, sdlVars,
                       script, networkFailed, stopSeen, appVars>>
    BY DEF TakeJobs
  <1>2. job' \in [Fetches -> JobPlaces]
    BY <1>1 DEF FetchPart, FetchTypes, JobPlaces
  <1>3. FetchPart'
    BY <1>1, <1>2, JobsMove DEF pageVars
  <1> USE <1>1 DEF pageVars, sdlVars, appVars
  <1>4. ThreadTypes'
    BY DEF ThreadTypes, JobPlaces
  <1>5. PageInv' /\ WalkStaysOnList'
    BY DEF PageInv, WalkStaysOnList
  <1>6. StopInv'
    BY DEF StopInv, Loading
  <1> QED
    BY <1>3, <1>4, <1>5, <1>6

\* The end of jobs in the hands of the loader, between two of its stages.
LEMMA EndJobs ==
    ASSUME IInv, NEW ended \in SUBSET Fetches, Finish(ended),
           \A f \in ended : job[f] # "none",
           job' \in [Fetches -> JobPlaces],
           \A f \in Fetches :
               job'[f] = "none" <=> job[f] = "none" \/ f \in ended,
           UNCHANGED <<pageVars, nextFetch, abandoned, delivered>>
    PROVE  FetchPart'
  BY JobsEnd DEF IInv, pageVars

LEMMA SubmitJobsInv ==
    ASSUME IInv, SubmitJobs
    PROVE  IInv'
  <1> USE XhrAssumption
  <1>1. /\ pc = "submit" /\ pc' = "expire"
        /\ UNCHANGED <<pageVars, nextFetch, abandoned, delivered, syncs, late,
                       sdlVars, script, networkFailed, stopSeen, appVars>>
    BY DEF SubmitJobs
  <1>2. PICK refused \in SUBSET AsyncIn("taken"), syncRefused \in BOOLEAN :
          LET ended == {f \in AsyncIn("taken") :
                          networkFailed \/ f \in abandoned \/ f \in refused}
              syncEnds == sync = "taken" /\ (networkFailed \/ syncRefused)
          IN  /\ Finish(ended)
              /\ sync' = CASE syncEnds -> "done"
                            [] sync = "taken" /\ ~syncEnds -> "inflight"
                            [] OTHER -> sync
              /\ job' = [f \in Fetches |->
                      CASE f \in ended -> "none"
                        [] job[f] = "taken" /\ f \notin ended -> "inflight"
                        [] OTHER -> job[f]]
    BY DEF SubmitJobs
  <1> DEFINE ended == {f \in AsyncIn("taken") :
                         networkFailed \/ f \in abandoned \/ f \in refused}
  <1>3. /\ sync' \in {"done", "inflight", sync} /\ sync' # "taken"
        /\ sync = "none" => sync' = "none"
    BY <1>2
  <1>4. /\ ended \in SUBSET Fetches /\ Finish(ended)
        /\ \A f \in ended : job[f] = "taken"
    BY <1>2 DEF AsyncIn
  <1>5. job' = [f \in Fetches |-> IF f \in ended THEN "none" ELSE
                    IF job[f] = "taken" THEN "inflight" ELSE job[f]]
    BY <1>2
  <1> HIDE DEF ended
  <1>6. job' \in [Fetches -> JobPlaces]
    BY <1>5 DEF IInv, FetchPart, FetchTypes, JobPlaces
  <1>7. \A f \in Fetches : job'[f] = "none" <=> job[f] = "none" \/ f \in ended
    BY <1>5
  <1>8. FetchPart'
    BY <1>1, <1>4, <1>6, <1>7, EndJobs
  <1> USE <1>1, <1>3 DEF IInv, pageVars, sdlVars, appVars
  <1>9. ThreadTypes'
    BY DEF ThreadTypes, JobPlaces
  <1>10. PageInv' /\ WalkStaysOnList'
    BY DEF PageInv, WalkStaysOnList
  <1>11. StopInv'
    <2>1. AsyncIn("taken")' = {}
      BY <1>5 DEF AsyncIn
    <2> QED
      BY <2>1 DEF StopInv, Loading
  <1> QED
    BY <1>8, <1>9, <1>10, <1>11

\* What EndInFlight leaves of the jobs, at a stage where none is being taken.
LEMMA EndedJobs ==
    ASSUME IInv, NEW ended \in SUBSET Fetches, NEW syncEnds \in BOOLEAN,
           EndInFlight(ended, syncEnds), \A f \in ended : job[f] # "none",
           syncEnds => sync # "none", pc # "submit",
           UNCHANGED <<pageVars, nextFetch, abandoned, delivered>>
    PROVE  /\ FetchPart'
           /\ sync' \in {"done", sync} /\ (sync = "none" => sync' = "none")
           /\ AsyncIn("taken")' = {}
           /\ \A f \in Fetches : job[f] = "none" => job'[f] = "none"
  <1>1. job' = [f \in Fetches |-> IF f \in ended THEN "none" ELSE job[f]]
    BY DEF EndInFlight
  <1>2. job' \in [Fetches -> JobPlaces]
    BY <1>1 DEF IInv, FetchPart, FetchTypes, JobPlaces
  <1>3. FetchPart'
    BY <1>1, <1>2, EndJobs DEF EndInFlight
  <1>4. AsyncIn("taken")' = {}
    BY <1>1 DEF AsyncIn, IInv, StopInv
  <1> QED
    BY <1>1, <1>3, <1>4 DEF EndInFlight

LEMMA ExpireJobsInv ==
    ASSUME IInv, ExpireJobs
    PROVE  IInv'
  <1> USE XhrAssumption
  <1>1. /\ pc = "expire" /\ pc' = IF script # None THEN "nested" ELSE "poll"
        /\ EndInFlight(Expired, SyncExpires)
        /\ UNCHANGED <<pageVars, nextFetch, abandoned, delivered, syncs, late,
                       sdlVars, script, networkFailed, stopSeen, appVars>>
    BY DEF ExpireJobs
  <1>2. /\ Expired \in SUBSET Fetches /\ SyncExpires \in BOOLEAN
        /\ \A f \in Expired : job[f] # "none"
        /\ SyncExpires => sync # "none"
    BY DEF Expired, AsyncIn, SyncExpires
  <1>3. /\ FetchPart'
        /\ sync' \in {"done", sync} /\ (sync = "none" => sync' = "none")
        /\ AsyncIn("taken")' = {}
    BY <1>1, <1>2, EndedJobs
  <1> USE <1>1, <1>3 DEF IInv, pageVars, sdlVars, appVars
  <1>4. ThreadTypes'
    BY DEF ThreadTypes
  <1>5. PageInv' /\ WalkStaysOnList'
    BY DEF PageInv, WalkStaysOnList, ThreadTypes
  <1>6. StopInv'
    BY DEF StopInv, Loading
  <1> QED
    BY <1>3, <1>4, <1>5, <1>6

LEMMA CompleteEffect ==
    ASSUME IInv, Complete, pc # "submit",
           UNCHANGED <<pageVars, nextFetch, abandoned, delivered>>
    PROVE  /\ FetchPart'
           /\ sync' \in {"done", sync} /\ (sync = "none" => sync' = "none")
           /\ AsyncIn("taken")' = {}
  <1>1. PICK ended \in SUBSET AsyncIn("inflight"), syncEnds \in BOOLEAN :
            /\ syncEnds => sync = "inflight"
            /\ EndInFlight(ended, syncEnds)
    BY DEF Complete
  <1>2. ended \in SUBSET Fetches /\ \A f \in ended : job[f] # "none"
    BY DEF AsyncIn
  <1> QED
    BY <1>1, <1>2, EndedJobs

LEMMA PollInv ==
    ASSUME IInv, NestedPoll \/ Poll
    PROVE  IInv'
  <1> USE XhrAssumption
  <1>1. /\ UNCHANGED <<pageVars, nextFetch, abandoned, delivered, syncs, late,
                       sdlVars, script, stopSeen, appVars>>
        /\ \/ pc = "nested" /\ pc' = "script"
           \/ pc = "poll" /\ pc' = "reap"
    BY DEF NestedPoll, Poll
  <1>2. networkFailed' \in BOOLEAN
    BY DEF NestedPoll, Poll, NetworkMayFail, IInv, ThreadTypes
  <1>3. /\ FetchPart'
        /\ sync' \in {"done", sync} /\ (sync = "none" => sync' = "none")
        /\ AsyncIn("taken")' = {}
    <2>1. CASE Complete
      BY <1>1, <2>1, CompleteEffect
    <2>2. CASE EndInFlight(AsyncIn("inflight"), sync = "inflight")
      <3>1. /\ AsyncIn("inflight") \in SUBSET Fetches
            /\ (sync = "inflight") \in BOOLEAN
            /\ \A f \in AsyncIn("inflight") : job[f] # "none"
        BY DEF AsyncIn
      <3>2. pc # "submit"
        BY <1>1
      <3> QED
        BY <1>1, <2>2, <3>1, <3>2, EndedJobs
    <2> QED
      BY <2>1, <2>2 DEF NestedPoll, Poll
  <1> USE <1>1, <1>2, <1>3 DEF IInv, pageVars, sdlVars, appVars
  <1>4. ThreadTypes'
    BY DEF ThreadTypes
  <1>5. PageInv' /\ WalkStaysOnList'
    BY DEF PageInv, WalkStaysOnList
  <1>6. StopInv'
    BY DEF StopInv, Loading
  <1> QED
    BY <1>3, <1>4, <1>5, <1>6

LEMMA ReapLoadsInv ==
    ASSUME IInv, ReapLoads
    PROVE  IInv'
  <1> USE XhrAssumption DEF IInv
  <1>1. /\ pc = "reap" /\ pc' = "check"
        /\ UNCHANGED <<nextFetch, done, delivered, jobVars, sdlVars, script,
                       networkFailed, stopSeen, appVars>>
    BY DEF ReapLoads
  <1>2. PICK kept \in SUBSET Loading : \E gone \in SUBSET (Loading \ kept) :
          LetGo(gone, Loading \ (kept \cup gone))
    BY DEF ReapLoads
  <1>3. PICK cancelled \in SUBSET (Loading \ kept) :
          LetGo(cancelled, Loading \ (kept \cup cancelled))
    BY <1>2
  <1> DEFINE loaded == Loading \ (kept \cup cancelled)
  <1>4. where \in [Pages ->
            {"unborn", "loader", "published", "sdl", "destroyed"}]
    BY DEF ThreadTypes
  <1>5. /\ cancelled \subseteq Pages /\ loaded \subseteq Pages
        /\ \A p \in cancelled \cup loaded : where[p] = "loader"
        /\ cancelled \cap loaded = {}
    BY DEF Loading
  <1>6. /\ where' = [p \in Pages |-> IF p \in cancelled THEN "destroyed" ELSE
                        IF p \in loaded THEN "published" ELSE where[p]]
        /\ fetches' = [p \in Pages |-> IF p \in cancelled THEN <<>>
                                                          ELSE fetches[p]]
    BY <1>3 DEF LetGo
  <1>7. FetchPart'
    BY <1>1, <1>3, <1>5, PagesLetGo DEF jobVars
  <1> HIDE DEF loaded
  <1> USE <1>1, <1>5, <1>6 DEF sdlVars, appVars, jobVars
  <1>8. ThreadTypes'
    BY <1>4 DEF ThreadTypes
  <1>9. script' = None
    BY DEF PageInv
  <1>10. PageInv'
    <2>1. \A p \in Pages : where'[p] \in {"unborn", "destroyed"}
                               => fetches'[p] = <<>>
      BY DEF PageInv
    <2>2. sdl \in {"walk", "callback"} =>
              walk.page \in Pages /\ where'[walk.page] = "sdl"
      BY DEF PageInv, Walks
    <2> QED
      BY <1>9, <2>1, <2>2 DEF PageInv
  <1>11. WalkStaysOnList'
    <2>1. sdl \in {"walk", "callback"} =>
              walk.page \in Pages /\ fetches'[walk.page] = fetches[walk.page]
      BY DEF PageInv, Walks
    <2> QED
      BY <2>1 DEF WalkStaysOnList
  <1>12. StopInv'
    <2>1. (\A p \in Pages : where[p] # "sdl") => \A p \in Pages : where'[p] # "sdl"
      OBVIOUS
    <2> QED
      BY <2>1 DEF StopInv, AsyncIn
  <1> QED
    BY <1>7, <1>8, <1>10, <1>11, <1>12

LEMMA DrainJobsInv ==
    ASSUME IInv, DrainJobs
    PROVE  IInv'
  <1> USE XhrAssumption
  <1> DEFINE waiting == sync \in {"queued", "inflight"}
  <1>1. /\ pc = "drain" /\ pc' = "exited" /\ EndInFlight(Drained, waiting)
        /\ UNCHANGED <<pageVars, nextFetch, abandoned, delivered, syncs, late,
                       sdlVars, script, networkFailed, stopSeen, appVars>>
    BY DEF DrainJobs
  <1>2. /\ Drained \in SUBSET Fetches /\ waiting \in BOOLEAN
        /\ \A f \in Drained : job[f] # "none"
        /\ waiting => sync # "none"
    BY DEF Drained, AsyncIn
  <1>3. /\ FetchPart'
        /\ sync' \in {"done", sync} /\ (sync = "none" => sync' = "none")
        /\ AsyncIn("taken")' = {}
    BY <1>1, <1>2, EndedJobs
  <1>4. \A f \in Fetches : job'[f] = "none"
    <2>1. \A f \in Fetches : job[f] \in {"none", "queued", "inflight"}
      BY <1>1 DEF IInv, StopInv, AsyncIn, FetchPart, FetchTypes, JobPlaces
    <2>2. job' = [f \in Fetches |-> IF f \in Drained THEN "none" ELSE job[f]]
      BY <1>1 DEF EndInFlight
    <2> QED
      BY <2>1, <2>2 DEF Drained, AsyncIn
  <1> HIDE DEF waiting
  <1> USE <1>1, <1>3 DEF IInv, pageVars, sdlVars, appVars
  <1>5. ThreadTypes'
    BY DEF ThreadTypes
  <1>6. PageInv' /\ WalkStaysOnList'
    BY DEF PageInv, WalkStaysOnList
  <1>7. StopInv'
    BY <1>4 DEF StopInv, Loading
  <1> QED
    BY <1>3, <1>5, <1>6, <1>7

LEMMA TimePassesInv ==
    ASSUME IInv, NEW j \in Fetches \cup {None}, TimePasses(j)
    PROVE  IInv'
  <1> USE XhrAssumption DEF IInv
  <1>1. /\ late' = late \cup {j}
        /\ UNCHANGED <<pageVars, fetchVars, delivered, job, sync, syncs, sdlVars,
                       loaderVars, appVars>>
    BY DEF TimePasses
  <1> USE <1>1 DEF pageVars, sdlVars, loaderVars, appVars
  <1>2. FetchPart'
    BY QuietFetches
  <1>3. ThreadTypes'
    BY DEF ThreadTypes
  <1>4. PageInv' /\ WalkStaysOnList'
    BY DEF PageInv, WalkStaysOnList
  <1>5. StopInv'
    BY DEF StopInv, AsyncIn, Loading
  <1> QED
    BY <1>2, <1>3, <1>4, <1>5

LEMMA StutterInv == IInv /\ UNCHANGED vars => IInv'
  <1> SUFFICES ASSUME IInv, UNCHANGED vars PROVE IInv'
    OBVIOUS
  <1> USE DEF IInv, vars, pageVars, jobVars, sdlVars, loaderVars, appVars
  <1>1. FetchPart'
    BY QuietFetches
  <1>2. ThreadTypes' /\ PageInv' /\ WalkStaysOnList'
    BY DEF ThreadTypes, PageInv, WalkStaysOnList
  <1>3. StopInv'
    BY DEF StopInv, AsyncIn, Loading
  <1> QED
    BY <1>1, <1>2, <1>3

LEMMA NextInv == IInv /\ [Next]_vars => IInv'
  <1> SUFFICES ASSUME IInv, [Next]_vars PROVE IInv'
    OBVIOUS
  <1>1. CASE SdlThread
    BY <1>1, SendAsyncInv, SendSyncInv, RunTasksInv, CommitPageInv, ClosePageInv,
       ReturnSyncInv, SkipFetchInv, DeliverFetchInv, EndCallbackInv,
       DestroyAppInv, JoinLoaderInv DEF SdlThread
  <1>2. CASE Loader
    BY <1>2, StageInv, LoaderSendInv, TakeJobsInv, SubmitJobsInv, ExpireJobsInv,
       PollInv, ReapLoadsInv, DrainJobsInv, StartLoadInv, ResumeLoadInv
       DEF Loader
  <1> QED
    BY <1>1, <1>2, TimePassesInv, StutterInv DEF Next, Terminated

\* Fetches, jobs and both threads stay within the invariant the others follow
\* from, whichever thread runs and whatever the network does (tabset.c,
\* browser.c).
THEOREM Inductive == Spec => []IInv
  BY InitInv, NextInv, PTL DEF Spec

-----------------------------------------------------------------------------
(* The theorems.                                                           *)

\* Every variable of the two threads keeps its type; a fetch never has more
\* than two references, the page's and the job's.
THEOREM TypeCorrect == Spec => []TypeOK
  <1>1. IInv => TypeOK
    BY TypeParts DEF IInv, FetchPart
  <1> QED
    BY <1>1, Inductive, PTL

\* A TaiPageFetch lives exactly as long as its page lists it or the loader has
\* its job: neither thread frees it under the other and none leaks.
THEOREM FetchesAreCounted == Spec => []ReferencesCountHolders
  <1>1. ASSUME IInv, NEW f \in Fetches
        PROVE  references[f] = Cardinality({p \in Pages : f \in Range(fetches[p])})
                               + (IF job[f] = "none" THEN 0 ELSE 1)
    <2> DEFINE lists == {p \in Pages : f \in Range(fetches[p])}
    <2>1. references[f] = (IF Listed(f) THEN 1 ELSE 0)
                          + (IF job[f] = "none" THEN 0 ELSE 1)
      BY <1>1 DEF IInv, FetchPart, FetchInv, FetchOK
    <2>2. \A p, q \in lists : p = q
      BY <1>1 DEF IInv, FetchPart, ListInv, Range
    <2>3. CASE Listed(f)
      <3>1. PICK p \in lists : TRUE
        BY <2>3 DEF Listed
      <3>2. lists = {p}
        BY <2>2, <3>1
      <3>3. Cardinality(lists) = 1
        BY <3>2, FS_Singleton
      <3> QED
        BY <2>1, <2>3, <3>3
    <2>4. CASE ~Listed(f)
      <3>1. lists = {}
        BY <2>4 DEF Listed
      <3>2. Cardinality(lists) = 0
        BY <3>1, FS_EmptySet
      <3> QED
        BY <2>1, <2>4, <3>2
    <2> QED
      BY <2>3, <2>4
  <1>2. IInv => ReferencesCountHolders
    BY <1>1 DEF ReferencesCountHolders
  <1> QED
    BY <1>2, Inductive, PTL

\* The pointers that tai_page_run_tasks keeps into the list of fetches stay good
\* while onloads send more requests and other pages go away.
THEOREM WalkIsSafe == Spec => []WalkStaysOnList
  <1>1. IInv => WalkStaysOnList
    BY DEF IInv
  <1> QED
    BY <1>1, Inductive, PTL

\* A request answers its script at most once, after it has been done, and not
\* at all when its page went first.
THEOREM AnsweredOnce == Spec => []OnloadRunsOnce
  <1>1. IInv => OnloadRunsOnce
    BY DEF IInv, FetchPart, FetchInv, FetchOK, OnloadRunsOnce
  <1> QED
    BY <1>1, Inductive, PTL

\* When the loader has exited every job that was accepted has ended, and no
\* fetch outlives the app (loader_main past its loop, tai_browser_app_destroy).
THEOREM ExitIsClean == Spec => []ExitLeavesNoJob
  <1>1. ASSUME IInv, sdl = "done", NEW f \in Fetches
        PROVE  references[f] = 0
    <2>1. \A p \in Pages : fetches[p] = <<>>
      BY <1>1 DEF IInv, StopInv, PageInv
    <2>2. ~Listed(f)
      BY <2>1 DEF Listed, Range
    <2>3. job[f] = "none"
      BY <1>1 DEF IInv, StopInv
    <2> QED
      BY <1>1, <2>2, <2>3 DEF IInv, FetchPart, FetchInv, FetchOK
  <1>2. ASSUME IInv, pc = "exited"
        PROVE  sync \in {"none", "done"} /\ \A f \in Fetches : job[f] = "none"
    BY <1>2 DEF IInv, StopInv
  <1>3. IInv => ExitLeavesNoJob
    BY <1>1, <1>2 DEF ExitLeavesNoJob
  <1> QED
    BY <1>3, Inductive, PTL

=============================================================================
