-------------------------- MODULE PageLoadsProofs ---------------------------
(***************************************************************************)
(* Proofs about PageLoads, for every set of loads and any number of         *)
(* resources.                                                              *)
(*                                                                         *)
(* A poll inside a script calls nobody back but the script's own request   *)
(* and the jobs, so a stack of two never comes about; the invariant says   *)
(* what the one page on it has behind it, and which requests a load that   *)
(* is not on it still waits for.                                           *)
(***************************************************************************)
EXTENDS PageLoads, FiniteSetTheorems, TLAPS

-----------------------------------------------------------------------------
(* The inductive invariant.                                                *)

Frames == [load : Loads, next : 1..(MaxResources + 1), at : Places]
InScript == {"script", "waiting", "sync poll", "crash poll"}
Waits == {"waiting", "sync poll"}

\* TypeOK in three: the loads, the list of requests, the loader.
LoadTypes ==
    /\ status \in [Loads -> {"unborn", "live", "gone"}]
    /\ ended \in [Loads -> Nat]
    /\ page \in [Loads -> {"none", "ready"}]
    /\ resources \in [Loads -> BoundedSeq(Kinds, MaxResources)]
    /\ answers \in [Loads -> [1..MaxResources -> {"none", "ok", "failed"}]]
    /\ listed \in [Loads -> SUBSET (0..MaxResources)]
    /\ pending \in [Loads -> 0..MaxResources]
    /\ applied \in [Loads -> BoundedSeq(1..MaxResources, MaxResources)]
ListTypes ==
    /\ DOMAIN requests \subseteq Requests /\ IsList(requests)
    /\ ready \subseteq DOMAIN requests
ThreadTypes ==
    /\ cancelled \subseteq Loads
    /\ stack \in Seq(Frames)
    /\ pc \in {"take", "service", "dispatch", "reap"}
    /\ networkFailed \in BOOLEAN

Applying(l) == stack # <<>> /\ stack[1].load = l

\* The resources a page that is being applied has behind it.
Past(frame) == IF frame.at \in InScript THEN frame.next ELSE frame.next - 1

UsableTo(l, n) == {i \in 1..n : HasContent(l, i)}

\* The page whose resources are being applied.
StackOK ==
    /\ Len(stack) <= 1
    /\ stack # <<>> =>
         LET frame == stack[1]
             l == frame.load
         IN  /\ status[l] = "live" /\ listed[l] = {}
             /\ Past(frame) <= Len(resources[l])
             /\ Len(applied[l]) <= Past(frame)
             /\ Range(applied[l]) = UsableTo(l, Past(frame))

\* Its requests.
OwnsRequests(l) ==
    /\ listed[l] = {p \in 0..MaxResources : <<l, p>> \in DOMAIN requests}
    /\ <<l, SyncPart>> \in DOMAIN requests =>
         Applying(l) /\ stack[1].at \in Waits

\* What it waits for, and its end.
WaitsRight(l) ==
    /\ listed[l] # {} => status[l] = "live"
    /\ status[l] # "gone" => pending[l] = Cardinality(listed[l] \ {0})
    /\ 0 \in listed[l] => listed[l] = {0}
    /\ ended[l] = IF status[l] = "gone" THEN 1 ELSE 0
    /\ page[l] = "ready" => status[l] = "gone"

\* What has taken effect.
InOrder(l) ==
    /\ \A j, k \in DOMAIN applied[l] :
           j < k => applied[l][j] < applied[l][k]
    /\ page[l] = "ready" =>
           Range(applied[l]) = UsableTo(l, Len(resources[l]))
    /\ applied[l] # <<>> => Applying(l) \/ page[l] = "ready"

IInv ==
    /\ LoadTypes /\ ListTypes /\ ThreadTypes
    /\ StackOK
    /\ \A l \in Loads : OwnsRequests(l) /\ WaitsRight(l) /\ InOrder(l)

-----------------------------------------------------------------------------
(* Sequences, requests and lists of them.                                  *)

LEMMA BoundedSeqIsSeq ==
    ASSUME NEW S, NEW n \in Nat, NEW s
    PROVE  s \in BoundedSeq(S, n) <=> s \in Seq(S) /\ Len(s) <= n
<1>1. ASSUME s \in BoundedSeq(S, n) PROVE s \in Seq(S) /\ Len(s) <= n
  <2>1. PICK m \in 0..n : s \in [1..m -> S]
    BY <1>1 DEF BoundedSeq, SeqOf
  <2> QED
    BY <2>1
<1>2. ASSUME s \in Seq(S), Len(s) <= n PROVE s \in BoundedSeq(S, n)
  <2>1. Len(s) \in 0..n /\ s \in [1..Len(s) -> S]
    BY <1>2
  <2> QED
    BY <2>1 DEF BoundedSeq, SeqOf
<1> QED
  BY <1>1, <1>2

LEMMA Identities ==
    /\ Job \in Requests
    /\ \A l \in Loads, p \in 0..SyncPart : <<l, p>> \in Requests
    /\ \A l \in Loads : \A p : <<l, p>> # Job
    /\ \A id \in Requests : id # Job =>
           id[1] \in Loads /\ id[2] \in 0..SyncPart /\ id = <<id[1], id[2]>>
BY PageLoadsAssumption DEF Job, Requests

LEMMA Parts ==
    /\ MaxResources \in Nat /\ SyncPart = MaxResources + 1
    /\ \A p \in 0..SyncPart : p \in 0..MaxResources <=> p # SyncPart
    /\ \A p \in 0..MaxResources : p \in 0..SyncPart /\ p # SyncPart
BY PageLoadsAssumption DEF SyncPart

LEMMA SubmittedList ==
    ASSUME ListTypes, NEW id \in Requests, id \notin DOMAIN requests
    PROVE  /\ DOMAIN Submitted(id) = DOMAIN requests \cup {id}
           /\ DOMAIN Submitted(id) \subseteq Requests
           /\ IsList(Submitted(id))
<1> DEFINE list == Submitted(id)
<1>1. /\ DOMAIN list = DOMAIN requests \cup {id}
      /\ list[id] = DOMAIN requests
      /\ \A r \in DOMAIN requests : list[r] = requests[r]
  BY DEF Submitted
<1>2. list = [r \in DOMAIN list |-> list[r]]
  BY DEF Submitted
<1>3. DOMAIN requests \subseteq Requests /\ IsList(requests)
  BY DEF ListTypes
<1>4. \A r \in DOMAIN requests : requests[r] \subseteq DOMAIN requests
  BY <1>3 DEF IsList
<1> HIDE DEF list
<1>5. \A r \in DOMAIN list : list[r] \subseteq DOMAIN list
  BY <1>1, <1>4
<1>6. list \in [DOMAIN list -> SUBSET DOMAIN list]
  BY <1>2, <1>5
<1>7. ASSUME NEW r \in DOMAIN list
      PROVE  /\ r \notin list[r]
             /\ \A s \in DOMAIN list \ {r} : (s \in list[r]) # (r \in list[s])
             /\ \A s \in list[r] : list[s] \subseteq list[r]
  <2>1. CASE r = id
    BY <1>1, <1>4, <2>1
  <2>2. CASE r # id
    <3>1. /\ r \in DOMAIN requests /\ r \notin requests[r]
          /\ \A s \in DOMAIN requests \ {r} :
                 (s \in requests[r]) # (r \in requests[s])
          /\ \A s \in requests[r] : requests[s] \subseteq requests[r]
      BY <1>1, <1>3, <2>2 DEF IsList
    <3> QED
      BY <1>1, <1>4, <2>2, <3>1
  <2> QED
    BY <2>1, <2>2
<1>8. IsList(list)
  BY <1>6, <1>7 DEF IsList
<1> QED
  BY <1>1, <1>3, <1>8 DEF list

LEMMA WithoutList ==
    ASSUME NEW list, IsList(list), NEW gone
    PROVE  /\ DOMAIN Without(list, gone) = DOMAIN list \ gone
           /\ IsList(Without(list, gone))
<1> DEFINE rest == Without(list, gone)
<1>1. /\ DOMAIN rest = DOMAIN list \ gone
      /\ \A r \in DOMAIN rest : rest[r] = list[r] \ gone
  BY DEF Without
<1>2. rest = [r \in DOMAIN rest |-> rest[r]]
  BY DEF Without
<1> HIDE DEF rest
<1>3. \A r \in DOMAIN list :
        /\ list[r] \subseteq DOMAIN list /\ r \notin list[r]
        /\ \A s \in DOMAIN list \ {r} : (s \in list[r]) # (r \in list[s])
        /\ \A s \in list[r] : list[s] \subseteq list[r]
  BY DEF IsList
<1>4. \A r \in DOMAIN rest : rest[r] \subseteq DOMAIN rest
  BY <1>1, <1>3
<1>5. rest \in [DOMAIN rest -> SUBSET DOMAIN rest]
  BY <1>2, <1>4
<1>6. \A r \in DOMAIN rest :
        /\ r \notin rest[r]
        /\ \A s \in DOMAIN rest \ {r} : (s \in rest[r]) # (r \in rest[s])
        /\ \A s \in rest[r] : rest[s] \subseteq rest[r]
  BY <1>1, <1>3
<1>7. IsList(rest)
  BY <1>5, <1>6 DEF IsList
<1> QED
  BY <1>1, <1>7 DEF rest

LEMMA SubmittedAllList ==
    ASSUME NEW list, IsList(list), NEW l, NEW accepted \in SUBSET Nat,
           \A i \in accepted : <<l, i>> \notin DOMAIN list
    PROVE  /\ DOMAIN SubmittedAll(list, l, accepted)
                = DOMAIN list \cup ({l} \X accepted)
           /\ IsList(SubmittedAll(list, l, accepted))
<1> DEFINE all == SubmittedAll(list, l, accepted)
           new == {l} \X accepted
<1>1. /\ DOMAIN all = DOMAIN list \cup new
      /\ \A r \in DOMAIN list : all[r] = list[r]
      /\ \A r \in new : r \notin DOMAIN list =>
             all[r] = DOMAIN list \cup ({l} \X {i \in accepted : i < r[2]})
  BY DEF SubmittedAll
<1>2. all = [r \in DOMAIN all |-> all[r]]
  BY DEF SubmittedAll
<1> HIDE DEF all
<1>3. \A r \in DOMAIN list :
        /\ list[r] \subseteq DOMAIN list /\ r \notin list[r]
        /\ \A s \in DOMAIN list \ {r} : (s \in list[r]) # (r \in list[s])
        /\ \A s \in list[r] : list[s] \subseteq list[r]
  BY DEF IsList
<1>4. \A r \in new : r[2] \in accepted /\ r = <<l, r[2]>>
  OBVIOUS
<1>5. \A r \in new : r \notin DOMAIN list
  BY <1>4
<1>6. \A r \in new :
        /\ DOMAIN list \subseteq all[r] /\ all[r] \subseteq DOMAIN list \cup new
        /\ \A s \in new : s \in all[r] <=> s[2] < r[2]
  <2> SUFFICES ASSUME NEW r \in new
               PROVE  /\ DOMAIN list \subseteq all[r]
                      /\ all[r] \subseteq DOMAIN list \cup new
                      /\ \A s \in new : s \in all[r] <=> s[2] < r[2]
    OBVIOUS
  <2>1. all[r] = DOMAIN list \cup ({l} \X {i \in accepted : i < r[2]})
    BY <1>1, <1>5
  <2>2. \A s \in new : s \in {l} \X {i \in accepted : i < r[2]} <=> s[2] < r[2]
    BY <1>4
  <2> QED
    BY <1>5, <2>1, <2>2
<1>7. \A r, s \in new : r # s => r[2] # s[2]
  BY <1>4
<1>8. \A r \in new : r[2] \in Nat
  BY <1>4
<1> HIDE DEF new
<1>9. \A r \in DOMAIN all : all[r] \subseteq DOMAIN all
  BY <1>1, <1>3, <1>6
<1>10. all \in [DOMAIN all -> SUBSET DOMAIN all]
  BY <1>2, <1>9
<1>11. ASSUME NEW r \in DOMAIN all
       PROVE  /\ r \notin all[r]
              /\ \A s \in DOMAIN all \ {r} : (s \in all[r]) # (r \in all[s])
              /\ \A s \in all[r] : all[s] \subseteq all[r]
  <2>1. CASE r \in DOMAIN list
    <3>1. \A s \in new : s \notin all[r] /\ r \in all[s]
      BY <1>1, <1>3, <1>5, <1>6, <2>1
    <3> QED
      BY <1>1, <1>3, <2>1, <3>1
  <2>2. CASE r \in new
    <3>1. r \notin all[r]
      BY <1>6, <1>8, <2>2
    <3>2. \A s \in DOMAIN all \ {r} : (s \in all[r]) # (r \in all[s])
      <4>1. ASSUME NEW s \in DOMAIN list PROVE s \in all[r] /\ r \notin all[s]
        BY <1>1, <1>3, <1>5, <1>6, <2>2, <4>1
      <4>2. ASSUME NEW s \in new, s # r
            PROVE  (s \in all[r]) # (r \in all[s])
        <5>1. s[2] \in Nat /\ r[2] \in Nat /\ s[2] # r[2]
          BY <1>7, <1>8, <2>2, <4>2
        <5>2. (s \in all[r]) = (s[2] < r[2]) /\ (r \in all[s]) = (r[2] < s[2])
          BY <1>6, <2>2, <4>2
        <5> QED
          BY <5>1, <5>2
      <4> QED
        BY <1>1, <4>1, <4>2
    <3>3. ASSUME NEW s \in all[r] PROVE all[s] \subseteq all[r]
      <4>1. CASE s \in DOMAIN list
        BY <1>1, <1>3, <1>6, <2>2, <4>1
      <4>2. CASE s \in new
        <5>1. s[2] < r[2] /\ s[2] \in Nat /\ r[2] \in Nat
          BY <1>6, <1>8, <2>2, <3>3, <4>2
        <5>2. \A t \in new : t \in all[s] => t \in all[r]
          BY <1>6, <1>8, <2>2, <4>2, <5>1
        <5> QED
          BY <1>6, <2>2, <4>2, <5>2
      <4> QED
        BY <1>6, <2>2, <3>3, <4>1, <4>2
    <3> QED
      BY <3>1, <3>2, <3>3
  <2> QED
    BY <1>1, <2>1, <2>2
<1>12. IsList(all)
  BY <1>10, <1>11 DEF IsList
<1> QED
  BY <1>1, <1>12 DEF all, new

\* loader_service changes the list by the job at most.
LEMMA ServedLists ==
    ASSUME ListTypes, NEW served \in Served
    PROVE  /\ DOMAIN served \subseteq Requests /\ IsList(served)
           /\ \A id \in Requests \ {Job} :
                  id \in DOMAIN served <=> id \in DOMAIN requests
<1>1. DOMAIN requests \subseteq Requests /\ IsList(requests)
  BY DEF ListTypes
<1>2. CASE served = requests
  BY <1>1, <1>2
<1>3. CASE served = Without(requests, {Job})
  BY <1>1, <1>3, WithoutList
<1>4. CASE Job \notin DOMAIN requests /\ served = Submitted(Job)
  BY <1>4, SubmittedList, Identities
<1> QED
  BY <1>2, <1>3, <1>4 DEF Served

-----------------------------------------------------------------------------
(* Steps that leave the loads as they are.                                 *)

LEMMA TopFrame ==
    ASSUME ThreadTypes, StackOK, stack # <<>>
    PROVE  /\ Len(stack) = 1 /\ DOMAIN stack = {1}
           /\ Top = stack[1] /\ stack[1] \in Frames
<1>1. stack \in Seq(Frames) /\ Len(stack) <= 1
  BY DEF ThreadTypes, StackOK
<1>2. Len(stack) \in Nat /\ Len(stack) # 0 /\ DOMAIN stack = 1..Len(stack)
  BY <1>1
<1>3. Len(stack) = 1
  BY <1>1, <1>2
<1>4. stack[1] \in Frames
  BY <1>1, <1>3
<1> QED
  BY <1>2, <1>3, <1>4 DEF Top, Last

LEMMA TopMoved ==
    ASSUME ThreadTypes, StackOK, stack # <<>>, NEW at \in Places, MoveTop(at)
    PROVE  /\ stack' \in Seq(Frames) /\ Len(stack') = 1 /\ stack' # <<>>
           /\ stack'[1].load = stack[1].load /\ stack'[1].next = stack[1].next
           /\ stack'[1].at = at
<1>1. /\ stack \in Seq(Frames) /\ Len(stack) = 1 /\ DOMAIN stack = {1}
      /\ stack[1] \in Frames
  BY TopFrame DEF ThreadTypes
<1> DEFINE frame == [stack[1] EXCEPT !.at = at]
<1>2. /\ frame \in Frames /\ frame.load = stack[1].load
      /\ frame.next = stack[1].next /\ frame.at = at
  BY <1>1 DEF Frames
<1>3. stack' = [stack EXCEPT ![1] = frame]
  BY <1>1 DEF MoveTop
<1> HIDE DEF frame
<1> QED
  BY <1>1, <1>2, <1>3

LEMMA TopAdvanced ==
    ASSUME ThreadTypes, StackOK, stack # <<>>, stack[1].next <= MaxResources,
           NextResource
    PROVE  /\ stack' \in Seq(Frames) /\ Len(stack') = 1 /\ stack' # <<>>
           /\ stack'[1].load = stack[1].load
           /\ stack'[1].next = stack[1].next + 1 /\ stack'[1].at = "apply"
<1>1. /\ stack \in Seq(Frames) /\ Len(stack) = 1 /\ DOMAIN stack = {1}
      /\ stack[1] \in Frames
  BY TopFrame DEF ThreadTypes
<1>2. stack[1].next \in 1..(MaxResources + 1)
  BY <1>1 DEF Frames
<1>3. stack[1].next + 1 \in 1..(MaxResources + 1)
  BY <1>2, Parts
<1> DEFINE frame == [load |-> stack[1].load, next |-> stack[1].next + 1,
                     at |-> "apply"]
<1>4. frame \in Frames
  BY <1>1, <1>3 DEF Frames, Places
<1>5. stack' = [stack EXCEPT ![1] = frame]
  BY <1>1, TopFrame DEF NextResource
<1>6. /\ frame.load = stack[1].load /\ frame.next = stack[1].next + 1
      /\ frame.at = "apply"
  OBVIOUS
<1> HIDE DEF frame
<1> QED
  BY <1>1, <1>4, <1>5, <1>6

LEMMA UsableSame ==
    ASSUME NEW l, resources'[l] = resources[l], answers'[l] = answers[l]
    PROVE  \A n : UsableTo(l, n)' = UsableTo(l, n)
BY DEF UsableTo, HasContent

SameFrame ==
    /\ Len(stack') = Len(stack)
    /\ stack # <<>> => /\ stack' # <<>> /\ stack'[1].load = stack[1].load
                       /\ Past(stack'[1]) = Past(stack[1])
    /\ stack = <<>> => stack' = <<>>

SameLoadRequests ==
    \A l \in Loads : \A p \in 0..MaxResources :
        <<l, p>> \in DOMAIN requests' <=> <<l, p>> \in DOMAIN requests

OnlyTopWaits ==
    \A l \in Loads : <<l, SyncPart>> \in DOMAIN requests =>
                        Applying(l) /\ stack[1].at \in Waits

LEMMA QuietHolds ==
    ASSUME IInv, UNCHANGED loadVars, ListTypes', ThreadTypes', SameFrame,
           SameLoadRequests, OnlyTopWaits'
    PROVE  IInv'
<1>1. /\ status' = status /\ ended' = ended /\ page' = page
      /\ resources' = resources /\ answers' = answers /\ listed' = listed
      /\ pending' = pending /\ applied' = applied
  BY DEF loadVars
<1>2. LoadTypes'
  BY <1>1 DEF IInv, LoadTypes
<1>3. \A l, n : UsableTo(l, n)' = UsableTo(l, n)
  BY <1>1 DEF UsableTo, HasContent
<1>4. StackOK'
  <2>1. StackOK
    BY DEF IInv
  <2>2. CASE stack = <<>>
    <3>1. stack' = <<>>
      BY <2>2 DEF SameFrame
    <3> QED
      BY <3>1 DEF StackOK
  <2>3. CASE stack # <<>>
    <3>1. PICK l, n : l = stack[1].load /\ n = Past(stack[1])
      OBVIOUS
    <3>2. /\ Len(stack') <= 1 /\ stack'[1].load = l /\ Past(stack[1])' = n
      BY <2>1, <2>3, <3>1 DEF SameFrame, StackOK, Past
    <3>3. /\ status[l] = "live" /\ listed[l] = {} /\ n <= Len(resources[l])
          /\ Len(applied[l]) <= n /\ Range(applied[l]) = UsableTo(l, n)
      BY <2>1, <2>3, <3>1 DEF StackOK
    <3>4. UsableTo(l, n)' = UsableTo(l, n)
      BY <1>3
    <3>5. UsableTo(stack[1].load, Past(stack[1]))' = UsableTo(l, n)'
      BY <3>2 DEF UsableTo, HasContent
    <3> QED
      BY <1>1, <3>2, <3>3, <3>4, <3>5 DEF StackOK
  <2> QED
    BY <2>2, <2>3
<1>5. \A l \in Loads : Applying(l) => Applying(l)'
  BY DEF Applying, SameFrame
<1>6. ASSUME NEW l \in Loads PROVE (OwnsRequests(l) /\ WaitsRight(l) /\ InOrder(l))'
  <2>1. OwnsRequests(l) /\ WaitsRight(l) /\ InOrder(l)
    BY <1>6 DEF IInv
  <2>2. OwnsRequests(l)'
    <3>1. listed[l] = {p \in 0..MaxResources : <<l, p>> \in DOMAIN requests'}
      BY <1>6, <2>1 DEF OwnsRequests, SameLoadRequests
    <3> QED
      BY <1>1, <1>6, <3>1 DEF OwnsRequests, OnlyTopWaits
  <2>3. WaitsRight(l)'
    BY <1>1, <2>1 DEF WaitsRight
  <2>4. InOrder(l)'
    BY <1>1, <1>3, <1>5, <1>6, <2>1 DEF InOrder
  <2> QED
    BY <2>2, <2>3, <2>4
<1> QED
  BY <1>2, <1>4, <1>6 DEF IInv

LEMMA OnlyTheTopWaits == IInv => OnlyTopWaits
BY DEF IInv, OwnsRequests, OnlyTopWaits

SameSyncs ==
    \A l \in Loads : <<l, SyncPart>> \in DOMAIN requests' <=>
                        <<l, SyncPart>> \in DOMAIN requests

LEMMA ServedRequests ==
    ASSUME IInv, NEW served \in Served, requests' = served,
           ready' \subseteq DOMAIN served
    PROVE  ListTypes' /\ SameLoadRequests /\ SameSyncs
<1>1. /\ DOMAIN served \subseteq Requests /\ IsList(served)
      /\ \A id \in Requests \ {Job} :
             id \in DOMAIN served <=> id \in DOMAIN requests
  BY ServedLists DEF IInv
<1>2. ListTypes'
  BY <1>1 DEF ListTypes, IsList
<1>3. \A l \in Loads, p \in 0..SyncPart :
          <<l, p>> \in DOMAIN requests' <=> <<l, p>> \in DOMAIN requests
  BY <1>1, Identities
<1>4. SyncPart \in 0..SyncPart
  BY Parts
<1> QED
  BY <1>2, <1>3, <1>4, Parts DEF SameLoadRequests, SameSyncs

LEMMA TransferRequests ==
    ASSUME IInv, NEW served \in Served, Transfer(served)
    PROVE  ListTypes' /\ SameLoadRequests /\ SameSyncs
<1>1. requests' = served /\ ready' \subseteq DOMAIN served
  BY DEF Transfer
<1> QED
  BY <1>1, ServedRequests

\* The innermost page goes on to a place where it has the same behind it.
LEMMA MovedFrame ==
    ASSUME IInv, stack # <<>>, NEW at \in Places, MoveTop(at),
           stack[1].at \in InScript <=> at \in InScript
    PROVE  /\ stack' \in Seq(Frames) /\ SameFrame
           /\ stack'[1].load = stack[1].load /\ stack'[1].at = at
<1>1. /\ stack' \in Seq(Frames) /\ Len(stack') = 1 /\ stack' # <<>>
      /\ stack'[1].load = stack[1].load /\ stack'[1].next = stack[1].next
      /\ stack'[1].at = at /\ Len(stack) = 1
  BY TopMoved, TopFrame DEF IInv
<1>2. Past(stack'[1]) = Past(stack[1])
  BY <1>1 DEF Past
<1> QED
  BY <1>1, <1>2 DEF SameFrame

\* From a script to what comes after it.
LEMMA AdvancedFrame ==
    ASSUME IInv, stack # <<>>, stack[1].at \in InScript, NextResource
    PROVE  /\ stack' \in Seq(Frames) /\ SameFrame
           /\ stack'[1].load = stack[1].load /\ stack'[1].at = "apply"
<1>1. Len(stack) = 1 /\ stack[1] \in Frames
  BY TopFrame DEF IInv
<1>2. stack[1].load \in Loads /\ stack[1].next \in 1..(MaxResources + 1)
  BY <1>1 DEF Frames
<1>3. /\ resources[stack[1].load] \in Seq(Kinds)
      /\ Len(resources[stack[1].load]) <= MaxResources
  BY <1>2, BoundedSeqIsSeq, Parts DEF IInv, LoadTypes
<1>4. stack[1].next <= Len(resources[stack[1].load])
  BY DEF IInv, StackOK, Past
<1>5. stack[1].next <= MaxResources
  BY <1>2, <1>3, <1>4, Parts
<1>6. /\ stack' \in Seq(Frames) /\ Len(stack') = 1 /\ stack' # <<>>
      /\ stack'[1].load = stack[1].load
      /\ stack'[1].next = stack[1].next + 1 /\ stack'[1].at = "apply"
  BY <1>5, TopAdvanced DEF IInv
<1>7. PICK n \in Nat : n = stack[1].next
  BY <1>2, Parts
<1>8. "apply" \notin InScript
  BY DEF InScript
<1>9. Past(stack[1]) = n /\ Past(stack'[1]) = (n + 1) - 1
  BY <1>6, <1>7, <1>8 DEF Past
<1>10. Past(stack'[1]) = Past(stack[1])
  BY <1>7, <1>9
<1> QED
  BY <1>1, <1>6, <1>10 DEF SameFrame

\* Nobody waits for a synchronous request: it may go on anywhere.
LEMMA NobodyWaits ==
    ASSUME IInv, stack # <<>> => stack[1].at \notin Waits, SameSyncs
    PROVE  OnlyTopWaits'
<1>1. \A l \in Loads : <<l, SyncPart>> \notin DOMAIN requests
  BY OnlyTheTopWaits DEF OnlyTopWaits, Applying
<1>2. \A l \in Loads : <<l, SyncPart>> \notin DOMAIN requests'
  BY <1>1 DEF SameSyncs
<1> QED
  BY <1>2 DEF OnlyTopWaits, SyncPart

LEMMA TopKeepsWaiting ==
    ASSUME IInv, SameFrame, stack # <<>> => stack'[1].at \in Waits,
           SameSyncs
    PROVE  OnlyTopWaits'
BY OnlyTheTopWaits DEF OnlyTopWaits, SameSyncs, SameFrame, Applying

LEMMA SameStack == stack' = stack => SameFrame
BY DEF SameFrame

LEMMA TakeNothingHolds == ASSUME IInv, TakeNothing PROVE IInv'
<1>1. /\ UNCHANGED loadVars /\ requests' = requests /\ ready' = ready
      /\ stack = <<>> /\ stack' = stack /\ pc' = "service"
      /\ cancelled' = cancelled /\ networkFailed' = networkFailed
  BY DEF TakeNothing
<1>2. ListTypes' /\ ThreadTypes' /\ SameFrame /\ SameLoadRequests /\ SameSyncs
  BY <1>1, SameStack
     DEF IInv, ListTypes, IsList, ThreadTypes, SameLoadRequests, SameSyncs
<1> QED
  BY <1>1, <1>2, QuietHolds, NobodyWaits

LEMMA CancelHolds == ASSUME IInv, NEW l \in Loads, Cancel(l) PROVE IInv'
<1>1. /\ UNCHANGED loadVars /\ requests' = requests /\ ready' = ready
      /\ stack' = stack /\ pc' = pc
      /\ cancelled' = cancelled \cup {l} /\ networkFailed' = networkFailed
  BY DEF Cancel
<1>2. ListTypes' /\ ThreadTypes' /\ SameFrame /\ SameLoadRequests
  BY <1>1, SameStack DEF IInv, ListTypes, IsList, ThreadTypes, SameLoadRequests
<1>3. OnlyTopWaits'
  BY <1>1, OnlyTheTopWaits DEF OnlyTopWaits, Applying
<1> QED
  BY <1>1, <1>2, <1>3, QuietHolds

LEMMA StutterHolds == ASSUME IInv, UNCHANGED vars PROVE IInv'
<1>1. /\ UNCHANGED loadVars /\ requests' = requests /\ ready' = ready
      /\ stack' = stack /\ pc' = pc
      /\ cancelled' = cancelled /\ networkFailed' = networkFailed
  BY DEF vars
<1>2. ListTypes' /\ ThreadTypes' /\ SameFrame /\ SameLoadRequests
  BY <1>1, SameStack DEF IInv, ListTypes, IsList, ThreadTypes, SameLoadRequests
<1>3. OnlyTopWaits'
  BY <1>1, OnlyTheTopWaits DEF OnlyTopWaits, Applying
<1> QED
  BY <1>1, <1>2, <1>3, QuietHolds

LEMMA PollHolds == ASSUME IInv, Poll PROVE IInv'
<1>1. /\ UNCHANGED loadVars /\ stack = <<>> /\ stack' = stack
      /\ cancelled' = cancelled
  BY DEF Poll
<1>2. PICK served \in Served :
        /\ requests' = served /\ ready' \subseteq DOMAIN served
        /\ pc' \in {"dispatch", "reap", "take"}
        /\ networkFailed' \in {networkFailed, TRUE}
  BY DEF Poll, Transfer
<1>3. ListTypes' /\ SameLoadRequests /\ SameSyncs
  BY <1>2, ServedRequests
<1>4. ThreadTypes' /\ SameFrame
  BY <1>1, <1>2, SameStack DEF IInv, ThreadTypes
<1> QED
  BY <1>1, <1>3, <1>4, QuietHolds, NobodyWaits

\* A checkpoint: the page goes on from where it is, before or after a poll.
LEMMA RunCheckpointHolds ==
    ASSUME IInv, NEW ACTION Polls, NEW ACTION Returns, RunCheckpoint(Polls, Returns),
           Polls => stack' \in Seq(Frames) /\ SameFrame,
           Returns => stack' \in Seq(Frames) /\ SameFrame,
           stack[1].at \notin Waits
    PROVE  IInv'
<1>1. UNCHANGED loadVars /\ cancelled' = cancelled /\ pc' = pc
  BY DEF RunCheckpoint
<1>2. PICK served \in Served :
        /\ requests' = served /\ ready' \subseteq DOMAIN served
        /\ Polls \/ Returns
        /\ networkFailed' \in {networkFailed, TRUE}
  BY DEF RunCheckpoint, Transfer
<1>3. ListTypes' /\ SameLoadRequests /\ SameSyncs
  BY <1>2, ServedRequests
<1>4. ThreadTypes' /\ SameFrame
  BY <1>1, <1>2 DEF IInv, ThreadTypes
<1> QED
  BY <1>1, <1>3, <1>4, QuietHolds, NobodyWaits

LEMMA AtTopIs ==
    ASSUME IInv, NEW at, AtTop(at)
    PROVE  stack # <<>> /\ Top = stack[1] /\ stack[1].at = at
BY TopFrame DEF AtTop, IInv

LEMMA CheckpointHolds == ASSUME IInv, Checkpoint PROVE IInv'
<1>1. stack # <<>> /\ stack[1].at = "apply"
  BY AtTopIs DEF Checkpoint
<1>2. stack[1].at \notin Waits /\ stack[1].at \notin InScript
  BY <1>1 DEF Waits, InScript
<1>3. ASSUME NEW at \in {"checkpoint poll", "checked"}, MoveTop(at)
      PROVE  stack' \in Seq(Frames) /\ SameFrame
  <2>1. at \in Places /\ at \notin InScript
    BY <1>3 DEF Places, InScript
  <2> QED
    BY <1>1, <1>2, <1>3, <2>1, MovedFrame
<1> QED
  BY <1>2, <1>3, RunCheckpointHolds DEF Checkpoint

LEMMA EndScriptHolds == ASSUME IInv, EndScript PROVE IInv'
<1>1. stack # <<>> /\ stack[1].at = "script"
  BY AtTopIs DEF EndScript
<1>2. stack[1].at \notin Waits /\ stack[1].at \in InScript
  BY <1>1 DEF Waits, InScript
<1>3. NextResource => stack' \in Seq(Frames) /\ SameFrame
  BY <1>1, <1>2, AdvancedFrame
<1>4. MoveTop("crash poll") => stack' \in Seq(Frames) /\ SameFrame
  <2>1. "crash poll" \in Places /\ "crash poll" \in InScript
    BY DEF Places, InScript
  <2> QED
    BY <1>1, <1>2, <2>1, MovedFrame
<1>5. CASE /\ NextResource
           /\ UNCHANGED <<loadVars, cancelled, requests, ready, pc, networkFailed>>
  <2>1. /\ UNCHANGED loadVars /\ requests' = requests /\ ready' = ready
        /\ pc' = pc /\ cancelled' = cancelled /\ networkFailed' = networkFailed
    BY <1>5
  <2>2. ListTypes' /\ ThreadTypes' /\ SameFrame /\ SameLoadRequests /\ SameSyncs
    BY <1>3, <1>5, <2>1
       DEF IInv, ListTypes, IsList, ThreadTypes, SameLoadRequests, SameSyncs
  <2> QED
    BY <1>2, <2>1, <2>2, QuietHolds, NobodyWaits
<1>6. CASE RunCheckpoint(MoveTop("crash poll"), NextResource)
  BY <1>2, <1>3, <1>4, <1>6, RunCheckpointHolds
<1> QED
  BY <1>5, <1>6 DEF EndScript

LEMMA EndPollHolds == ASSUME IInv, EndPoll PROVE IInv'
<1>1. /\ UNCHANGED loadVars /\ requests' = requests /\ ready' = ready
      /\ cancelled' = cancelled /\ networkFailed' = networkFailed
  BY DEF EndPoll
<1>2. ListTypes' /\ SameLoadRequests /\ SameSyncs
  BY <1>1 DEF IInv, ListTypes, IsList, SameLoadRequests, SameSyncs
<1>3. CASE stack = <<>>
  <2>1. pc' = "reap" /\ stack' = stack
    BY <1>3 DEF EndPoll
  <2>2. ThreadTypes' /\ SameFrame
    BY <1>1, <2>1, SameStack DEF IInv, ThreadTypes
  <2> QED
    BY <1>1, <1>2, <1>3, <2>2, QuietHolds, NobodyWaits
<1>4. CASE stack # <<>>
  <2>1. Top = stack[1] /\ pc' = pc
    BY <1>4, TopFrame DEF IInv, EndPoll
  <2>2. stack[1].at \in {"checkpoint poll", "crash poll", "sync poll"}
    BY <1>4, <2>1 DEF EndPoll, Polling
  <2>3. stack[1].load \in Loads
    BY <1>4, TopFrame DEF IInv, Frames
  <2>4. ASSUME stack' \in Seq(Frames), SameFrame, OnlyTopWaits' PROVE IInv'
    <3>1. ThreadTypes'
      BY <1>1, <2>1, <2>4 DEF IInv, ThreadTypes
    <3> QED
      BY <1>1, <1>2, <2>4, <3>1, QuietHolds
  <2>5. CASE stack[1].at = "checkpoint poll"
    <3>1. MoveTop("checked")
      BY <1>4, <2>1, <2>5 DEF EndPoll
    <3>2. /\ "checked" \in Places /\ "checked" \notin InScript
          /\ stack[1].at \notin InScript /\ stack[1].at \notin Waits
      BY <2>5 DEF Places, InScript, Waits
    <3>3. stack' \in Seq(Frames) /\ SameFrame
      BY <1>4, <3>1, <3>2, MovedFrame
    <3> QED
      BY <1>2, <2>4, <3>2, <3>3, NobodyWaits
  <2>6. CASE stack[1].at = "crash poll"
    <3>1. NextResource
      BY <1>4, <2>1, <2>6 DEF EndPoll
    <3>2. stack[1].at \in InScript /\ stack[1].at \notin Waits
      BY <2>6 DEF InScript, Waits
    <3>3. stack' \in Seq(Frames) /\ SameFrame
      BY <1>4, <3>1, <3>2, AdvancedFrame
    <3> QED
      BY <1>2, <2>4, <3>2, <3>3, NobodyWaits
  <2>7. CASE stack[1].at = "sync poll"
    <3>1. /\ "script" \in Places /\ "script" \in InScript
          /\ "waiting" \in Places /\ "waiting" \in InScript
          /\ "waiting" \in Waits /\ stack[1].at \in InScript
      BY <2>7 DEF Places, InScript, Waits
    <3>2. CASE <<stack[1].load, SyncPart>> \in DOMAIN requests
      <4>1. MoveTop("waiting")
        BY <1>4, <2>1, <2>7, <3>2 DEF EndPoll
      <4>2. /\ stack' \in Seq(Frames) /\ SameFrame
            /\ stack'[1].at = "waiting"
        BY <1>4, <3>1, <4>1, MovedFrame
      <4> QED
        BY <1>2, <2>4, <3>1, <4>2, TopKeepsWaiting
    <3>3. CASE <<stack[1].load, SyncPart>> \notin DOMAIN requests
      <4>1. MoveTop("script")
        BY <1>4, <2>1, <2>7, <3>3 DEF EndPoll
      <4>2. stack' \in Seq(Frames) /\ SameFrame
        BY <1>4, <3>1, <4>1, MovedFrame
      <4>3. \A l \in Loads : <<l, SyncPart>> \notin DOMAIN requests
        BY <3>3, OnlyTheTopWaits DEF OnlyTopWaits, Applying
      <4>4. OnlyTopWaits'
        BY <1>1, <4>3 DEF OnlyTopWaits, SyncPart
      <4> QED
        BY <2>4, <4>2, <4>4
    <3> QED
      BY <3>2, <3>3
  <2> QED
    BY <2>2, <2>5, <2>6, <2>7
<1> QED
  BY <1>3, <1>4

\* The synchronous request is the script's only one.
LEMMA SendSyncHolds == ASSUME IInv, SendSync PROVE IInv'
<1>1. stack # <<>> /\ stack[1].at = "script" /\ Top = stack[1]
  BY AtTopIs DEF SendSync
<1>2. PICK l \in Loads : l = stack[1].load
  BY <1>1, TopFrame DEF IInv, Frames
<1>3. /\ UNCHANGED loadVars /\ cancelled' = cancelled /\ pc' = pc
      /\ networkFailed' = networkFailed
      /\ requests' = Submitted(<<l, SyncPart>>)
      /\ ready' \subseteq ready \cup {<<l, SyncPart>>}
      /\ MoveTop("waiting")
  BY <1>1, <1>2 DEF SendSync
<1>4. /\ "waiting" \in Places /\ "waiting" \in InScript
      /\ stack[1].at \in InScript /\ stack[1].at \notin Waits
      /\ "waiting" \in Waits
  BY <1>1 DEF Places, InScript, Waits
<1>5. <<l, SyncPart>> \notin DOMAIN requests
  BY <1>4, OnlyTheTopWaits DEF OnlyTopWaits
<1>6. <<l, SyncPart>> \in Requests
  BY Identities, Parts
<1>7. /\ DOMAIN requests' = DOMAIN requests \cup {<<l, SyncPart>>}
      /\ DOMAIN requests' \subseteq Requests /\ IsList(Submitted(<<l, SyncPart>>))
  BY <1>3, <1>5, <1>6, SubmittedList DEF IInv
<1>8. /\ stack' \in Seq(Frames) /\ SameFrame
      /\ stack'[1].load = l /\ stack'[1].at = "waiting"
  BY <1>1, <1>2, <1>3, <1>4, MovedFrame
<1>9. ListTypes' /\ ThreadTypes'
  <2>1. IsList(requests')
    BY <1>3, <1>7
  <2>2. ready' \subseteq DOMAIN requests'
    BY <1>3, <1>7 DEF IInv, ListTypes
  <2>3. ListTypes'
    BY <1>7, <2>1, <2>2 DEF ListTypes, IsList
  <2>4. ThreadTypes'
    BY <1>3, <1>8 DEF IInv, ThreadTypes
  <2> QED
    BY <2>3, <2>4
<1>10. SameLoadRequests
  BY <1>7, Parts DEF SameLoadRequests
<1>11. \A k \in Loads : <<k, SyncPart>> \in DOMAIN requests' => k = l
  BY <1>2, <1>7, OnlyTheTopWaits DEF OnlyTopWaits, Applying
<1>12. OnlyTopWaits'
  BY <1>1, <1>4, <1>8, <1>11 DEF OnlyTopWaits, Applying, SameFrame, SyncPart
<1> QED
  BY <1>3, <1>8, <1>9, <1>10, <1>12, QuietHolds

LEMMA WaitSyncHolds == ASSUME IInv, WaitSync PROVE IInv'
<1>1. stack # <<>> /\ stack[1].at = "waiting" /\ Top = stack[1]
  BY AtTopIs DEF WaitSync
<1>2. PICK l \in Loads : l = stack[1].load
  BY <1>1, TopFrame DEF IInv, Frames
<1>3. /\ UNCHANGED loadVars /\ cancelled' = cancelled /\ pc' = pc
      /\ networkFailed' = networkFailed
  BY DEF WaitSync
<1>4. PICK served \in Served :
        \/ Transfer(served) /\ MoveTop("sync poll")
        \/ /\ requests' = Without(served, {<<l, SyncPart>>})
           /\ ready' = ready \cap DOMAIN requests'
           /\ MoveTop("script")
  BY <1>1, <1>2 DEF WaitSync
<1>5. /\ "sync poll" \in Places /\ "sync poll" \in InScript
      /\ "script" \in Places /\ "script" \in InScript
      /\ stack[1].at \in InScript /\ "sync poll" \in Waits
  BY <1>1 DEF Places, InScript, Waits
<1>6. CASE Transfer(served) /\ MoveTop("sync poll")
  <2>1. ListTypes' /\ SameLoadRequests /\ SameSyncs
    BY <1>6, TransferRequests
  <2>2. stack' \in Seq(Frames) /\ SameFrame /\ stack'[1].at = "sync poll"
    BY <1>1, <1>5, <1>6, MovedFrame
  <2>3. ThreadTypes'
    BY <1>3, <2>2 DEF IInv, ThreadTypes
  <2>4. OnlyTopWaits'
    BY <1>5, <2>1, <2>2, TopKeepsWaiting
  <2> QED
    BY <1>3, <2>1, <2>2, <2>3, <2>4, QuietHolds
<1>7. CASE /\ requests' = Without(served, {<<l, SyncPart>>})
           /\ ready' = ready \cap DOMAIN requests'
           /\ MoveTop("script")
  <2>1. /\ DOMAIN served \subseteq Requests /\ IsList(served)
        /\ \A id \in Requests \ {Job} :
               id \in DOMAIN served <=> id \in DOMAIN requests
    BY ServedLists DEF IInv
  <2>2. /\ DOMAIN requests' = DOMAIN served \ {<<l, SyncPart>>}
        /\ IsList(Without(served, {<<l, SyncPart>>}))
    BY <1>7, <2>1, WithoutList
  <2>3. ListTypes'
    BY <1>7, <2>1, <2>2 DEF ListTypes, IsList
  <2>4. stack' \in Seq(Frames) /\ SameFrame
    BY <1>1, <1>5, <1>7, MovedFrame
  <2>5. ThreadTypes'
    BY <1>3, <2>4 DEF IInv, ThreadTypes
  <2>6. \A k \in Loads, p \in 0..SyncPart : <<k, p>> \in Requests \ {Job}
    BY Identities
  <2>7. SameLoadRequests
    BY <2>1, <2>2, <2>6, Parts DEF SameLoadRequests
  <2>8. \A k \in Loads : <<k, SyncPart>> \in DOMAIN requests' =>
            k # l /\ <<k, SyncPart>> \in DOMAIN requests
    BY <2>1, <2>2, <2>6, Parts
  <2>9. \A k \in Loads : <<k, SyncPart>> \notin DOMAIN requests'
    BY <1>2, <2>8, OnlyTheTopWaits DEF OnlyTopWaits, Applying
  <2>10. OnlyTopWaits'
    BY <2>9 DEF OnlyTopWaits, SyncPart
  <2> QED
    BY <1>3, <2>3, <2>4, <2>5, <2>7, <2>10, QuietHolds
<1> QED
  BY <1>4, <1>6, <1>7

\* The callback of a job or of the script's request touches no load.
LEMMA DispatchOtherHolds ==
    ASSUME IInv, NEW id \in DOMAIN requests, id = Job \/ id[2] = SyncPart,
           Polling, requests' = Without(requests, {id}), ready' = ready \ {id},
           UNCHANGED <<loadVars, cancelled, stack, pc, networkFailed>>
    PROVE  IInv'
<1>1. DOMAIN requests \subseteq Requests /\ IsList(requests)
  BY DEF IInv, ListTypes
<1>2. DOMAIN requests' = DOMAIN requests \ {id} /\ IsList(Without(requests, {id}))
  BY <1>1, WithoutList
<1>3. ListTypes' /\ ThreadTypes' /\ SameFrame
  BY <1>1, <1>2, SameStack DEF IInv, ListTypes, IsList, ThreadTypes
<1>4. \A l \in Loads, p \in 0..MaxResources : <<l, p>> # id
  BY Identities, Parts
<1>5. SameLoadRequests
  BY <1>2, <1>4 DEF SameLoadRequests
<1>6. OnlyTopWaits'
  BY <1>2, OnlyTheTopWaits DEF OnlyTopWaits, Applying
<1> QED
  BY <1>3, <1>5, <1>6, QuietHolds

-----------------------------------------------------------------------------
(* Steps that change one load.                                             *)

LEMMA Empties ==
    /\ \A S : <<>> \in BoundedSeq(S, MaxResources)
    /\ NoAnswers \in [1..MaxResources -> {"none", "ok", "failed"}]
    /\ 0 \in 0..MaxResources
<1>1. ASSUME NEW S PROVE <<>> \in BoundedSeq(S, MaxResources)
  <2>1. PICK n \in Nat : n = MaxResources
    BY Parts
  <2>2. <<>> \in Seq(S) /\ Len(<<>>) <= n
    BY <2>1
  <2> QED
    BY <2>1, <2>2, BoundedSeqIsSeq
<1> QED
  BY <1>1, Parts DEF NoAnswers

SameLoad(l) ==
    /\ status'[l] = status[l] /\ ended'[l] = ended[l] /\ page'[l] = page[l]
    /\ resources'[l] = resources[l] /\ answers'[l] = answers[l]
    /\ listed'[l] = listed[l] /\ pending'[l] = pending[l]
    /\ applied'[l] = applied[l]
    /\ \A p \in 0..SyncPart : <<l, p>> \in DOMAIN requests' <=>
                                 <<l, p>> \in DOMAIN requests

\* A load that neither changes nor is being applied.
LEMMA OtherHolds ==
    ASSUME IInv, NEW l \in Loads, ~Applying(l), SameLoad(l)
    PROVE  (OwnsRequests(l) /\ WaitsRight(l) /\ InOrder(l))'
<1>1. OwnsRequests(l) /\ WaitsRight(l) /\ InOrder(l)
  BY DEF IInv
<1>2. OwnsRequests(l)'
  <2>1. listed'[l] = {p \in 0..MaxResources : <<l, p>> \in DOMAIN requests'}
    BY <1>1, Parts DEF OwnsRequests, SameLoad
  <2>2. <<l, SyncPart>> \notin DOMAIN requests'
    BY <1>1, Parts DEF OwnsRequests, SameLoad
  <2> QED
    BY <2>1, <2>2 DEF OwnsRequests, SyncPart
<1>3. WaitsRight(l)'
  BY <1>1 DEF WaitsRight, SameLoad
<1>4. InOrder(l)'
  <2>1. \A n : UsableTo(l, n)' = UsableTo(l, n)
    BY UsableSame DEF SameLoad
  <2> QED
    BY <1>1, <2>1 DEF InOrder, SameLoad
<1> QED
  BY <1>2, <1>3, <1>4

\* No requests, nothing applied: what a load has before its answer.
LEMMA NotAppliedYet ==
    ASSUME IInv, NEW l \in Loads, ~Applying(l), page[l] # "ready"
    PROVE  applied[l] = <<>> /\ <<l, SyncPart>> \notin DOMAIN requests
BY DEF IInv, InOrder, OwnsRequests

LEMMA ApplyStack ==
    ASSUME stack = <<>>, NEW l \in Loads, Apply(l), status'[l] = "live",
           listed'[l] = {}, applied'[l] = <<>>,
           resources'[l] \in Seq(Kinds)
    PROVE  stack' \in Seq(Frames) /\ StackOK' /\ Applying(l)'
<1> DEFINE frame == [load |-> l, next |-> 1, at |-> "apply"]
<1>1. frame \in Frames
  BY Parts DEF Frames, Places
<1>2. frame.load = l /\ frame.next = 1 /\ frame.at = "apply"
  OBVIOUS
<1>3. stack' = <<frame>>
  BY DEF Apply
<1> HIDE DEF frame
<1>4. stack' \in Seq(Frames) /\ stack' # <<>> /\ Len(stack') = 1
      /\ stack'[1] = frame
  BY <1>1, <1>3
<1>5. "apply" \notin InScript
  BY DEF InScript
<1>6. Past(stack[1])' = 0 /\ (stack[1].load)' = l
  BY <1>2, <1>4, <1>5 DEF Past
<1>7. UsableTo(l, 0)' = {} /\ Range(applied'[l]) = {}
  BY DEF UsableTo, Range
<1>8. UsableTo(stack[1].load, Past(stack[1]))' = UsableTo(l, 0)'
  BY <1>6 DEF UsableTo, HasContent
<1>9. 0 <= Len(resources'[l]) /\ Len(applied'[l]) = 0
  OBVIOUS
<1>10. StackOK'
  <2> DEFINE past == Past(stack[1])'
  <2>1. past = 0
    BY <1>6
  <2> HIDE DEF past
  <2>2. past <= Len(resources'[l]) /\ Len(applied'[l]) <= past
    BY <1>9, <2>1
  <2> USE DEF past
  <2>3. Range(applied'[l]) = UsableTo(stack[1].load, Past(stack[1]))'
    BY <1>7, <1>8
  <2> QED
    BY <1>4, <1>6, <2>2, <2>3 DEF StackOK
<1>11. Applying(l)'
  BY <1>2, <1>4 DEF Applying
<1> QED
  BY <1>4, <1>10, <1>11

LEMMA EndTypes ==
    ASSUME LoadTypes, NEW l \in Loads, NEW result \in {"none", "ready"},
           End(l, result)
    PROVE  /\ status' \in [Loads -> {"unborn", "live", "gone"}]
           /\ ended' \in [Loads -> Nat]
           /\ page' \in [Loads -> {"none", "ready"}]
           /\ status'[l] = "gone" /\ page'[l] = result
           /\ ended'[l] = ended[l] + 1
           /\ \A k \in Loads \ {l} :
                  /\ status'[k] = status[k] /\ ended'[k] = ended[k]
                  /\ page'[k] = page[k]
BY DEF LoadTypes, End

LEMMA ForgetTypes ==
    ASSUME LoadTypes, NEW loads, Forget(loads)
    PROVE  /\ resources' \in [Loads -> BoundedSeq(Kinds, MaxResources)]
           /\ answers' \in [Loads -> [1..MaxResources ->
                                         {"none", "ok", "failed"}]]
           /\ pending' \in [Loads -> 0..MaxResources]
           /\ applied' \in [Loads -> BoundedSeq(1..MaxResources, MaxResources)]
           /\ \A l \in Loads \ loads :
                  /\ resources'[l] = resources[l] /\ answers'[l] = answers[l]
                  /\ pending'[l] = pending[l] /\ applied'[l] = applied[l]
           /\ \A l \in Loads \cap loads : applied'[l] = <<>>
BY Empties DEF LoadTypes, Forget

LEMMA StartLoadHolds ==
    ASSUME IInv, NEW l \in Loads, StartLoad(l) PROVE IInv'
<1>1. /\ stack = <<>> /\ status[l] = "unborn" /\ stack' = stack
      /\ cancelled' = cancelled /\ networkFailed' = networkFailed
      /\ pc' = "service"
      /\ resources' = resources /\ answers' = answers /\ pending' = pending
      /\ applied' = applied
  BY DEF StartLoad
<1>2. \A k \in Loads : ~Applying(k)
  BY <1>1 DEF Applying
<1>3. ThreadTypes' /\ StackOK'
  BY <1>1 DEF IInv, ThreadTypes, StackOK
<1>4. OwnsRequests(l) /\ WaitsRight(l) /\ InOrder(l) /\ LoadTypes /\ ListTypes
  BY DEF IInv
<1>5. /\ listed[l] = {} /\ page[l] # "ready" /\ ended[l] = 0 /\ applied[l] = <<>>
      /\ pending[l] = Cardinality({} \ {0})
      /\ <<l, SyncPart>> \notin DOMAIN requests
  BY <1>1, <1>2, <1>4, NotAppliedYet DEF WaitsRight
<1>6. pending[l] = 0
  BY <1>5, FS_EmptySet
<1>7. \A p \in 0..MaxResources : <<l, p>> \notin DOMAIN requests
  BY <1>4, <1>5 DEF OwnsRequests
<1>8. page'[l] # "ready" => InOrder(l)'
  BY <1>1, <1>5 DEF InOrder
<1>9. CASE /\ status' = [status EXCEPT ![l] = "live"]
           /\ requests' = Submitted(<<l, 0>>)
           /\ listed' = [listed EXCEPT ![l] = {0}]
           /\ ready' \in {ready, ready \cup {<<l, 0>>}}
           /\ UNCHANGED <<ended, page>>
  <2>1. <<l, 0>> \in Requests /\ <<l, 0>> \notin DOMAIN requests
    BY <1>7, Identities, Parts
  <2>2. /\ DOMAIN requests' = DOMAIN requests \cup {<<l, 0>>}
        /\ DOMAIN requests' \subseteq Requests /\ IsList(Submitted(<<l, 0>>))
    BY <1>4, <1>9, <2>1, SubmittedList
  <2>3. ListTypes'
    <3>1. IsList(requests') /\ ready' \subseteq DOMAIN requests'
      BY <1>4, <1>9, <2>2 DEF ListTypes
    <3> QED
      BY <2>2, <3>1 DEF ListTypes, IsList
  <2>4. LoadTypes'
    <3>1. {0} \in SUBSET (0..MaxResources)
      BY Parts
    <3> QED
      BY <1>1, <1>4, <1>9, <3>1 DEF LoadTypes
  <2>5. ASSUME NEW k \in Loads, k # l
        PROVE  (OwnsRequests(k) /\ WaitsRight(k) /\ InOrder(k))'
    <3>1. SameLoad(k)
      BY <1>1, <1>4, <1>9, <2>2, <2>5 DEF SameLoad, LoadTypes
    <3> QED
      BY <1>2, <3>1, OtherHolds
  <2>6. /\ status'[l] = "live" /\ listed'[l] = {0} /\ page'[l] = page[l]
        /\ ended'[l] = 0 /\ pending'[l] = 0
    BY <1>1, <1>4, <1>5, <1>6, <1>9 DEF LoadTypes
  <2>7. Cardinality({0} \ {0}) = 0
    BY FS_EmptySet
  <2>8. WaitsRight(l)'
    BY <1>5, <2>6, <2>7 DEF WaitsRight
  <2>9. OwnsRequests(l)'
    <3>1. {0} = {p \in 0..MaxResources : <<l, p>> \in DOMAIN requests'}
      BY <1>7, <2>2, Parts
    <3>2. <<l, SyncPart>> \notin DOMAIN requests'
      BY <1>5, <2>2, Parts
    <3> QED
      BY <2>6, <3>1, <3>2 DEF OwnsRequests, SyncPart
  <2>10. InOrder(l)'
    BY <1>5, <1>8, <2>6
  <2> QED
    BY <1>3, <2>3, <2>4, <2>5, <2>8, <2>9, <2>10 DEF IInv
<1>10. CASE End(l, "none") /\ UNCHANGED <<requests, listed, ready>>
  <2>1. /\ status' \in [Loads -> {"unborn", "live", "gone"}]
        /\ ended' \in [Loads -> Nat]
        /\ page' \in [Loads -> {"none", "ready"}]
        /\ status'[l] = "gone" /\ page'[l] = "none" /\ ended'[l] = 1
        /\ \A k \in Loads \ {l} :
               /\ status'[k] = status[k] /\ ended'[k] = ended[k]
               /\ page'[k] = page[k]
    BY <1>4, <1>5, <1>10, EndTypes
  <2>2. ListTypes' /\ LoadTypes'
    BY <1>1, <1>4, <1>10, <2>1 DEF ListTypes, IsList, LoadTypes
  <2>3. ASSUME NEW k \in Loads, k # l
        PROVE  (OwnsRequests(k) /\ WaitsRight(k) /\ InOrder(k))'
    <3>1. SameLoad(k)
      BY <1>1, <1>10, <2>1, <2>3 DEF SameLoad
    <3> QED
      BY <1>2, <3>1, OtherHolds
  <2>4. OwnsRequests(l)' /\ WaitsRight(l)' /\ InOrder(l)'
    <3>1. listed'[l] = {} /\ requests' = requests
      BY <1>5, <1>10
    <3>2. WaitsRight(l)'
      BY <2>1, <3>1 DEF WaitsRight
    <3>3. OwnsRequests(l)'
      BY <1>4, <1>5, <3>1 DEF OwnsRequests, SyncPart
    <3> QED
      BY <1>8, <2>1, <3>2, <3>3
  <2> QED
    BY <1>3, <2>2, <2>3, <2>4 DEF IInv
<1> QED
  BY <1>9, <1>10 DEF StartLoad

LEMMA StartMarkupHolds ==
    ASSUME IInv, NEW l \in Loads, StartMarkup(l) PROVE IInv'
<1>1. /\ stack = <<>> /\ status[l] = "unborn"
      /\ cancelled' = cancelled /\ networkFailed' = networkFailed
      /\ pc' = "service" /\ requests' = requests /\ ready' = ready
      /\ status' = [status EXCEPT ![l] = "live"] /\ Apply(l)
      /\ ended' = ended /\ page' = page
      /\ resources' = resources /\ answers' = answers /\ listed' = listed
      /\ pending' = pending /\ applied' = applied
  BY DEF StartMarkup
<1>2. \A k \in Loads : ~Applying(k)
  BY <1>1 DEF Applying
<1>3. OwnsRequests(l) /\ WaitsRight(l) /\ InOrder(l) /\ LoadTypes /\ ListTypes
  BY DEF IInv
<1>4. /\ listed[l] = {} /\ page[l] # "ready" /\ ended[l] = 0 /\ applied[l] = <<>>
      /\ pending[l] = Cardinality({} \ {0})
      /\ <<l, SyncPart>> \notin DOMAIN requests
  BY <1>1, <1>2, <1>3, NotAppliedYet DEF WaitsRight
<1>5. status'[l] = "live" /\ resources'[l] \in Seq(Kinds)
  <2>1. PICK n \in Nat : n = MaxResources
    BY Parts
  <2>2. resources'[l] \in BoundedSeq(Kinds, n)
    BY <1>1, <1>3, <2>1 DEF LoadTypes
  <2> QED
    BY <1>1, <1>3, <2>2, BoundedSeqIsSeq DEF LoadTypes
<1>6. stack' \in Seq(Frames) /\ StackOK' /\ Applying(l)'
  BY <1>1, <1>4, <1>5, ApplyStack
<1>7. LoadTypes' /\ ListTypes' /\ ThreadTypes'
  BY <1>1, <1>3, <1>6
     DEF IInv, LoadTypes, ListTypes, IsList, ThreadTypes
<1>8. ASSUME NEW k \in Loads, k # l
      PROVE  (OwnsRequests(k) /\ WaitsRight(k) /\ InOrder(k))'
  <2>1. SameLoad(k)
    BY <1>1, <1>3, <1>8 DEF SameLoad, LoadTypes
  <2> QED
    BY <1>2, <2>1, OtherHolds
<1>9. OwnsRequests(l)' /\ WaitsRight(l)' /\ InOrder(l)'
  <2>1. OwnsRequests(l)'
    BY <1>1, <1>3, <1>4 DEF OwnsRequests, SyncPart
  <2>2. WaitsRight(l)'
    BY <1>1, <1>4, <1>5 DEF WaitsRight
  <2>3. InOrder(l)'
    BY <1>1, <1>4 DEF InOrder
  <2> QED
    BY <2>1, <2>2, <2>3
<1> QED
  BY <1>6, <1>7, <1>8, <1>9 DEF IInv

\* A poll calls a page load back only when no page is being applied.
LEMMA DispatchOfLoad ==
    ASSUME IInv, NEW id \in DOMAIN requests, Dispatchable(id), id # Job,
           id[2] \in 0..MaxResources
    PROVE  /\ stack = <<>> /\ id[1] \in Loads /\ id = <<id[1], id[2]>>
           /\ id[2] \in listed[id[1]] /\ status[id[1]] = "live"
           /\ page[id[1]] # "ready" /\ applied[id[1]] = <<>>
           /\ <<id[1], SyncPart>> \notin DOMAIN requests
<1>1. id \in Requests
  BY DEF IInv, ListTypes
<1>2. id[1] \in Loads /\ id = <<id[1], id[2]>>
  BY <1>1, Identities
<1>3. stack = <<>>
  BY Parts DEF Dispatchable
<1>4. id[2] \in listed[id[1]]
  BY <1>2 DEF IInv, OwnsRequests
<1>5. status[id[1]] = "live" /\ page[id[1]] # "ready"
  BY <1>2, <1>4 DEF IInv, WaitsRight
<1>6. ~Applying(id[1])
  BY <1>3 DEF Applying
<1> QED
  BY <1>2, <1>3, <1>4, <1>5, <1>6, NotAppliedYet

LEMMA FinishDocumentHolds ==
    ASSUME IInv, NEW id \in DOMAIN requests, Dispatchable(id), id # Job,
           id[2] = 0, FinishDocument(id[1], Without(requests, {id})),
           UNCHANGED <<applied, cancelled, pc, networkFailed>>
    PROVE  IInv'
<1>1. PICK l \in Loads : id = <<l, 0>>
  <2>1. id[2] \in 0..MaxResources
    BY Parts
  <2>2. id[1] \in Loads /\ id = <<id[1], id[2]>>
    BY <2>1, DispatchOfLoad
  <2> QED
    BY <2>2
<1>2. /\ stack = <<>> /\ 0 \in listed[l] /\ status[l] = "live"
      /\ page[l] # "ready" /\ applied[l] = <<>>
      /\ <<l, SyncPart>> \notin DOMAIN requests
  BY <1>1, DispatchOfLoad, Parts
<1>3. OwnsRequests(l) /\ WaitsRight(l) /\ InOrder(l) /\ LoadTypes /\ ListTypes
  BY DEF IInv
<1>4. listed[l] = {0} /\ ended[l] = 0
  BY <1>2, <1>3 DEF WaitsRight
<1>5. \A p \in 0..SyncPart : p # 0 => <<l, p>> \notin DOMAIN requests
  BY <1>2, <1>3, <1>4, Parts DEF OwnsRequests
<1>6. DOMAIN requests \subseteq Requests /\ IsList(requests)
      /\ ready \subseteq DOMAIN requests
  BY <1>3 DEF ListTypes
<1>7. PICK rest : rest = Without(requests, {id})
  OBVIOUS
<1>8. DOMAIN rest = DOMAIN requests \ {<<l, 0>>} /\ IsList(rest)
  BY <1>1, <1>6, <1>7, WithoutList
<1>9. \A p \in 0..SyncPart : <<l, p>> \notin DOMAIN rest
  BY <1>5, <1>8
<1>10. \A k \in Loads : ~Applying(k)
  BY <1>2 DEF Applying
<1>11. applied' = applied /\ cancelled' = cancelled /\ pc' = pc
       /\ networkFailed' = networkFailed
  OBVIOUS
<1>12. CASE /\ End(l, "none")
            /\ listed' = [listed EXCEPT ![l] = {}]
            /\ requests' = rest
            /\ ready' = ready \ {<<l, 0>>}
            /\ UNCHANGED <<resources, answers, pending, stack>>
  <2>1. /\ status' \in [Loads -> {"unborn", "live", "gone"}]
        /\ ended' \in [Loads -> Nat]
        /\ page' \in [Loads -> {"none", "ready"}]
        /\ status'[l] = "gone" /\ page'[l] = "none" /\ ended'[l] = 1
        /\ \A k \in Loads \ {l} :
               /\ status'[k] = status[k] /\ ended'[k] = ended[k]
               /\ page'[k] = page[k]
    BY <1>3, <1>4, <1>12, EndTypes
  <2>2. LoadTypes'
    BY <1>3, <1>11, <1>12, <2>1 DEF LoadTypes
  <2>3. ListTypes'
    BY <1>6, <1>8, <1>12 DEF ListTypes, IsList
  <2>4. ThreadTypes' /\ StackOK'
    BY <1>2, <1>11, <1>12 DEF IInv, ThreadTypes, StackOK
  <2>5. ASSUME NEW k \in Loads, k # l
        PROVE  (OwnsRequests(k) /\ WaitsRight(k) /\ InOrder(k))'
    <3>1. SameLoad(k)
      BY <1>3, <1>8, <1>11, <1>12, <2>1, <2>5 DEF SameLoad, LoadTypes
    <3> QED
      BY <1>10, <3>1, OtherHolds
  <2>6. listed'[l] = {} /\ applied'[l] = <<>>
    BY <1>2, <1>3, <1>11, <1>12 DEF LoadTypes
  <2>7. OwnsRequests(l)'
    <3>1. \A p \in 0..SyncPart : <<l, p>> \notin DOMAIN requests'
      BY <1>9, <1>12
    <3> QED
      BY <2>6, <3>1, Parts DEF OwnsRequests, SyncPart
  <2>8. WaitsRight(l)'
    BY <2>1, <2>6 DEF WaitsRight
  <2>9. InOrder(l)'
    BY <2>1, <2>6 DEF InOrder
  <2> QED
    BY <2>2, <2>3, <2>4, <2>5, <2>7, <2>8, <2>9 DEF IInv
<1>13. ASSUME NEW kinds \in BoundedSeq(Kinds, MaxResources),
              NEW accepted \in SUBSET {i \in DOMAIN kinds : External(kinds[i])},
              NEW instant \in SUBSET accepted,
              resources' = [resources EXCEPT ![l] = kinds],
              SubmitResources(l, accepted),
              requests' = SubmittedAll(rest, l, accepted),
              ready' = (ready \ {<<l, 0>>}) \cup ({l} \X instant),
              IF pending'[l] = 0 THEN Apply(l) ELSE UNCHANGED stack,
              UNCHANGED <<status, ended, page, answers>>
       PROVE  IInv'
  <2>1. PICK n \in Nat : n = MaxResources
    BY Parts
  <2>2. kinds \in Seq(Kinds) /\ Len(kinds) <= n
    BY <2>1, BoundedSeqIsSeq
  <2>3. accepted \subseteq 1..n /\ accepted \subseteq 0..MaxResources
        /\ accepted \subseteq Nat /\ 0 \notin accepted
    BY <2>1, <2>2
  <2>4. IsFiniteSet(accepted) /\ Cardinality(accepted) \in 0..n
    <3>1. IsFiniteSet(1..n) /\ Cardinality(1..n) = n
      BY FS_Interval
    <3>2. IsFiniteSet(accepted) /\ Cardinality(accepted) <= n
      <4>1. accepted \in SUBSET (1..n)
        BY <2>3
      <4> HIDE <2>3
      <4> QED
        BY <3>1, <4>1, FS_Subset
    <3>3. Cardinality(accepted) \in Nat
      BY <3>2, FS_CardinalityType
    <3> QED
      BY <3>2, <3>3
  <2>5. /\ listed' = [listed EXCEPT ![l] = accepted]
        /\ pending' = [pending EXCEPT ![l] = Cardinality(accepted)]
    BY <1>13 DEF SubmitResources
  <2>6. LoadTypes'
    BY <1>3, <1>11, <1>13, <2>1, <2>3, <2>4, <2>5 DEF LoadTypes
  <2>7. /\ listed'[l] = accepted /\ pending'[l] = Cardinality(accepted)
        /\ applied'[l] = <<>> /\ status'[l] = "live" /\ resources'[l] = kinds
        /\ ended'[l] = 0 /\ page'[l] # "ready"
    BY <1>2, <1>3, <1>4, <1>11, <1>13, <2>5 DEF LoadTypes
  <2>8. \A i \in accepted : <<l, i>> \notin DOMAIN rest
    BY <1>9, <2>3, Parts
  <2>9. /\ DOMAIN requests' = DOMAIN rest \cup ({l} \X accepted)
        /\ IsList(SubmittedAll(rest, l, accepted))
    <3>1. accepted \in SUBSET Nat
      BY <2>3
    <3>2. /\ DOMAIN SubmittedAll(rest, l, accepted)
               = DOMAIN rest \cup ({l} \X accepted)
          /\ IsList(SubmittedAll(rest, l, accepted))
      BY <1>8, <2>8, <3>1, SubmittedAllList
    <3> QED
      BY <1>13, <3>2
  <2>10. ListTypes'
    <3>1. {l} \X accepted \subseteq Requests
      BY <2>3, Identities, Parts
    <3>2. DOMAIN requests' \subseteq Requests /\ IsList(requests')
      BY <1>6, <1>8, <1>13, <2>9, <3>1
    <3>3. ready' \subseteq DOMAIN requests'
      BY <1>6, <1>8, <1>13, <2>9
    <3> QED
      BY <3>2, <3>3 DEF ListTypes, IsList
  <2>11. stack' \in Seq(Frames) /\ StackOK'
    <3>1. CASE pending'[l] = 0
      <4>1. accepted = {}
        BY <2>4, <2>7, <3>1, FS_EmptySet
      <4> QED
        BY <1>2, <1>13, <2>2, <2>7, <3>1, <4>1, ApplyStack
    <3>2. CASE pending'[l] # 0
      BY <1>2, <1>13, <3>2 DEF IInv, ThreadTypes, StackOK
    <3> QED
      BY <3>1, <3>2
  <2>12. ThreadTypes'
    BY <1>11, <2>11 DEF IInv, ThreadTypes
  <2>13. ASSUME NEW k \in Loads, k # l
         PROVE  (OwnsRequests(k) /\ WaitsRight(k) /\ InOrder(k))'
    <3>1. \A p \in 0..SyncPart : <<k, p>> \in DOMAIN requests' <=>
                                    <<k, p>> \in DOMAIN requests
      BY <1>8, <2>9, <2>13
    <3>2. SameLoad(k)
      BY <1>3, <1>11, <1>13, <2>5, <2>13, <3>1 DEF SameLoad, LoadTypes
    <3> QED
      BY <1>10, <3>2, OtherHolds
  <2>14. OwnsRequests(l)'
    <3>1. \A p \in 0..SyncPart : <<l, p>> \in DOMAIN requests' <=> p \in accepted
      BY <1>9, <2>9
    <3>2. accepted = {p \in 0..MaxResources : <<l, p>> \in DOMAIN requests'}
      BY <2>3, <3>1, Parts
    <3>3. <<l, SyncPart>> \notin DOMAIN requests'
      BY <2>3, <3>1, Parts
    <3> QED
      BY <2>7, <3>2, <3>3 DEF OwnsRequests, SyncPart
  <2>15. WaitsRight(l)'
    <3>1. accepted \ {0} = accepted
      BY <2>3
    <3> QED
      BY <2>3, <2>7, <3>1 DEF WaitsRight
  <2>16. InOrder(l)'
    BY <2>7 DEF InOrder
  <2> QED
    BY <2>6, <2>10, <2>11, <2>12, <2>13, <2>14, <2>15, <2>16 DEF IInv
<1>14. id[1] = l
  BY <1>1
<1> QED
  BY <1>7, <1>12, <1>13, <1>14 DEF FinishDocument

LEMMA FinishResourceHolds ==
    ASSUME IInv, NEW id \in DOMAIN requests, Dispatchable(id), id # Job,
           id[2] \in 1..MaxResources,
           FinishResource(id[1], id[2], Without(requests, {id})),
           UNCHANGED <<applied, cancelled, pc, networkFailed>>
    PROVE  IInv'
<1>1. PICK l \in Loads, i \in 1..MaxResources : id = <<l, i>>
  <2>1. id[2] \in 0..MaxResources
    BY Parts
  <2>2. id[1] \in Loads /\ id = <<id[1], id[2]>>
    BY <2>1, DispatchOfLoad
  <2> QED
    BY <2>2
<1>2. /\ stack = <<>> /\ i \in listed[l] /\ status[l] = "live"
      /\ page[l] # "ready" /\ applied[l] = <<>>
      /\ <<l, SyncPart>> \notin DOMAIN requests
  BY <1>1, DispatchOfLoad, Parts
<1>3. OwnsRequests(l) /\ WaitsRight(l) /\ InOrder(l) /\ LoadTypes /\ ListTypes
  BY DEF IInv
<1>4. i \in Nat /\ i # 0
  BY Parts
<1>5. /\ 0 \notin listed[l] /\ ended[l] = 0
      /\ pending[l] = Cardinality(listed[l] \ {0})
  BY <1>2, <1>3, <1>4 DEF WaitsRight
<1>6. listed[l] \ {0} = listed[l] /\ (listed[l] \ {i}) \ {0} = listed[l] \ {i}
  BY <1>5
<1>7. pending[l] = Cardinality(listed[l])
  BY <1>5, <1>6, Zenon
<1>8. /\ IsFiniteSet(listed[l]) /\ Cardinality(listed[l]) \in Nat
      /\ IsFiniteSet(listed[l] \ {i})
      /\ Cardinality(listed[l] \ {i}) = Cardinality(listed[l]) - 1
      /\ Cardinality(listed[l] \ {i}) \in Nat
  <2>1. IsFiniteSet(0..MaxResources)
    BY Parts, FS_Interval
  <2>2. listed[l] \in SUBSET (0..MaxResources)
    BY <1>3 DEF LoadTypes
  <2>3. IsFiniteSet(listed[l])
    BY <2>1, <2>2, FS_Subset
  <2>4. IsFiniteSet(listed[l] \ {i})
        /\ Cardinality(listed[l] \ {i}) = Cardinality(listed[l]) - 1
    BY <1>2, <2>3, FS_RemoveElement
  <2> QED
    BY <2>3, <2>4, FS_CardinalityType
<1>9. PICK n \in Nat : n = MaxResources /\ pending[l] \in 0..n
  BY <1>3, Parts DEF LoadTypes
<1>10. PICK rest : rest = Without(requests, {id})
  OBVIOUS
<1>11. DOMAIN requests \subseteq Requests /\ IsList(requests)
       /\ ready \subseteq DOMAIN requests
  BY <1>3 DEF ListTypes
<1>12. DOMAIN rest = DOMAIN requests \ {<<l, i>>} /\ IsList(rest)
  BY <1>1, <1>10, <1>11, WithoutList
<1>13. \A k \in Loads : ~Applying(k)
  BY <1>2 DEF Applying
<1>14. PICK answer \in {"ok", "failed"} :
        /\ listed' = [listed EXCEPT ![l] = listed[l] \ {i}]
        /\ answers' = [answers EXCEPT ![l][i] = answer]
        /\ pending' = [pending EXCEPT ![l] = IF pending[l] > 0
                                             THEN pending[l] - 1 ELSE 0]
        /\ IF pending[l] <= 1 THEN Apply(l) ELSE UNCHANGED stack
        /\ requests' = rest
        /\ ready' = ready \ {<<l, i>>}
        /\ status' = status /\ ended' = ended /\ page' = page
        /\ resources' = resources
  <2>1. id[1] = l /\ id[2] = i
    BY <1>1
  <2>2. FinishResource(l, i, rest)
    BY <1>10, <2>1
  <2> HIDE <1>10
  <2> QED
    BY <1>3, <2>2 DEF FinishResource, IsLastResource, LoadTypes
<1>15. applied' = applied /\ cancelled' = cancelled /\ pc' = pc
       /\ networkFailed' = networkFailed
  OBVIOUS
<1>16. /\ listed'[l] = listed[l] \ {i}
       /\ pending'[l] = Cardinality(listed[l] \ {i})
       /\ pending'[l] \in 0..n
  <2>1. listed'[l] = listed[l] \ {i}
    BY <1>3, <1>14 DEF LoadTypes
  <2>2. pending[l] = Cardinality(listed[l]) /\ pending[l] > 0
    BY <1>8, <1>7
  <2>3. pending'[l] = pending[l] - 1
    BY <1>3, <1>14, <2>2 DEF LoadTypes
  <2> QED
    BY <1>8, <1>9, <2>1, <2>2, <2>3
<1>17. LoadTypes'
  <2>1. listed' \in [Loads -> SUBSET (0..MaxResources)]
    BY <1>3, <1>14 DEF LoadTypes
  <2>2. pending' \in [Loads -> 0..MaxResources]
    BY <1>3, <1>9, <1>14, <1>16 DEF LoadTypes
  <2>3. answers' \in [Loads -> [1..MaxResources -> {"none", "ok", "failed"}]]
    BY <1>3, <1>14 DEF LoadTypes
  <2> QED
    BY <1>3, <1>14, <1>15, <2>1, <2>2, <2>3 DEF LoadTypes
<1>18. ListTypes'
  BY <1>11, <1>12, <1>14 DEF ListTypes, IsList
<1>19. stack' \in Seq(Frames) /\ StackOK'
  <2>1. CASE pending[l] <= 1
    <3>1. Cardinality(listed[l] \ {i}) = 0
      BY <1>8, <1>7, <2>1
    <3>2. listed'[l] = {}
      BY <1>8, <1>16, <3>1, FS_EmptySet
    <3>3. resources'[l] \in Seq(Kinds)
      BY <1>3, <1>9, <1>14, BoundedSeqIsSeq DEF LoadTypes
    <3>4. /\ Apply(l) /\ status'[l] = "live" /\ applied'[l] = <<>>
      BY <1>2, <1>14, <1>15, <2>1
    <3> QED
      BY <1>2, <3>2, <3>3, <3>4, ApplyStack
  <2>2. CASE ~(pending[l] <= 1)
    BY <1>2, <1>14, <2>2 DEF IInv, ThreadTypes, StackOK
  <2> QED
    BY <2>1, <2>2
<1>20. ThreadTypes'
  BY <1>15, <1>19 DEF IInv, ThreadTypes
<1>21. ASSUME NEW k \in Loads, k # l
       PROVE  (OwnsRequests(k) /\ WaitsRight(k) /\ InOrder(k))'
  <2>1. \A p \in 0..SyncPart : <<k, p>> \in DOMAIN requests' <=>
                                  <<k, p>> \in DOMAIN requests
    BY <1>12, <1>14, <1>21
  <2>2. SameLoad(k)
    BY <1>3, <1>14, <1>15, <1>21, <2>1 DEF SameLoad, LoadTypes
  <2> QED
    BY <1>13, <2>2, OtherHolds
<1>22. OwnsRequests(l)'
  <2>1. \A p : <<l, p>> \in DOMAIN requests' <=>
                  <<l, p>> \in DOMAIN requests /\ p # i
    BY <1>12, <1>14
  <2>2. listed[l] \ {i} = {p \in 0..MaxResources : <<l, p>> \in DOMAIN requests'}
    BY <1>3, <2>1 DEF OwnsRequests
  <2>3. <<l, SyncPart>> \notin DOMAIN requests'
    BY <1>2, <2>1
  <2> QED
    BY <1>16, <2>2, <2>3 DEF OwnsRequests, SyncPart
<1>23. WaitsRight(l)'
  <2>1. /\ status'[l] = "live" /\ ended'[l] = 0 /\ page'[l] # "ready"
        /\ 0 \notin listed'[l]
        /\ pending'[l] = Cardinality(listed'[l] \ {0})
    BY <1>2, <1>5, <1>6, <1>14, <1>16
  <2> QED
    BY <2>1 DEF WaitsRight
<1>24. InOrder(l)'
  BY <1>2, <1>14, <1>15 DEF InOrder
<1> QED
  BY <1>17, <1>18, <1>19, <1>20, <1>21, <1>22, <1>23, <1>24 DEF IInv

LEMMA DispatchHolds == ASSUME IInv, Dispatch PROVE IInv'
<1>1. PICK id \in DOMAIN requests :
        /\ Dispatchable(id)
        /\ \/ /\ id # Job /\ id[2] = 0
              /\ FinishDocument(id[1], Without(requests, {id}))
           \/ /\ id # Job /\ id[2] \in 1..MaxResources
              /\ FinishResource(id[1], id[2], Without(requests, {id}))
           \/ /\ id = Job \/ id[2] = SyncPart
              /\ requests' = Without(requests, {id})
              /\ ready' = ready \ {id}
              /\ UNCHANGED <<status, ended, page, resources, answers,
                             listed, pending, stack>>
  BY DEF Dispatch
<1>2. Polling /\ UNCHANGED <<applied, cancelled, pc, networkFailed>>
  BY DEF Dispatch
<1>3. CASE /\ id # Job /\ id[2] = 0
           /\ FinishDocument(id[1], Without(requests, {id}))
  BY <1>1, <1>2, <1>3, FinishDocumentHolds
<1>4. CASE /\ id # Job /\ id[2] \in 1..MaxResources
           /\ FinishResource(id[1], id[2], Without(requests, {id}))
  BY <1>1, <1>2, <1>4, FinishResourceHolds
<1>5. CASE /\ id = Job \/ id[2] = SyncPart
           /\ requests' = Without(requests, {id})
           /\ ready' = ready \ {id}
           /\ UNCHANGED <<status, ended, page, resources, answers,
                          listed, pending, stack>>
  <2>1. UNCHANGED <<loadVars, cancelled, stack, pc, networkFailed>>
    BY <1>2, <1>5 DEF loadVars
  <2> QED
    BY <1>2, <1>5, <2>1, DispatchOtherHolds
<1> QED
  BY <1>1, <1>3, <1>4, <1>5

\* The requests of the loads that are reaped go with them.
LEMMA ReapHolds == ASSUME IInv, Reap PROVE IInv'
<1>1. LoadTypes /\ ListTypes /\ stack = <<>> /\ stack' = stack /\ pc' = "take"
      /\ cancelled' = cancelled /\ networkFailed' = networkFailed /\ page' = page
  BY DEF Reap, IInv
<1>2. \A k \in Loads : ~Applying(k)
  BY <1>1 DEF Applying
<1>3. PICK reaped, gone :
        /\ reaped \in SUBSET Live
        /\ gone \in {CancelledRequests(reaped), CancelledRequests(reaped) \cup {Job}}
        /\ requests' = Without(requests, gone)
        /\ ready' = ready \ gone
        /\ status' = [l \in Loads |-> IF l \in reaped THEN "gone" ELSE status[l]]
        /\ ended' = [l \in Loads |->
                        IF l \in reaped THEN ended[l] + 1 ELSE ended[l]]
        /\ listed' = [l \in Loads |-> IF l \in reaped THEN {} ELSE listed[l]]
        /\ Forget(reaped)
  <2> DEFINE dead == {l \in Live : networkFailed \/ l \in cancelled}
             lost == CancelledRequests(dead) \cup
                        (IF networkFailed THEN {Job} ELSE {})
  <2>1. dead \in SUBSET Live
    OBVIOUS
  <2>2. lost \in {CancelledRequests(dead), CancelledRequests(dead) \cup {Job}}
    OBVIOUS
  <2>3. /\ requests' = Without(requests, lost)
        /\ ready' = ready \ lost
        /\ status' = [l \in Loads |-> IF l \in dead THEN "gone" ELSE status[l]]
        /\ ended' = [l \in Loads |->
                        IF l \in dead THEN ended[l] + 1 ELSE ended[l]]
        /\ listed' = [l \in Loads |-> IF l \in dead THEN {} ELSE listed[l]]
        /\ Forget(dead)
    BY DEF Reap
  <2> HIDE DEF dead, lost
  <2> QED
    BY <2>1, <2>2, <2>3
<1>4. \A l \in reaped : l \in Loads /\ status[l] = "live"
  BY <1>3 DEF Live
<1>5. \A l \in Loads, p \in 0..SyncPart :
          <<l, p>> \in gone <=> l \in reaped /\ p \in listed[l]
  <2>1. \A l \in Loads, p \in 0..SyncPart :
            <<l, p>> \in CancelledRequests(reaped) <=>
                l \in reaped /\ p \in listed[l]
    BY DEF CancelledRequests
  <2>2. \A id : id # Job => (id \in gone <=> id \in CancelledRequests(reaped))
    BY <1>3
  <2>3. \A l \in Loads, p \in 0..SyncPart : <<l, p>> # Job
    BY Identities
  <2> QED
    BY <2>1, <2>2, <2>3
<1>6. DOMAIN requests \subseteq Requests /\ IsList(requests)
      /\ ready \subseteq DOMAIN requests
  BY <1>1 DEF ListTypes
<1>7. DOMAIN requests' = DOMAIN requests \ gone /\ IsList(Without(requests, gone))
  BY <1>3, <1>6, WithoutList
<1>8. ListTypes'
  BY <1>3, <1>6, <1>7 DEF ListTypes, IsList
<1>9. /\ resources' \in [Loads -> BoundedSeq(Kinds, MaxResources)]
      /\ answers' \in [Loads -> [1..MaxResources -> {"none", "ok", "failed"}]]
      /\ pending' \in [Loads -> 0..MaxResources]
      /\ applied' \in [Loads -> BoundedSeq(1..MaxResources, MaxResources)]
      /\ \A l \in Loads \ reaped :
             /\ resources'[l] = resources[l] /\ answers'[l] = answers[l]
             /\ pending'[l] = pending[l] /\ applied'[l] = applied[l]
      /\ \A l \in Loads \cap reaped : applied'[l] = <<>>
  BY <1>1, <1>3, ForgetTypes
<1>10. LoadTypes'
  BY <1>1, <1>3, <1>9 DEF LoadTypes
<1>11. ThreadTypes' /\ StackOK'
  BY <1>1 DEF IInv, ThreadTypes, StackOK
<1>12. ASSUME NEW l \in Loads
       PROVE  (OwnsRequests(l) /\ WaitsRight(l) /\ InOrder(l))'
  <2>1. CASE l \notin reaped
    <3>1. \A p \in 0..SyncPart : <<l, p>> \in DOMAIN requests' <=>
                                    <<l, p>> \in DOMAIN requests
      BY <1>5, <1>7, <2>1
    <3>2. SameLoad(l)
      BY <1>1, <1>3, <1>9, <2>1, <3>1 DEF SameLoad
    <3> QED
      BY <1>2, <3>2, OtherHolds
  <2>2. CASE l \in reaped
    <3>1. /\ status'[l] = "gone" /\ ended'[l] = ended[l] + 1 /\ listed'[l] = {}
          /\ applied'[l] = <<>> /\ page'[l] = page[l]
      BY <1>1, <1>3, <1>9, <2>2
    <3>2. OwnsRequests(l) /\ WaitsRight(l) /\ status[l] = "live"
      BY <1>4, <2>2 DEF IInv
    <3>3. ended[l] = 0 /\ page[l] # "ready"
      BY <3>2 DEF WaitsRight
    <3>4. \A p \in 0..SyncPart : <<l, p>> \notin DOMAIN requests'
      <4>1. \A p \in 0..MaxResources :
                <<l, p>> \in DOMAIN requests => p \in listed[l]
        BY <3>2 DEF OwnsRequests
      <4>2. <<l, SyncPart>> \notin DOMAIN requests
        BY <1>2, <3>2 DEF OwnsRequests
      <4> QED
        BY <1>5, <1>7, <2>2, <4>1, <4>2, Parts
    <3>5. OwnsRequests(l)'
      BY <3>1, <3>4, Parts DEF OwnsRequests, SyncPart
    <3>6. WaitsRight(l)'
      BY <3>1, <3>3 DEF WaitsRight
    <3>7. InOrder(l)'
      BY <3>1, <3>3 DEF InOrder
    <3> QED
      BY <3>5, <3>6, <3>7
  <2> QED
    BY <2>1, <2>2
<1> QED
  BY <1>8, <1>10, <1>11, <1>12 DEF IInv

\* What the steps on the page that is being applied start from.
LEMMA AtTopKnows ==
    ASSUME IInv, stack # <<>>
    PROVE  \E l \in Loads, n \in 1..(MaxResources + 1), at \in Places :
             /\ Top = stack[1] /\ Len(stack) = 1 /\ stack \in Seq(Frames)
             /\ stack[1].load = l /\ stack[1].next = n /\ stack[1].at = at
             /\ status[l] = "live" /\ listed[l] = {} /\ ended[l] = 0
             /\ page[l] # "ready"
             /\ resources[l] \in Seq(Kinds) /\ Len(resources[l]) <= MaxResources
             /\ applied[l] \in Seq(1..MaxResources)
             /\ Past(stack[1]) <= Len(resources[l])
             /\ Len(applied[l]) <= Past(stack[1])
             /\ Range(applied[l]) = UsableTo(l, Past(stack[1]))
             /\ \A k \in Loads : k # l => ~Applying(k)
             /\ \A p \in 0..SyncPart : <<l, p>> \in DOMAIN requests =>
                    stack[1].at \in Waits
<1>1. /\ Len(stack) = 1 /\ DOMAIN stack = {1} /\ Top = stack[1]
      /\ stack[1] \in Frames /\ stack \in Seq(Frames)
  BY TopFrame DEF IInv, ThreadTypes
<1>2. PICK l \in Loads, n \in 1..(MaxResources + 1), at \in Places :
        stack[1].load = l /\ stack[1].next = n /\ stack[1].at = at
  BY <1>1 DEF Frames
<1>3. /\ status[l] = "live" /\ listed[l] = {}
      /\ Past(stack[1]) <= Len(resources[l])
      /\ Len(applied[l]) <= Past(stack[1])
      /\ Range(applied[l]) = UsableTo(l, Past(stack[1]))
  BY <1>2 DEF IInv, StackOK
<1>4. OwnsRequests(l) /\ WaitsRight(l)
  BY DEF IInv
<1>5. ended[l] = 0 /\ page[l] # "ready"
  BY <1>3, <1>4 DEF WaitsRight
<1>6. \A k \in Loads : k # l => ~Applying(k)
  BY <1>2 DEF Applying
<1>7. \A p \in 0..SyncPart : <<l, p>> \in DOMAIN requests =>
          stack[1].at \in Waits
  <2>1. \A p \in 0..MaxResources : <<l, p>> \notin DOMAIN requests
    BY <1>3, <1>4 DEF OwnsRequests
  <2>2. <<l, SyncPart>> \in DOMAIN requests => stack[1].at \in Waits
    BY <1>4 DEF OwnsRequests
  <2> QED
    BY <2>1, <2>2, Parts
<1>8. /\ resources[l] \in Seq(Kinds) /\ Len(resources[l]) <= MaxResources
      /\ applied[l] \in Seq(1..MaxResources)
  <2>1. PICK m \in Nat : m = MaxResources
    BY Parts
  <2>2. /\ resources[l] \in BoundedSeq(Kinds, m)
        /\ applied[l] \in BoundedSeq(1..MaxResources, m)
    BY <2>1 DEF IInv, LoadTypes
  <2> QED
    BY <2>1, <2>2, BoundedSeqIsSeq
<1> QED
  BY <1>1, <1>2, <1>3, <1>5, <1>6, <1>7, <1>8

\* Nothing of a page that failed is left behind.
LEMMA FailPageHolds ==
    ASSUME IInv, stack # <<>>, stack[1].at \notin Waits, FailPage,
           UNCHANGED <<cancelled, requests, ready, pc, networkFailed>>
    PROVE  IInv'
<1>1. PICK l \in Loads :
        /\ Top.load = l /\ Len(stack) = 1 /\ stack \in Seq(Frames)
        /\ status[l] = "live" /\ listed[l] = {} /\ ended[l] = 0
        /\ \A k \in Loads : k # l => ~Applying(k)
        /\ \A p \in 0..SyncPart : <<l, p>> \notin DOMAIN requests
  BY AtTopKnows
<1>2. End(l, "none") /\ Forget({l}) /\ stack' = Front(stack)
      /\ listed' = listed
  BY <1>1 DEF FailPage
<1>3. stack' = <<>>
  BY <1>1, <1>2 DEF Front
<1>4. LoadTypes /\ ListTypes
  BY DEF IInv
<1>5. /\ status' \in [Loads -> {"unborn", "live", "gone"}]
      /\ ended' \in [Loads -> Nat]
      /\ page' \in [Loads -> {"none", "ready"}]
      /\ status'[l] = "gone" /\ page'[l] = "none" /\ ended'[l] = 1
      /\ \A k \in Loads \ {l} :
             /\ status'[k] = status[k] /\ ended'[k] = ended[k]
             /\ page'[k] = page[k]
  BY <1>1, <1>2, <1>4, EndTypes
<1>6. /\ resources' \in [Loads -> BoundedSeq(Kinds, MaxResources)]
      /\ answers' \in [Loads -> [1..MaxResources -> {"none", "ok", "failed"}]]
      /\ pending' \in [Loads -> 0..MaxResources]
      /\ applied' \in [Loads -> BoundedSeq(1..MaxResources, MaxResources)]
      /\ \A k \in Loads \ {l} :
             /\ resources'[k] = resources[k] /\ answers'[k] = answers[k]
             /\ pending'[k] = pending[k] /\ applied'[k] = applied[k]
      /\ \A k \in Loads \cap {l} : applied'[k] = <<>>
  BY <1>2, <1>4, ForgetTypes
<1>7. LoadTypes'
  BY <1>2, <1>4, <1>5, <1>6 DEF LoadTypes
<1>8. ListTypes' /\ ThreadTypes' /\ StackOK'
  BY <1>3, <1>4 DEF IInv, ListTypes, IsList, ThreadTypes, StackOK
<1>9. ASSUME NEW k \in Loads, k # l
      PROVE  (OwnsRequests(k) /\ WaitsRight(k) /\ InOrder(k))'
  <2>1. SameLoad(k)
    BY <1>2, <1>5, <1>6, <1>9 DEF SameLoad
  <2> QED
    BY <1>1, <1>9, <2>1, OtherHolds
<1>10. OwnsRequests(l)' /\ WaitsRight(l)' /\ InOrder(l)'
  <2>1. listed'[l] = {} /\ applied'[l] = <<>> /\ requests' = requests
    BY <1>1, <1>2, <1>6
  <2>2. OwnsRequests(l)'
    BY <1>1, <2>1, Parts DEF OwnsRequests, SyncPart
  <2>3. WaitsRight(l)'
    BY <1>5, <2>1 DEF WaitsRight
  <2>4. InOrder(l)'
    BY <1>5, <2>1 DEF InOrder
  <2> QED
    BY <2>2, <2>3, <2>4
<1> QED
  BY <1>7, <1>8, <1>9, <1>10 DEF IInv

LEMMA RangeAppend ==
    ASSUME NEW S, NEW s \in Seq(S), NEW e
    PROVE  Range(Append(s, e)) = Range(s) \cup {e}
<1>1. /\ DOMAIN Append(s, e) = 1..(Len(s) + 1) /\ DOMAIN s = 1..Len(s)
      /\ Len(s) \in Nat
      /\ \A i \in 1..Len(s) : Append(s, e)[i] = s[i]
      /\ Append(s, e)[Len(s) + 1] = e
  OBVIOUS
<1>2. 1..(Len(s) + 1) = 1..Len(s) \cup {Len(s) + 1}
  BY <1>1
<1>3. \A x : x \in Range(Append(s, e)) <=>
          \E i \in 1..(Len(s) + 1) : x = Append(s, e)[i]
  BY <1>1 DEF Range
<1>4. \A x : x \in Range(s) <=> \E i \in 1..Len(s) : x = s[i]
  BY <1>1 DEF Range
<1>5. ASSUME NEW x \in Range(Append(s, e)) PROVE x \in Range(s) \cup {e}
  BY <1>1, <1>2, <1>3, <1>4
<1>6. ASSUME NEW x \in Range(s) \cup {e} PROVE x \in Range(Append(s, e))
  BY <1>1, <1>2, <1>3, <1>4
<1> QED
  BY <1>5, <1>6

\* Appending what is larger than all before keeps a sequence increasing.
LEMMA IncreasingAppend ==
    ASSUME NEW n \in Nat, NEW s \in Seq(1..n), NEW e \in 1..n,
           \A j, k \in DOMAIN s : j < k => s[j] < s[k],
           \A x \in Range(s) : x < e
    PROVE  \A j, k \in DOMAIN Append(s, e) :
               j < k => Append(s, e)[j] < Append(s, e)[k]
<1>1. /\ DOMAIN Append(s, e) = 1..(Len(s) + 1) /\ DOMAIN s = 1..Len(s)
      /\ Len(s) \in Nat
      /\ \A i \in 1..Len(s) : Append(s, e)[i] = s[i]
      /\ Append(s, e)[Len(s) + 1] = e
  OBVIOUS
<1>2. \A i \in 1..Len(s) : s[i] < e
  BY <1>1 DEF Range
<1> QED
  BY <1>1, <1>2

LEMMA UsableOneMore ==
    ASSUME NEW l, NEW n \in Nat \ {0}
    PROVE  /\ HasContent(l, n) => UsableTo(l, n) = UsableTo(l, n - 1) \cup {n}
           /\ ~HasContent(l, n) => UsableTo(l, n) = UsableTo(l, n - 1)
<1>1. 1..n = 1..(n - 1) \cup {n}
  OBVIOUS
<1> QED
  BY <1>1 DEF UsableTo

\* A style or a script takes effect after all that stand before it.
LEMMA TakeEffectHolds ==
    ASSUME IInv, stack # <<>>, stack[1].at \notin InScript,
           ~Finished, TakeEffect,
           stack' \in Seq(Frames), Len(stack') = 1, stack' # <<>>,
           stack'[1].load = stack[1].load, Past(stack'[1]) = stack[1].next,
           UNCHANGED <<cancelled, requests, ready, pc, networkFailed>>
    PROVE  IInv'
<1>1. PICK l \in Loads, n \in 1..(MaxResources + 1) :
        /\ Top = stack[1] /\ stack[1].load = l /\ stack[1].next = n
        /\ status[l] = "live" /\ listed[l] = {} /\ ended[l] = 0
        /\ page[l] # "ready"
        /\ resources[l] \in Seq(Kinds) /\ Len(resources[l]) <= MaxResources
        /\ applied[l] \in Seq(1..MaxResources)
        /\ Past(stack[1]) <= Len(resources[l])
        /\ Len(applied[l]) <= Past(stack[1])
        /\ Range(applied[l]) = UsableTo(l, Past(stack[1]))
        /\ \A k \in Loads : k # l => ~Applying(k)
        /\ \A p \in 0..SyncPart : <<l, p>> \in DOMAIN requests =>
               stack[1].at \in Waits
  BY AtTopKnows
<1>2. \A p \in 0..SyncPart : <<l, p>> \notin DOMAIN requests
  BY <1>1 DEF Waits, InScript
<1>3. PICK max \in Nat : max = MaxResources
  BY Parts
<1>4. n \in Nat \ {0} /\ n <= Len(resources[l]) /\ n \in 1..max
      /\ Len(resources[l]) \in Nat
  BY <1>1, <1>3 DEF Finished
<1>5. Past(stack[1]) = n - 1
  BY <1>1 DEF Past
<1>6. /\ Len(applied[l]) <= n - 1 /\ applied[l] \in Seq(1..max)
      /\ Range(applied[l]) = UsableTo(l, n - 1)
  BY <1>1, <1>3, <1>5
<1>7. LoadTypes /\ ListTypes /\ InOrder(l)
  BY DEF IInv
<1>8. PICK now : now = IF HasContent(l, n) THEN Append(applied[l], n)
                                           ELSE applied[l]
  OBVIOUS
<1>9. /\ applied' = [applied EXCEPT ![l] = now]
      /\ status' = status /\ ended' = ended /\ page' = page
      /\ resources' = resources /\ answers' = answers /\ listed' = listed
      /\ pending' = pending
  BY <1>1, <1>8 DEF TakeEffect
<1>10. now \in Seq(1..max) /\ Len(now) <= n /\ Range(now) = UsableTo(l, n)
  <2>1. CASE HasContent(l, n)
    <3>1. now = Append(applied[l], n)
      BY <1>8, <2>1
    <3>2. /\ Append(applied[l], n) \in Seq(1..max)
          /\ Len(Append(applied[l], n)) = Len(applied[l]) + 1
      BY <1>4, <1>6
    <3>3. Len(applied[l]) + 1 <= n
      BY <1>4, <1>6
    <3>4. Range(Append(applied[l], n)) = Range(applied[l]) \cup {n}
      BY <1>6, RangeAppend
    <3>5. UsableTo(l, n) = UsableTo(l, n - 1) \cup {n}
      BY <1>4, <2>1, UsableOneMore
    <3> QED
      BY <1>6, <3>1, <3>2, <3>3, <3>4, <3>5
  <2>2. CASE ~HasContent(l, n)
    <3>1. now = applied[l] /\ UsableTo(l, n) = UsableTo(l, n - 1)
      BY <1>4, <1>8, <2>2, UsableOneMore
    <3>2. Len(applied[l]) <= n
      BY <1>4, <1>6
    <3> QED
      BY <1>6, <3>1, <3>2
  <2> QED
    BY <2>1, <2>2
<1>11. \A j, k \in DOMAIN now : j < k => now[j] < now[k]
  <2>1. \A j, k \in DOMAIN applied[l] :
            j < k => applied[l][j] < applied[l][k]
    BY <1>7 DEF InOrder
  <2>2. \A x \in Range(applied[l]) : x < n
    BY <1>4, <1>6 DEF UsableTo
  <2>3. CASE HasContent(l, n)
    <3>1. now = Append(applied[l], n)
      BY <1>8, <2>3
    <3>2. \A j, k \in DOMAIN Append(applied[l], n) :
              j < k => Append(applied[l], n)[j] < Append(applied[l], n)[k]
      BY <1>4, <1>6, <2>1, <2>2, IncreasingAppend
    <3> QED
      BY <3>1, <3>2
  <2>4. CASE ~HasContent(l, n)
    BY <1>8, <2>1, <2>4
  <2> QED
    BY <2>3, <2>4
<1>12. now \in BoundedSeq(1..MaxResources, MaxResources)
  <2>1. now \in Seq(1..max) /\ Len(now) <= max
    BY <1>4, <1>10
  <2>2. now \in BoundedSeq(1..max, max)
    BY <1>3, <2>1, BoundedSeqIsSeq
  <2> QED
    BY <1>3, <2>2
<1>13. LoadTypes'
  BY <1>7, <1>9, <1>12 DEF LoadTypes
<1>14. ListTypes' /\ ThreadTypes'
  BY <1>7 DEF IInv, ListTypes, IsList, ThreadTypes
<1>15. applied'[l] = now
  BY <1>7, <1>9 DEF LoadTypes
<1>16. \A k, m : UsableTo(k, m)' = UsableTo(k, m)
  BY <1>9 DEF UsableTo, HasContent
<1>17. StackOK'
  <2>1. Past(stack[1])' = n /\ (stack[1].load)' = l
    BY <1>1 DEF Past
  <2>2. UsableTo(stack[1].load, Past(stack[1]))' = UsableTo(l, n)'
    BY <2>1 DEF UsableTo, HasContent
  <2>3. Range(applied'[l]) = UsableTo(stack[1].load, Past(stack[1]))'
    BY <1>10, <1>15, <1>16, <2>2
  <2>4. /\ status'[l] = "live" /\ listed'[l] = {} /\ n <= Len(resources'[l])
        /\ Len(applied'[l]) <= n
    BY <1>1, <1>4, <1>9, <1>10, <1>15
  <2> QED
    BY <2>1, <2>3, <2>4 DEF StackOK
<1>18. ASSUME NEW k \in Loads, k # l
       PROVE  (OwnsRequests(k) /\ WaitsRight(k) /\ InOrder(k))'
  <2>1. SameLoad(k)
    BY <1>7, <1>9, <1>18 DEF SameLoad, LoadTypes
  <2> QED
    BY <1>1, <1>18, <2>1, OtherHolds
<1>19. OwnsRequests(l)' /\ WaitsRight(l)' /\ InOrder(l)'
  <2>1. OwnsRequests(l) /\ WaitsRight(l) /\ requests' = requests
    BY DEF IInv
  <2>2. OwnsRequests(l)'
    BY <1>2, <1>9, <2>1, Parts DEF OwnsRequests, SyncPart
  <2>3. WaitsRight(l)'
    BY <1>9, <2>1 DEF WaitsRight
  <2>4. Applying(l)'
    BY <1>1 DEF Applying
  <2>5. InOrder(l)'
    BY <1>1, <1>9, <1>11, <1>15, <2>4 DEF InOrder
  <2> QED
    BY <2>2, <2>3, <2>5
<1> QED
  BY <1>13, <1>14, <1>17, <1>18, <1>19 DEF IInv

\* After a resource comes the next one, with it behind.
LEMMA BehindNext ==
    ASSUME IInv, stack # <<>>, ~Finished, NextResource
    PROVE  /\ stack' \in Seq(Frames) /\ Len(stack') = 1 /\ stack' # <<>>
           /\ stack'[1].load = stack[1].load
           /\ Past(stack'[1]) = stack[1].next
<1>1. PICK l \in Loads, n \in 1..(MaxResources + 1) :
        /\ Top = stack[1] /\ stack[1].load = l /\ stack[1].next = n
        /\ resources[l] \in Seq(Kinds) /\ Len(resources[l]) <= MaxResources
  BY AtTopKnows
<1>2. n \in Nat /\ n <= Len(resources[l]) /\ Len(resources[l]) \in Nat
  BY <1>1, Parts DEF Finished
<1>3. stack[1].next <= MaxResources
  BY <1>1, <1>2, Parts
<1>4. /\ stack' \in Seq(Frames) /\ Len(stack') = 1 /\ stack' # <<>>
      /\ stack'[1].load = stack[1].load
      /\ stack'[1].next = stack[1].next + 1 /\ stack'[1].at = "apply"
  BY <1>3, TopAdvanced DEF IInv
<1>5. "apply" \notin InScript
  BY DEF InScript
<1>6. Past(stack'[1]) = (n + 1) - 1
  BY <1>1, <1>4, <1>5 DEF Past
<1>7. Past(stack'[1]) = n
  BY <1>2, <1>6
<1> QED
  BY <1>1, <1>4, <1>7

LEMMA ApplyStyleHolds == ASSUME IInv, ApplyStyle PROVE IInv'
<1>1. stack # <<>> /\ stack[1].at = "apply"
  BY AtTopIs DEF ApplyStyle
<1>2. stack[1].at \notin InScript /\ stack[1].at \notin Waits
  BY <1>1 DEF InScript, Waits
<1>3. ~Finished /\ UNCHANGED <<cancelled, requests, ready, pc, networkFailed>>
  BY DEF ApplyStyle
<1>4. CASE TakeEffect /\ NextResource
  BY <1>1, <1>2, <1>3, <1>4, BehindNext, TakeEffectHolds
<1>5. CASE FailPage
  BY <1>1, <1>2, <1>3, <1>5, FailPageHolds
<1> QED
  BY <1>4, <1>5 DEF ApplyStyle

LEMMA StopAtCheckpointHolds == ASSUME IInv, StopAtCheckpoint PROVE IInv'
<1>1. stack # <<>> /\ stack[1].at = "checked"
  BY AtTopIs DEF StopAtCheckpoint
<1>2. stack[1].at \notin Waits
  BY <1>1 DEF Waits
<1> QED
  BY <1>1, <1>2, FailPageHolds DEF StopAtCheckpoint

LEMMA StartScriptHolds == ASSUME IInv, StartScript PROVE IInv'
<1>1. stack # <<>> /\ stack[1].at = "checked"
  BY AtTopIs DEF StartScript
<1>2. stack[1].at \notin InScript
  BY <1>1 DEF InScript
<1>3. /\ ~Finished /\ TakeEffect
      /\ UNCHANGED <<cancelled, requests, ready, pc, networkFailed>>
      /\ MoveTop("script") \/ NextResource
  BY DEF StartScript
<1>4. CASE MoveTop("script")
  <2>1. "script" \in Places /\ "script" \in InScript
    BY DEF Places, InScript
  <2>2. /\ stack' \in Seq(Frames) /\ Len(stack') = 1 /\ stack' # <<>>
        /\ stack'[1].load = stack[1].load /\ stack'[1].next = stack[1].next
        /\ stack'[1].at = "script"
    BY <1>1, <1>4, <2>1, TopMoved DEF IInv
  <2>3. Past(stack'[1]) = stack[1].next
    BY <2>1, <2>2 DEF Past
  <2> QED
    BY <1>1, <1>2, <1>3, <2>2, <2>3, TakeEffectHolds
<1>5. CASE NextResource
  BY <1>1, <1>2, <1>3, <1>5, BehindNext, TakeEffectHolds
<1> QED
  BY <1>3, <1>4, <1>5

\* A page that is delivered has passed all its resources.
LEMMA FinishPageHolds == ASSUME IInv, FinishPage PROVE IInv'
<1>1. stack # <<>> /\ stack[1].at = "checked"
  BY AtTopIs DEF FinishPage
<1>2. stack[1].at \notin InScript /\ stack[1].at \notin Waits
  BY <1>1 DEF InScript, Waits
<1>3. Finished /\ cancelled' = cancelled /\ requests' = requests
      /\ ready' = ready /\ pc' = pc /\ networkFailed' = networkFailed
  BY DEF FinishPage
<1>4. CASE FailPage
  BY <1>1, <1>2, <1>3, <1>4, FailPageHolds
<1>5. CASE /\ End(Top.load, "ready")
           /\ stack' = Front(stack)
           /\ UNCHANGED <<resources, answers, listed, pending, applied>>
  <2>1. PICK l \in Loads, n \in 1..(MaxResources + 1) :
          /\ Top = stack[1] /\ Len(stack) = 1 /\ stack \in Seq(Frames)
          /\ stack[1].load = l /\ stack[1].next = n
          /\ status[l] = "live" /\ listed[l] = {} /\ ended[l] = 0
          /\ resources[l] \in Seq(Kinds)
          /\ Past(stack[1]) <= Len(resources[l])
          /\ Range(applied[l]) = UsableTo(l, Past(stack[1]))
          /\ \A k \in Loads : k # l => ~Applying(k)
          /\ \A p \in 0..SyncPart : <<l, p>> \in DOMAIN requests =>
                 stack[1].at \in Waits
    BY <1>1, AtTopKnows
  <2>2. \A p \in 0..SyncPart : <<l, p>> \notin DOMAIN requests
    BY <1>2, <2>1
  <2>3. Past(stack[1]) = Len(resources[l])
    <3>1. n \in Nat /\ Len(resources[l]) \in Nat /\ n > Len(resources[l])
      BY <2>1, <1>3, Parts DEF Finished
    <3>2. Past(stack[1]) = n - 1
      BY <1>2, <2>1 DEF Past
    <3> QED
      BY <2>1, <3>1, <3>2
  <2>4. Range(applied[l]) = UsableTo(l, Len(resources[l]))
    BY <2>1, <2>3
  <2>5. stack' = <<>>
    BY <1>5, <2>1 DEF Front
  <2>6. LoadTypes /\ ListTypes /\ InOrder(l)
    BY DEF IInv
  <2>7. /\ resources' = resources /\ answers' = answers /\ listed' = listed
        /\ pending' = pending /\ applied' = applied
    BY <1>5
  <2>8. /\ status' \in [Loads -> {"unborn", "live", "gone"}]
        /\ ended' \in [Loads -> Nat]
        /\ page' \in [Loads -> {"none", "ready"}]
        /\ status'[l] = "gone" /\ page'[l] = "ready" /\ ended'[l] = 1
        /\ \A k \in Loads \ {l} :
               /\ status'[k] = status[k] /\ ended'[k] = ended[k]
               /\ page'[k] = page[k]
    BY <1>5, <2>1, <2>6, EndTypes
  <2>9. LoadTypes'
    BY <2>6, <2>7, <2>8 DEF LoadTypes
  <2>10. ListTypes' /\ ThreadTypes' /\ StackOK'
    BY <1>3, <2>5, <2>6 DEF IInv, ListTypes, IsList, ThreadTypes, StackOK
  <2>11. ASSUME NEW k \in Loads, k # l
         PROVE  (OwnsRequests(k) /\ WaitsRight(k) /\ InOrder(k))'
    <3>1. SameLoad(k)
      BY <1>3, <2>7, <2>8, <2>11 DEF SameLoad
    <3> QED
      BY <2>1, <2>11, <3>1, OtherHolds
  <2>12. OwnsRequests(l)' /\ WaitsRight(l)' /\ InOrder(l)'
    <3>1. OwnsRequests(l)'
      BY <1>3, <2>1, <2>2, <2>7, Parts DEF OwnsRequests, SyncPart
    <3>2. WaitsRight(l)'
      BY <2>1, <2>7, <2>8 DEF WaitsRight
    <3>3. UsableTo(l, Len(resources[l]))' = UsableTo(l, Len(resources[l]))
      BY <2>7 DEF UsableTo, HasContent
    <3>4. InOrder(l)'
      BY <2>4, <2>6, <2>7, <2>8, <3>3 DEF InOrder
    <3> QED
      BY <3>1, <3>2, <3>4
  <2> QED
    BY <2>9, <2>10, <2>11, <2>12 DEF IInv
<1> QED
  BY <1>4, <1>5 DEF FinishPage

-----------------------------------------------------------------------------
(* The theorems.                                                           *)

LEMMA InitInv == Init => IInv
<1> SUFFICES ASSUME Init PROVE IInv
  OBVIOUS
<1>1. /\ status = [l \in Loads |-> "unborn"] /\ ended = [l \in Loads |-> 0]
      /\ page = [l \in Loads |-> "none"] /\ cancelled = {}
      /\ resources = [l \in Loads |-> <<>>]
      /\ answers = [l \in Loads |-> NoAnswers]
      /\ listed = [l \in Loads |-> {}] /\ pending = [l \in Loads |-> 0]
      /\ applied = [l \in Loads |-> <<>>] /\ requests = [r \in {} |-> {}]
      /\ ready = {} /\ stack = <<>> /\ pc = "take" /\ networkFailed = FALSE
  BY DEF Init
<1>2. LoadTypes
  BY <1>1, Empties DEF LoadTypes
<1>3. ListTypes
  <2>1. DOMAIN requests = {}
    BY <1>1
  <2>2. requests \in [{} -> SUBSET {}]
    BY <1>1
  <2> QED
    BY <1>1, <2>1, <2>2 DEF ListTypes, IsList
<1>4. ThreadTypes /\ StackOK
  <2>1. stack \in Seq(Frames) /\ Len(stack) = 0
    BY <1>1
  <2>2. pc \in {"take", "service", "dispatch", "reap"}
    BY <1>1
  <2>3. networkFailed \in BOOLEAN /\ cancelled \subseteq Loads
    BY <1>1, Zenon
  <2>4. ThreadTypes
    BY <2>1, <2>2, <2>3 DEF ThreadTypes
  <2>5. StackOK
    BY <1>1, <2>1 DEF StackOK
  <2> QED
    BY <2>4, <2>5
<1>5. ASSUME NEW l \in Loads PROVE OwnsRequests(l) /\ WaitsRight(l) /\ InOrder(l)
  <2>1. /\ status[l] = "unborn" /\ ended[l] = 0 /\ page[l] = "none"
        /\ listed[l] = {} /\ pending[l] = 0 /\ applied[l] = <<>>
        /\ DOMAIN requests = {}
    BY <1>1
  <2>2. {} \ {0} = {} /\ Cardinality({}) = 0
    BY FS_EmptySet
  <2>3. OwnsRequests(l)
    BY <2>1 DEF OwnsRequests
  <2>4. pending[l] = Cardinality(listed[l] \ {0})
    BY <2>1, <2>2
  <2>5. WaitsRight(l)
    BY <2>1, <2>4 DEF WaitsRight
  <2>6. InOrder(l)
    BY <2>1 DEF InOrder
  <2> QED
    BY <2>3, <2>5, <2>6
<1> QED
  BY <1>2, <1>3, <1>4, <1>5 DEF IInv

LEMMA NextInv == ASSUME IInv, [Next]_vars PROVE IInv'
<1>1. ASSUME Loader PROVE IInv'
  <2>1. ASSUME NEW l \in Loads, StartLoad(l) \/ StartMarkup(l) PROVE IInv'
    BY <2>1, StartLoadHolds, StartMarkupHolds
  <2>2. CASE TakeNothing \/ Poll \/ Reap \/ Dispatch \/ EndPoll
    BY <2>2, TakeNothingHolds, PollHolds, ReapHolds, DispatchHolds, EndPollHolds
  <2>3. CASE ApplyStyle \/ Checkpoint \/ StopAtCheckpoint \/ StartScript
    BY <2>3, ApplyStyleHolds, CheckpointHolds, StopAtCheckpointHolds,
       StartScriptHolds
  <2>4. CASE EndScript \/ SendSync \/ WaitSync \/ FinishPage
    BY <2>4, EndScriptHolds, SendSyncHolds, WaitSyncHolds, FinishPageHolds
  <2> QED
    BY <1>1, <2>1, <2>2, <2>3, <2>4 DEF Loader
<1>2. ASSUME NEW l \in Loads, Cancel(l) PROVE IInv'
  BY <1>2, CancelHolds
<1>3. CASE UNCHANGED vars
  BY <1>3, StutterHolds
<1> QED
  BY <1>1, <1>2, <1>3 DEF Next

\* The invariant holds in every reachable state, whatever the number of loads
\* and resources.
THEOREM Inductive == Spec => []IInv
<1>1. Init => IInv
  BY InitInv
<1>2. IInv /\ [Next]_vars => IInv'
  BY NextInv
<1> QED
  BY <1>1, <1>2, PTL DEF Spec

\* The loader's variables keep their types; the network's requests stay a list.
THEOREM TypeCorrect == Spec => []TypeOK
<1>1. IInv => TypeOK
  BY DEF IInv, LoadTypes, ListTypes, ThreadTypes, Frames, TypeOK
<1> QED
  BY <1>1, Inductive, PTL

\* A callback, a checkpoint or a synchronous request that polls again never
\* comes to apply a second page inside the first (page_apply_resources).
THEOREM ScriptsNeverNest == Spec => []NoNestedScripts
<1>1. IInv => NoNestedScripts
  BY DEF IInv, StackOK, NoNestedScripts
<1> QED
  BY <1>1, Inductive, PTL

\* However many loads there are, the network's list holds exactly what
\* load->requests names, of allocated loads, load->pending_resources counts it,
\* and a load is freed once, as its task hears of it.
THEOREM RequestsStayOwned == Spec => []LoadsOwnTheirRequests
<1>1. ASSUME IInv PROVE LoadsOwnTheirRequests
  <2>1. ASSUME NEW l \in Loads
        PROVE  /\ listed[l] = {p \in 0..MaxResources : <<l, p>> \in DOMAIN requests}
               /\ listed[l] # {} => status[l] = "live"
               /\ status[l] = "live" => pending[l] = Cardinality(listed[l] \ {0})
               /\ <<l, SyncPart>> \in DOMAIN requests =>
                      \E k \in DOMAIN stack : stack[k].load = l
               /\ ended[l] = IF status[l] = "gone" THEN 1 ELSE 0
               /\ page[l] = "ready" => ended[l] = 1
    <3>1. OwnsRequests(l) /\ WaitsRight(l)
      BY <1>1 DEF IInv
    <3>2. /\ listed[l] # {} => status[l] = "live"
          /\ status[l] = "live" => pending[l] = Cardinality(listed[l] \ {0})
          /\ ended[l] = IF status[l] = "gone" THEN 1 ELSE 0
          /\ page[l] = "ready" => ended[l] = 1
      BY <3>1 DEF WaitsRight
    <3>3. <<l, SyncPart>> \in DOMAIN requests =>
              \E k \in DOMAIN stack : stack[k].load = l
      BY <1>1, <3>1, TopFrame DEF IInv, OwnsRequests, Applying
    <3> QED
      BY <3>1, <3>2, <3>3 DEF OwnsRequests
  <2> QED
    BY <2>1 DEF LoadsOwnTheirRequests
<1> QED
  BY <1>1, Inductive, PTL

\* Whatever order the answers come in, what takes effect does so in document
\* order, after the last answer, without gaps, and all of it for a page that is
\* delivered (page_load_finish_resources, page_apply_resources).
THEOREM OrderIsKept == Spec => []DocumentOrder
<1>1. ASSUME IInv, NEW l \in Loads
      PROVE  LET usable == {i \in DOMAIN resources[l] : HasContent(l, i)}
                 taken == Range(applied[l])
             IN  /\ \A j, k \in DOMAIN applied[l] :
                        j < k => applied[l][j] < applied[l][k]
                 /\ taken # {} => listed[l] = {} /\ taken \subseteq usable
                 /\ \A i \in usable : (\E j \in taken : i < j) => i \in taken
                 /\ page[l] = "ready" => taken = usable
  <2> DEFINE usable == {i \in DOMAIN resources[l] : HasContent(l, i)}
             taken == Range(applied[l])
  <2>1. InOrder(l) /\ WaitsRight(l)
    BY <1>1 DEF IInv
  <2>2. PICK size \in Nat : size = Len(resources[l]) /\ DOMAIN resources[l] = 1..size
    <3>1. PICK max \in Nat : max = MaxResources
      BY Parts
    <3>2. resources[l] \in BoundedSeq(Kinds, max)
      BY <1>1, <3>1 DEF IInv, LoadTypes
    <3>3. resources[l] \in Seq(Kinds)
      BY <3>2, BoundedSeqIsSeq
    <3> QED
      BY <3>3
  <2>3. \A i : i \in usable <=> i \in 1..size /\ HasContent(l, i)
    BY <2>2
  <2>4. ASSUME NEW m \in Nat, m <= size, taken = UsableTo(l, m)
        PROVE  /\ taken \subseteq usable
               /\ \A i \in usable : (\E j \in taken : i < j) => i \in taken
    <3>1. \A i : i \in taken <=> i \in 1..m /\ HasContent(l, i)
      BY <2>4 DEF UsableTo
    <3> HIDE DEF taken, usable
    <3> QED
      BY <2>3, <2>4, <3>1
  <2>5. CASE page[l] = "ready"
    <3>1. taken = UsableTo(l, size)
      BY <2>1, <2>2, <2>5 DEF InOrder
    <3>2. listed[l] = {}
      BY <2>1, <2>5 DEF WaitsRight
    <3>3. taken = usable
      BY <2>3, <3>1 DEF UsableTo
    <3> QED
      BY <2>1, <3>2, <3>3 DEF InOrder
  <2>6. CASE page[l] # "ready" /\ Applying(l)
    <3>1. PICK m : m = Past(stack[1])
      OBVIOUS
    <3>2. stack[1] \in Frames
      BY <1>1, <2>6, TopFrame DEF IInv, Applying
    <3>3. m \in Nat
      BY <3>1, <3>2, Parts DEF Frames, Past
    <3>4. m <= size /\ taken = UsableTo(l, m) /\ listed[l] = {}
      BY <1>1, <2>2, <2>6, <3>1 DEF IInv, StackOK, Applying
    <3> QED
      BY <2>1, <2>4, <2>6, <3>3, <3>4 DEF InOrder
  <2>7. CASE page[l] # "ready" /\ ~Applying(l)
    <3>1. applied[l] = <<>>
      BY <2>1, <2>7 DEF InOrder
    <3>2. taken = {}
      BY <3>1 DEF Range
    <3> QED
      BY <2>7, <3>1, <3>2
  <2> QED
    BY <2>5, <2>6, <2>7
<1>2. IInv => DocumentOrder
  BY <1>1 DEF DocumentOrder
<1> QED
  BY <1>2, Inductive, PTL

=============================================================================
