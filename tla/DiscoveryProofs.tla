-------------------------- MODULE DiscoveryProofs --------------------------
(***************************************************************************)
(* Proofs about Discovery for any number of goroutines, group versions,    *)
(* kinds, calls and cluster changes.                                       *)
(***************************************************************************)
EXTENDS Discovery, TLAPS

-----------------------------------------------------------------------------
(* Typing of the operators *)

LEMMA NoCallType == NoCall \in Calls
  BY ConstantsOK DEF NoCall

\* What a call is made of.
LEMMA CallFields ==
  ASSUME NEW c \in Calls
  PROVE  c.op \in {"resource", "list", "direct", "invalidate"} /\ c.v \in Keys /\ c.kind \in Kinds
  BY ConstantsOK DEF CallType

LEMMA NothingType == Unknown \in Entry /\ NoGroups \in GroupSet
  BY DEF Unknown, Entry, NoGroups, GroupSet

LEMMA CachedType ==
  ASSUME NEW e \in Entry
  PROVE  Cached(e) \in Answer
  BY DEF Cached, Entry, Answer, BackendError

LEMMA LiveType ==
  ASSUME NEW gv \in GVs, NEW a \in Live(gv)
  PROVE  a \in Answer
  BY DEF Live

\* The server always has an answer that is not its own status error.
LEMMA LiveChoice ==
  ASSUME TypeOK, NEW gv \in GVs
  PROVE  (CHOOSE a \in Live(gv) : a.err # "status") \in Live(gv)
<1>1. CASE gv \in broken
  <2>1. [err |-> "other", kinds |-> {}] \in Live(gv)
    BY <1>1 DEF Live, Answer, BackendError
  <2> QED BY <2>1
<1>2. CASE gv \notin broken /\ server[gv] = {}
  <2>1. [err |-> "text", kinds |-> {}] \in Live(gv)
    BY <1>2 DEF Live, Answer, BackendError
  <2> QED BY <2>1
<1>3. CASE gv \notin broken /\ server[gv] # {}
  <2>1. server[gv] \in SUBSET Kinds BY DEF TypeOK
  <2>2. [err |-> "none", kinds |-> server[gv]] \in Live(gv)
    BY <1>3, <2>1 DEF Live, Answer, BackendError
  <2> QED BY <2>2
<1> QED BY <1>1, <1>2, <1>3

\* The result of a listing has the type of a result.
LEMMA CollectType ==
  ASSUME NEW v, NEW ans, DOMAIN ans \subseteq GVs,
         \A gv \in DOMAIN ans : ans[gv] \in Answer
  PROVE  Collect(v, ans) \in ListResult
<1> DEFINE errs == {ans[gv].err : gv \in DOMAIN ans} \ {"none"}
           err == IF errs = {} THEN "none"
                  ELSE IF v # AllGVs THEN CHOOSE e \in errs : TRUE
                  ELSE IF "text" \in errs THEN "text" ELSE "other"
           lists == [gv \in GVs |-> IF gv \in DOMAIN ans THEN Kept(gv, ans) ELSE {}]
<1>1. errs \subseteq BackendError
  BY DEF Answer
<1>2. err \in BackendError
  <2> HIDE DEF errs
  <2> QED BY <1>1 DEF BackendError
<1>3. lists \in [GVs -> SUBSET Kinds]
  BY DEF Answer, Kept
<1>4. Collect(v, ans) = [err |-> err, lists |-> lists]
  BY DEF Collect
<1> QED
  <2> HIDE DEF err, lists
  <2> QED BY <1>2, <1>3, <1>4 DEF ListResult

\* The end of a flight keeps the types of what it changes.
LEMMA AnsweredType ==
  ASSUME TypeOK, NEW p \in Procs, NEW gv \in GVs, NEW a \in Answer, Answered(p, gv, a)
  PROVE  sub' \in [Procs -> [GVs -> SubType]] /\ inner' \in [GVs -> Procs \cup {NoProc}]
<1>1. inner' \in [GVs -> Procs \cup {NoProc}]
  BY DEF Answered, TypeOK
<1>2. [st |-> "done", ans |-> a] \in SubType
  BY DEF SubType, SubState
<1>3. sub \in [Procs -> [GVs -> SubType]]
  BY DEF TypeOK
<1> QED BY <1>1, <1>2, <1>3 DEF Answered

LEMMA DeliverType ==
  ASSUME TypeOK, NEW p \in Procs, NEW r \in ListResult, Deliver(p, r)
  PROVE  /\ pc' \in [Procs -> PC]
         /\ got' \in [Procs -> ListResult]
         /\ outer' \in [Keys -> Procs \cup {NoProc}]
  BY DEF Deliver, TypeOK, PC

LEMMA UncachedType ==
  ASSUME TypeOK, NEW p \in Procs, NEW v \in Keys, Uncached(p, v)
  PROVE  pc' \in [Procs -> PC] /\ sub' \in [Procs -> [GVs -> SubType]]
<1>1. CASE v = AllGVs
  BY <1>1 DEF Uncached, TypeOK, PC
<1>2. CASE v # AllGVs
  <2>1. v \in GVs BY <1>2 DEF Keys
  <2>2. Asked \in SubType BY DEF Asked, Empty, SubType, SubState, Answer, BackendError
  <2>3. sub' = [sub EXCEPT ![p][v] = Asked] BY <1>2 DEF Uncached
  <2>4. sub[p] \in [GVs -> SubType] BY DEF TypeOK
  <2>5. sub' \in [Procs -> [GVs -> SubType]] BY <2>1, <2>2, <2>3, <2>4 DEF TypeOK
  <2> QED BY <1>2, <2>5 DEF Uncached, TypeOK, PC
<1> QED BY <1>1, <1>2

LEMMA StartQueriesType ==
  ASSUME TypeOK, NEW p \in Procs, NEW gvs, StartQueries(p, gvs)
  PROVE  pc' \in [Procs -> PC] /\ sub' \in [Procs -> [GVs -> SubType]]
<1>1. Asked \in SubType /\ Off \in SubType
  BY DEF Asked, Off, Empty, SubType, SubState, Answer, BackendError
<1> QED BY <1>1 DEF StartQueries, TypeOK, PC

\* A query changes the state of one goroutine for one group version.
LEMMA SubStType ==
  ASSUME TypeOK, NEW p \in Procs, NEW gv \in GVs, NEW s \in SubState,
         sub' = [sub EXCEPT ![p][gv].st = s]
  PROVE  sub' \in [Procs -> [GVs -> SubType]]
<1>1. sub[p] \in [GVs -> SubType] /\ sub[p][gv] \in SubType BY DEF TypeOK
<1>2. [sub[p][gv] EXCEPT !.st = s] \in SubType BY <1>1 DEF SubType
<1>3. [sub[p] EXCEPT ![gv].st = s] \in [GVs -> SubType] BY <1>1, <1>2
<1> QED BY <1>3 DEF TypeOK

-----------------------------------------------------------------------------
(* Type correctness *)

LEMMA InitType == Init => TypeOK
<1> SUFFICES ASSUME Init PROVE TypeOK
  OBVIOUS
<1>1. server \in [GVs -> SUBSET Kinds] /\ broken \in SUBSET GVs /\ changes \in 0..MaxChanges
        /\ aggregated \in BOOLEAN
  BY ConstantsOK DEF Init
<1>2. Off \in SubType
  BY DEF Off, Empty, SubType, SubState, Answer, BackendError
<1>3. NoResult \in ListResult
  BY DEF NoResult, NoLists, ListResult, BackendError
<1>4. cache \in [GVs -> Entry] /\ groups \in GroupSet
  BY NothingType DEF Init
<1>5. pc \in [Procs -> PC]
  BY DEF Init, PC
<1> QED BY <1>1, <1>2, <1>3, <1>4, <1>5, NoCallType DEF Init, TypeOK

LEMMA ObserveType ==
  ASSUME TypeOK, Observe,
         server' \in [GVs -> SUBSET Kinds], broken' \in SUBSET GVs
  PROVE  TypeOK'
<1>1. changes' \in 0..MaxChanges
  BY ConstantsOK DEF Observe, TypeOK
<1>2. missed' \in [Procs -> SUBSET GVs]
  BY DEF Observe, TypeOK
<1> QED BY <1>1, <1>2 DEF Observe, TypeOK, cacheVars, localVars

LEMMA EnvironmentType == TypeOK /\ Environment => TypeOK'
<1> SUFFICES ASSUME TypeOK, Environment PROVE TypeOK'
  OBVIOUS
<1>1. ASSUME NEW gv \in GVs, NEW kind \in Kinds, Register(gv, kind) PROVE TypeOK'
  <2>1. server' \in [GVs -> SUBSET Kinds] /\ broken' \in SUBSET GVs
    BY <1>1 DEF Register, TypeOK
  <2> QED BY <1>1, <2>1, ObserveType DEF Register
<1>2. ASSUME NEW gv \in GVs, NEW kind \in Kinds, Unregister(gv, kind) PROVE TypeOK'
  <2>1. server' \in [GVs -> SUBSET Kinds] /\ broken' \in SUBSET GVs
    BY <1>2 DEF Unregister, TypeOK
  <2> QED BY <1>2, <2>1, ObserveType DEF Unregister
<1>3. ASSUME NEW gv \in GVs, Break(gv) PROVE TypeOK'
  <2>1. server' \in [GVs -> SUBSET Kinds] /\ broken' \in SUBSET GVs
    BY <1>3 DEF Break, TypeOK
  <2> QED BY <1>3, <2>1, ObserveType DEF Break
<1>4. ASSUME NEW gv \in GVs, Repair(gv) PROVE TypeOK'
  <2>1. server' \in [GVs -> SUBSET Kinds] /\ broken' \in SUBSET GVs
    BY <1>4 DEF Repair, TypeOK
  <2> QED BY <1>4, <2>1, ObserveType DEF Repair
<1>5. ASSUME Expire PROVE TypeOK'
  <2>0. Unknown \in Entry /\ NoGroups \in GroupSet
    BY NothingType
  <2>1. cache' \in [GVs -> Entry] /\ groups' \in GroupSet
    BY <1>5, <2>0 DEF Expire, TypeOK
  <2> QED BY <1>5, <2>1 DEF Expire, TypeOK, clusterVars, localVars, historyVars
<1> QED BY <1>1, <1>2, <1>3, <1>4, <1>5 DEF Environment

\* A query changes sub, inner and cache only.
LEMMA QueryFrameType ==
  ASSUME TypeOK, QueryUnchanged,
         sub' \in [Procs -> [GVs -> SubType]],
         inner' \in [GVs -> Procs \cup {NoProc}],
         cache' \in [GVs -> Entry]
  PROVE  TypeOK'
  BY DEF TypeOK, QueryUnchanged, clusterVars, historyVars

LEMMA QueryType ==
  ASSUME TypeOK, NEW p \in Procs, NEW gv \in GVs, Query(p, gv)
  PROVE  TypeOK'
<1>0. /\ inner \in [GVs -> Procs \cup {NoProc}] /\ cache \in [GVs -> Entry]
      /\ sub[p][gv] \in SubType /\ cache[gv] \in Entry
  BY DEF TypeOK
<1>1. ASSUME LeadQuery(p, gv) PROVE TypeOK'
  <2>1. sub' \in [Procs -> [GVs -> SubType]]
    BY <1>1, SubStType, "lookup" \in SubState DEF LeadQuery, SubState
  <2>2. inner' \in [GVs -> Procs \cup {NoProc}]
    BY <1>0, <1>1 DEF LeadQuery
  <2> QED BY <1>0, <1>1, <2>1, <2>2, QueryFrameType DEF LeadQuery
<1>2. ASSUME JoinQuery(p, gv) PROVE TypeOK'
  <2>1. sub' \in [Procs -> [GVs -> SubType]]
    BY <1>2, SubStType DEF JoinQuery, SubState
  <2> QED BY <1>0, <1>2, <2>1, QueryFrameType DEF JoinQuery
<1>3. ASSUME CacheHit(p, gv) PROVE TypeOK'
  <2>1. Cached(cache[gv]) \in Answer
    BY <1>0, CachedType
  <2> QED BY <1>0, <1>3, <2>1, AnsweredType, QueryFrameType DEF CacheHit
<1>4. ASSUME CacheMiss(p, gv) PROVE TypeOK'
  <2>1. sub' \in [Procs -> [GVs -> SubType]]
    BY <1>4, SubStType DEF CacheMiss, SubState
  <2> QED BY <1>0, <1>4, <2>1, QueryFrameType DEF CacheMiss
<1>5. ASSUME AskServer(p, gv) PROVE TypeOK'
  <2>1. PICK a \in Live(gv) :
          IF a.err \in {"none", "text"}
          THEN sub' = [sub EXCEPT ![p][gv] = [st |-> "store", ans |-> a]] /\ UNCHANGED inner
          ELSE Answered(p, gv, a)
    BY <1>5 DEF AskServer
  <2>2. a \in Answer
    BY LiveType
  <2>3. [st |-> "store", ans |-> a] \in SubType
    BY <2>2 DEF SubType, SubState
  <2>4. sub' \in [Procs -> [GVs -> SubType]] /\ inner' \in [GVs -> Procs \cup {NoProc}]
    <3>1. CASE a.err \in {"none", "text"}
      <4>1. sub \in [Procs -> [GVs -> SubType]] BY DEF TypeOK
      <4> QED BY <1>0, <2>1, <2>3, <3>1, <4>1
    <3>2. CASE a.err \notin {"none", "text"}
      BY <2>1, <2>2, <3>2, AnsweredType
    <3> QED BY <3>1, <3>2
  <2> QED BY <1>0, <1>5, <2>4, QueryFrameType DEF AskServer
<1>6. ASSUME Store(p, gv) PROVE TypeOK'
  <2>1. sub[p][gv].ans \in Answer
    BY <1>0 DEF SubType
  <2>2. cache' \in [GVs -> Entry]
    BY <1>0, <1>6, <2>1 DEF Store, Entry, Answer
  <2> QED BY <1>0, <1>6, <2>1, <2>2, AnsweredType, QueryFrameType DEF Store
<1> QED BY <1>1, <1>2, <1>3, <1>4, <1>5, <1>6 DEF Query

\* The steps of a listing leave these types alone.
LEMMA ListingFrameType ==
  ASSUME TypeOK, ListingUnchanged,
         cache' \in [GVs -> Entry], groups' \in GroupSet,
         outer' \in [Keys -> Procs \cup {NoProc}], pc' \in [Procs -> PC],
         listed' \in [Procs -> SUBSET GVs],
         sub' \in [Procs -> [GVs -> SubType]], got' \in [Procs -> ListResult]
  PROVE  TypeOK'
  BY DEF TypeOK, ListingUnchanged, clusterVars, historyVars

LEMMA ListingType ==
  ASSUME TypeOK, NEW p \in Procs, Listing(p)
  PROVE  TypeOK'
<1>0. /\ cache \in [GVs -> Entry] /\ groups \in GroupSet /\ listed \in [Procs -> SUBSET GVs]
      /\ outer \in [Keys -> Procs \cup {NoProc}] /\ sub \in [Procs -> [GVs -> SubType]]
      /\ got \in [Procs -> ListResult] /\ pc \in [Procs -> PC]
  BY DEF TypeOK
<1>00. [err |-> "other", lists |-> NoLists] \in ListResult
  BY DEF ListResult, NoLists, BackendError
<1>1. ASSUME GroupsHit(p) PROVE TypeOK'
  BY <1>0, <1>1, StartQueriesType, ListingFrameType DEF GroupsHit, cacheVars
<1>2. ASSUME GroupsLive(p) PROVE TypeOK'
  <2>1. LiveGroups \in SUBSET GVs
    BY DEF LiveGroups
  <2>2. listed' \in [Procs -> SUBSET GVs] /\ pc' \in [Procs -> PC]
    BY <1>0, <1>2, <2>1 DEF GroupsLive, PC
  <2> QED BY <1>0, <1>2, <2>2, ListingFrameType DEF GroupsLive, cacheVars
<1>3. ASSUME GroupsFail(p) PROVE TypeOK'
  BY <1>0, <1>00, <1>3, DeliverType, ListingFrameType DEF GroupsFail, cacheVars
<1>4. ASSUME GroupsStore(p) PROVE TypeOK'
  <2>1. groups' \in GroupSet
    BY <1>0, <1>4 DEF GroupsStore, GroupSet
  <2>2. listed' \in [Procs -> SUBSET GVs]
    BY <1>0, <1>4 DEF GroupsStore
  <2> QED BY <1>0, <1>4, <2>1, <2>2, StartQueriesType, ListingFrameType DEF GroupsStore
<1>5. ASSUME Aggregate(p) PROVE TypeOK'
  <2>1. CASE ~groups.known /\ Down
    BY <1>0, <1>00, <1>5, <2>1, DeliverType, ListingFrameType DEF Aggregate, cacheVars
  <2>2. CASE ~(~groups.known /\ Down)
    <3> DEFINE gvs == IF groups.known THEN groups.gvs ELSE LiveGroups
               now == [gv \in gvs |->
                         IF cache[gv].known THEN Cached(cache[gv])
                         ELSE CHOOSE a \in Live(gv) : a.err # "status"]
    <3>1. gvs \subseteq GVs
      BY <1>0 DEF GroupSet, LiveGroups
    <3>2. ASSUME NEW gv \in gvs PROVE now[gv] \in Answer
      <4>1. gv \in GVs BY <3>1
      <4>2. CASE cache[gv].known
        BY <1>0, <4>1, <4>2, CachedType
      <4>3. CASE ~cache[gv].known
        BY <4>1, <4>3, LiveChoice, LiveType
      <4> QED BY <4>2, <4>3
    <3>3. Collect(AllGVs, now) \in ListResult
      <4>1. DOMAIN now = gvs OBVIOUS
      <4> HIDE DEF now, gvs
      <4> QED BY <3>1, <3>2, <4>1, CollectType
    <3>4. /\ groups' = [known |-> TRUE, gvs |-> gvs]
          /\ cache' = [gv \in GVs |-> IF gv \in gvs /\ now[gv].err # "other"
                                       THEN [known |-> TRUE, kinds |-> now[gv].kinds]
                                       ELSE cache[gv]]
          /\ Deliver(p, Collect(AllGVs, now))
      BY <1>5, <2>2 DEF Aggregate
    <3> HIDE DEF gvs, now
    <3>5. groups' \in GroupSet
      BY <3>1, <3>4 DEF GroupSet
    <3>6. cache' \in [GVs -> Entry]
      <4>1. \A gv \in gvs : now[gv].kinds \in SUBSET Kinds
        BY <3>2 DEF Answer
      <4>2. \A gv \in GVs : gv \in gvs => [known |-> TRUE, kinds |-> now[gv].kinds] \in Entry
        BY <4>1 DEF Entry
      <4> QED BY <1>0, <3>4, <4>2
    <3> QED BY <1>0, <1>5, <3>3, <3>4, <3>5, <3>6, DeliverType, ListingFrameType DEF Aggregate
  <2> QED BY <2>1, <2>2
<1>6. ASSUME QueriesDone(p) PROVE TypeOK'
  <2> DEFINE ans == [gv \in Active(p) |-> sub[p][gv].ans]
  <2>1. Active(p) \subseteq GVs
    BY DEF Active
  <2>2. \A gv \in Active(p) : ans[gv] \in Answer
    BY <1>0, <2>1 DEF SubType
  <2>3. Collect(call[p].v, ans) \in ListResult
    <3>1. DOMAIN ans = Active(p) OBVIOUS
    <3> HIDE DEF ans
    <3> QED BY <2>1, <2>2, <3>1, CollectType
  <2>4. Off \in SubType
    BY DEF Off, Empty, SubType, SubState, Answer, BackendError
  <2>5. sub' \in [Procs -> [GVs -> SubType]]
    BY <1>0, <1>6, <2>4 DEF QueriesDone
  <2>6. Deliver(p, Collect(call[p].v, ans))
    BY <1>6 DEF QueriesDone, Listed
  <2> HIDE DEF ans
  <2> QED BY <1>0, <1>6, <2>3, <2>5, <2>6, DeliverType, ListingFrameType DEF QueriesDone, cacheVars
<1> QED BY <1>1, <1>2, <1>3, <1>4, <1>5, <1>6 DEF Listing

\* The steps of a call leave these types alone.
LEMMA CallFrameType ==
  ASSUME TypeOK, CallsUnchanged,
         cache' \in [GVs -> Entry], groups' \in GroupSet, mu' \in Procs \cup {NoProc},
         outer' \in [Keys -> Procs \cup {NoProc}], call' \in [Procs -> Calls],
         pc' \in [Procs -> PC], sub' \in [Procs -> [GVs -> SubType]],
         got' \in [Procs -> ListResult],
         retriedL' \in [Procs -> BOOLEAN], retriedA' \in [Procs -> BOOLEAN],
         missed' \in [Procs -> SUBSET GVs], overlap' \in [Procs -> BOOLEAN],
         flushed' \in [Procs -> BOOLEAN]
  PROVE  TypeOK'
  BY DEF TypeOK, CallsUnchanged, clusterVars

LEMMA LeaveType ==
  ASSUME TypeOK, NEW p \in Procs, Leave(p)
  PROVE  /\ call' \in [Procs -> Calls]
         /\ pc' \in [Procs -> PC]
         /\ got' \in [Procs -> ListResult]
         /\ retriedL' \in [Procs -> BOOLEAN]
         /\ retriedA' \in [Procs -> BOOLEAN]
         /\ missed' \in [Procs -> SUBSET GVs]
         /\ overlap' \in [Procs -> BOOLEAN]
         /\ flushed' \in [Procs -> BOOLEAN]
<1>1. NoResult \in ListResult
  BY DEF NoResult, NoLists, ListResult, BackendError
<1> QED BY <1>1, NoCallType DEF Leave, TypeOK, PC

LEMMA InFlightType ==
  ASSUME NEW p, NEW v
  PROVE  InFlight(p, v) \in BOOLEAN
  BY DEF InFlight

LEMMA StartType ==
  ASSUME TypeOK, NEW p \in Procs, NEW c \in Calls, Start(p, c)
  PROVE  TypeOK'
<1>1. call' \in [Procs -> Calls]
  BY DEF Start, TypeOK
<1>2. missed' \in [Procs -> SUBSET GVs]
  <2>1. {gv \in GVs : ~Serves(gv, c.kind)} \in SUBSET GVs OBVIOUS
  <2> QED BY <2>1 DEF Start, TypeOK
<1>3. overlap' \in [Procs -> BOOLEAN]
  BY InFlightType DEF Start, TypeOK
<1>4. pc' \in [Procs -> PC] /\ sub' \in [Procs -> [GVs -> SubType]]
  <2>1. CASE c.op = "direct"
    BY <2>1, CallFields, UncachedType DEF Start
  <2>2. CASE c.op = "invalidate"
    BY <2>2 DEF Start, TypeOK, PC
  <2>3. CASE c.op \notin {"direct", "invalidate"}
    BY <2>3 DEF Start, TypeOK, PC
  <2> QED BY <2>1, <2>2, <2>3
<1>5. /\ cache' \in [GVs -> Entry] /\ groups' \in GroupSet /\ mu' \in Procs \cup {NoProc}
      /\ outer' \in [Keys -> Procs \cup {NoProc}] /\ got' \in [Procs -> ListResult]
      /\ retriedL' \in [Procs -> BOOLEAN] /\ retriedA' \in [Procs -> BOOLEAN]
      /\ flushed' \in [Procs -> BOOLEAN] /\ CallsUnchanged
  BY DEF Start, TypeOK, cacheVars
<1> QED BY <1>1, <1>2, <1>3, <1>4, <1>5, CallFrameType

LEMMA GoroutineType ==
  ASSUME TypeOK, NEW p \in Procs, Goroutine(p) \/ Lock(p)
  PROVE  TypeOK'
<1>0. /\ cache \in [GVs -> Entry] /\ groups \in GroupSet /\ mu \in Procs \cup {NoProc}
      /\ outer \in [Keys -> Procs \cup {NoProc}] /\ call \in [Procs -> Calls]
      /\ pc \in [Procs -> PC] /\ sub \in [Procs -> [GVs -> SubType]]
      /\ got \in [Procs -> ListResult]
      /\ retriedL \in [Procs -> BOOLEAN] /\ retriedA \in [Procs -> BOOLEAN]
      /\ missed \in [Procs -> SUBSET GVs] /\ overlap \in [Procs -> BOOLEAN]
      /\ flushed \in [Procs -> BOOLEAN]
  BY DEF TypeOK
<1>00. call[p].v \in Keys
  BY <1>0, CallFields
<1>01. NoResult \in ListResult
  BY DEF NoResult, NoLists, ListResult, BackendError
<1>1. ASSUME LeadList(p) PROVE TypeOK'
  <2>1. outer' \in [Keys -> Procs \cup {NoProc}]
    BY <1>0, <1>00, <1>1 DEF LeadList
  <2> QED BY <1>0, <1>00, <1>1, <2>1, UncachedType, CallFrameType
          DEF LeadList, cacheVars, historyVars
<1>2. ASSUME JoinList(p) PROVE TypeOK'
  <2>1. pc' \in [Procs -> PC]
    BY <1>0, <1>2 DEF JoinList, PC
  <2> QED BY <1>0, <1>2, <2>1, CallFrameType DEF JoinList, cacheVars, historyVars
<1>3. ASSUME RetryList(p) PROVE TypeOK'
  <2>1. pc' \in [Procs -> PC] /\ got' \in [Procs -> ListResult] /\ retriedL' \in [Procs -> BOOLEAN]
    BY <1>0, <1>01, <1>3 DEF RetryList, AskAgain, PC
  <2> QED BY <1>0, <1>3, <2>1, CallFrameType DEF RetryList, cacheVars, historyVars
<1>4. ASSUME RetryResource(p) PROVE TypeOK'
  <2>1. /\ pc' \in [Procs -> PC] /\ got' \in [Procs -> ListResult]
        /\ retriedL' \in [Procs -> BOOLEAN] /\ retriedA' \in [Procs -> BOOLEAN]
    BY <1>0, <1>01, <1>4 DEF RetryResource, AskAgain, PC
  <2> QED BY <1>0, <1>4, <2>1, CallFrameType DEF RetryResource, cacheVars, historyVars
<1>5. ASSUME Return(p) PROVE TypeOK'
  BY <1>0, <1>5, LeaveType, CallFrameType DEF Return, cacheVars
<1>6. ASSUME Invalidate(p) PROVE TypeOK'
  <2>1. cache' \in [GVs -> Entry] /\ groups' \in GroupSet
    BY <1>6, NothingType DEF Invalidate, Forget
  <2>2. /\ call' \in [Procs -> Calls] /\ pc' \in [Procs -> PC] /\ got' \in [Procs -> ListResult]
        /\ retriedL' \in [Procs -> BOOLEAN] /\ retriedA' \in [Procs -> BOOLEAN]
        /\ missed' \in [Procs -> SUBSET GVs] /\ overlap' \in [Procs -> BOOLEAN]
        /\ flushed' \in [Procs -> BOOLEAN]
    <3>1. CASE call[p].op = "invalidate"
      BY <1>6, <3>1, LeaveType DEF Invalidate
    <3>2. CASE call[p].op # "invalidate"
      <4>1. /\ overlap' = [overlap EXCEPT ![p] = InFlight(p, call[p].v)]
            /\ pc' = [pc EXCEPT ![p] = "list"]
            /\ flushed' = [flushed EXCEPT ![p] = TRUE]
            /\ UNCHANGED <<call, got, retriedL, retriedA, missed>>
        BY <1>6, <3>2 DEF Invalidate
      <4>2. overlap' \in [Procs -> BOOLEAN]
        BY <1>0, <4>1, InFlightType
      <4>3. pc' \in [Procs -> PC]
        BY <1>0, <4>1 DEF PC
      <4> QED BY <1>0, <4>1, <4>2, <4>3
    <3> QED BY <3>1, <3>2
  <2>3. mu' \in Procs \cup {NoProc} /\ UNCHANGED <<outer, sub>> /\ CallsUnchanged
    BY <1>6 DEF Invalidate
  <2> QED BY <1>0, <2>1, <2>2, <2>3, CallFrameType
<1>7. ASSUME Lock(p) PROVE TypeOK'
  <2>1. pc' \in [Procs -> PC] /\ mu' \in Procs \cup {NoProc}
    BY <1>0, <1>7 DEF Lock, PC
  <2> QED BY <1>0, <1>7, <2>1, CallFrameType DEF Lock, cacheVars, historyVars
<1> QED BY <1>1, <1>2, <1>3, <1>4, <1>5, <1>6, <1>7 DEF Goroutine

LEMMA NextType == TypeOK /\ [Next]_vars => TypeOK'
<1> SUFFICES ASSUME TypeOK, [Next]_vars PROVE TypeOK'
  OBVIOUS
<1>1. CASE UNCHANGED vars
  BY <1>1 DEF TypeOK, vars, clusterVars, cacheVars, localVars, historyVars
<1>2. CASE Next
  BY <1>2, StartType, QueryType, ListingType, GoroutineType, EnvironmentType DEF Next
<1> QED BY <1>1, <1>2

\* Every variable keeps to its type, whatever calls run and however the cluster
\* changes.
THEOREM TypeCorrect == Spec => []TypeOK
  BY InitType, NextType, PTL DEF Spec

-----------------------------------------------------------------------------
(* Flights *)

\* What a goroutine waits for, and what it leads, when only queries move.
LEMMA FlightFrame ==
  ASSUME FlightInv, UNCHANGED <<pc, mu, outer, call>>,
         \A p \in Procs, gv \in GVs :
             /\ sub'[p][gv].st \in Busy <=> inner'[gv] = p
             /\ sub'[p][gv].st = "join" => inner'[gv] # NoProc
             /\ sub'[p][gv].st # "off" => pc[p] = "subs"
  PROVE  FlightInv'
  BY DEF FlightInv

\* The leader of a flight ends it.
LEMMA AnsweredFlight ==
  ASSUME TypeOK, FlightInv, NEW p \in Procs, NEW gv \in GVs, NEW a \in Answer,
         sub[p][gv].st \in Busy, Answered(p, gv, a), UNCHANGED <<pc, mu, outer, call>>
  PROVE  FlightInv'
<1>1. inner[gv] = p
  BY DEF FlightInv
<1>2. sub \in [Procs -> [GVs -> SubType]] /\ inner \in [GVs -> Procs \cup {NoProc}]
  BY DEF TypeOK
<1>3. \A q \in Procs, h \in GVs :
         sub'[q][h] = IF h = gv /\ (q = p \/ sub[q][h].st = "join")
                      THEN [st |-> "done", ans |-> a] ELSE sub[q][h]
  BY DEF Answered
<1>4. inner' = [inner EXCEPT ![gv] = NoProc]
  BY DEF Answered
<1> SUFFICES ASSUME NEW q \in Procs, NEW h \in GVs
             PROVE  /\ sub'[q][h].st \in Busy <=> inner'[h] = q
                    /\ sub'[q][h].st = "join" => inner'[h] # NoProc
                    /\ sub'[q][h].st # "off" => pc[q] = "subs"
  BY FlightFrame
<1>5. /\ sub[q][h].st \in Busy <=> inner[h] = q
      /\ sub[q][h].st = "join" => inner[h] # NoProc
      /\ sub[q][h].st # "off" => pc[q] = "subs"
  BY DEF FlightInv
<1>6. CASE h # gv
  <2>1. sub'[q][h] = sub[q][h] /\ inner'[h] = inner[h]
    BY <1>2, <1>3, <1>4, <1>6
  <2> QED BY <1>5, <2>1
<1>7. CASE h = gv
  <2>1. inner'[h] = NoProc
    BY <1>2, <1>4, <1>7
  <2>2. CASE q = p \/ sub[q][gv].st = "join"
    <3>1. sub'[q][h].st = "done"
      BY <1>2, <1>3, <1>7, <2>2
    <3>2. pc[q] = "subs"
      BY <1>5, <1>7, <2>2 DEF Busy
    <3> QED BY <2>1, <3>1, <3>2, ConstantsOK DEF Busy
  <2>3. CASE q # p /\ sub[q][gv].st # "join"
    <3>1. sub'[q][h] = sub[q][h]
      BY <1>2, <1>3, <1>7, <2>3
    <3> QED BY <1>1, <1>5, <1>7, <2>1, <2>3, <3>1, ConstantsOK
  <2> QED BY <2>2, <2>3
<1> QED BY <1>6, <1>7

\* A query moves on without ending its flight.
LEMMA AdvanceFlight ==
  ASSUME TypeOK, FlightInv, NEW p \in Procs, NEW gv \in GVs, NEW s,
         sub[p][gv].st # "off", sub'[p][gv].st = s, s # "off",
         \A q \in Procs, h \in GVs : ~(q = p /\ h = gv) => sub'[q][h] = sub[q][h],
         UNCHANGED <<pc, mu, outer, call>>,
         \/ s \in Busy /\ sub[p][gv].st \in Busy /\ UNCHANGED inner
         \/ s \in Busy /\ inner[gv] = NoProc /\ inner' = [inner EXCEPT ![gv] = p]
         \/ /\ s = "join" /\ sub[p][gv].st \notin Busy
            /\ inner[gv] # NoProc /\ UNCHANGED inner
  PROVE  FlightInv'
<1>1. inner \in [GVs -> Procs \cup {NoProc}]
  BY DEF TypeOK
<1> SUFFICES ASSUME NEW q \in Procs, NEW h \in GVs
             PROVE  /\ sub'[q][h].st \in Busy <=> inner'[h] = q
                    /\ sub'[q][h].st = "join" => inner'[h] # NoProc
                    /\ sub'[q][h].st # "off" => pc[q] = "subs"
  BY FlightFrame
<1>2. /\ sub[q][h].st \in Busy <=> inner[h] = q
      /\ sub[q][h].st = "join" => inner[h] # NoProc
      /\ sub[q][h].st # "off" => pc[q] = "subs"
  BY DEF FlightInv
<1>3. CASE q = p /\ h = gv
  BY <1>1, <1>2, <1>3, ConstantsOK DEF Busy
<1>4. CASE ~(q = p /\ h = gv)
  BY <1>1, <1>2, <1>4, ConstantsOK DEF Busy
<1> QED BY <1>3, <1>4

LEMMA QueryFlight ==
  ASSUME TypeOK, FlightInv, NEW p \in Procs, NEW gv \in GVs, Query(p, gv)
  PROVE  FlightInv'
<1>0. /\ sub \in [Procs -> [GVs -> SubType]] /\ sub[p] \in [GVs -> SubType]
      /\ sub[p][gv] \in SubType /\ cache[gv] \in Entry
  BY DEF TypeOK
<1>00. ASSUME NEW s, sub' = [sub EXCEPT ![p][gv].st = s]
       PROVE  /\ sub'[p][gv].st = s
              /\ \A q \in Procs, h \in GVs : ~(q = p /\ h = gv) => sub'[q][h] = sub[q][h]
  <2>1. sub' = [sub EXCEPT ![p] = [sub[p] EXCEPT ![gv] = [sub[p][gv] EXCEPT !.st = s]]]
    BY <1>00
  <2>2. [sub[p][gv] EXCEPT !.st = s].st = s
    BY <1>0 DEF SubType
  <2> QED BY <1>0, <2>1, <2>2
<1>1. CASE LeadQuery(p, gv)
  <2>1. sub' = [sub EXCEPT ![p][gv].st = "lookup"]
    BY <1>1 DEF LeadQuery
  <2>2. /\ sub'[p][gv].st = "lookup"
        /\ \A q \in Procs, h \in GVs : ~(q = p /\ h = gv) => sub'[q][h] = sub[q][h]
    BY <1>00, <2>1
  <2> QED BY <1>1, <2>2, AdvanceFlight DEF LeadQuery, QueryUnchanged, Busy
<1>2. CASE JoinQuery(p, gv)
  <2>1. sub' = [sub EXCEPT ![p][gv].st = "join"]
    BY <1>2 DEF JoinQuery
  <2>2. /\ sub'[p][gv].st = "join"
        /\ \A q \in Procs, h \in GVs : ~(q = p /\ h = gv) => sub'[q][h] = sub[q][h]
    BY <1>00, <2>1
  <2> QED BY <1>2, <2>2, AdvanceFlight DEF JoinQuery, QueryUnchanged, Busy
<1>3. CASE CacheHit(p, gv)
  BY <1>0, <1>3, CachedType, AnsweredFlight DEF CacheHit, QueryUnchanged, Busy
<1>4. CASE CacheMiss(p, gv)
  <2>1. sub' = [sub EXCEPT ![p][gv].st = "live"]
    BY <1>4 DEF CacheMiss
  <2>2. /\ sub'[p][gv].st = "live"
        /\ \A q \in Procs, h \in GVs : ~(q = p /\ h = gv) => sub'[q][h] = sub[q][h]
    BY <1>00, <2>1
  <2> QED BY <1>4, <2>2, AdvanceFlight DEF CacheMiss, QueryUnchanged, Busy
<1>5. CASE AskServer(p, gv)
  <2>1. PICK a \in Live(gv) :
          IF a.err \in {"none", "text"}
          THEN sub' = [sub EXCEPT ![p][gv] = [st |-> "store", ans |-> a]] /\ UNCHANGED inner
          ELSE Answered(p, gv, a)
    BY <1>5 DEF AskServer
  <2>2. a \in Answer
    BY LiveType
  <2>3. CASE a.err \in {"none", "text"}
    <3>1. sub' = [sub EXCEPT ![p][gv] = [st |-> "store", ans |-> a]] /\ UNCHANGED inner
      BY <2>1, <2>3
    <3>2. /\ sub'[p][gv].st = "store"
          /\ \A q \in Procs, h \in GVs : ~(q = p /\ h = gv) => sub'[q][h] = sub[q][h]
      BY <1>0, <3>1
    <3> QED BY <1>5, <3>1, <3>2, AdvanceFlight DEF AskServer, QueryUnchanged, Busy
  <2>4. CASE a.err \notin {"none", "text"}
    <3>1. Answered(p, gv, a)
      BY <2>1, <2>4
    <3> QED BY <1>5, <2>2, <3>1, AnsweredFlight DEF AskServer, QueryUnchanged, Busy
  <2> QED BY <2>3, <2>4
<1>6. CASE Store(p, gv)
  <2>1. sub[p][gv].ans \in Answer
    BY <1>0 DEF SubType
  <2> QED BY <1>6, <2>1, AnsweredFlight DEF Store, QueryUnchanged, Busy
<1> QED BY <1>1, <1>2, <1>3, <1>4, <1>5, <1>6 DEF Query

\* FlightInv taken apart, and put together from its parts.
LEMMA FlightParts ==
  ASSUME FlightInv, NEW q \in Procs
  PROVE  /\ pc[q] = "inv" <=> mu = q
         /\ pc[q] = "join" => outer[call[q].v] # NoProc
         /\ \A v \in Keys : outer[v] = q => call[q].v = v /\ pc[q] \in Leading
         /\ \A gv \in GVs : /\ sub[q][gv].st \in Busy <=> inner[gv] = q
                            /\ sub[q][gv].st = "join" => inner[gv] # NoProc
                            /\ sub[q][gv].st # "off" => pc[q] = "subs"
  BY DEF FlightInv

\* A goroutine outside every listing moves to another place outside.
LEMMA MoveFlight ==
  ASSUME TypeOK, FlightInv, NEW p \in Procs, NEW s,
         pc[p] \notin Leading, s \notin Leading, pc' = [pc EXCEPT ![p] = s],
         UNCHANGED <<outer, inner, sub>>,
         \A q \in Procs \ {p} : call'[q] = call[q],
         s = "join" => outer[call'[p].v] # NoProc,
         \A q \in Procs : pc'[q] = "inv" <=> mu' = q
  PROVE  FlightInv'
<1>0. pc \in [Procs -> PC]
  BY DEF TypeOK
<1>1. ASSUME NEW q \in Procs, NEW gv \in GVs
      PROVE  sub'[q][gv].st # "off" => pc'[q] = "subs"
  BY <1>0, FlightParts DEF Leading
<1>2. ASSUME NEW q \in Procs
      PROVE  /\ pc'[q] = "join" => outer'[call'[q].v] # NoProc
             /\ \A v \in Keys : outer'[v] = q => call'[q].v = v /\ pc'[q] \in Leading
  BY <1>0, FlightParts DEF Leading
<1> QED BY <1>1, <1>2, FlightParts DEF FlightInv

\* A goroutine begins an uncached listing.
LEMMA UncachedFlight ==
  ASSUME TypeOK, FlightInv, NEW p \in Procs, NEW v \in Keys,
         pc[p] \in {"idle", "list"}, Uncached(p, v), UNCHANGED <<mu, inner>>,
         call'[p].v = v, \A q \in Procs \ {p} : call'[q] = call[q],
         \A w \in Keys : \/ outer'[w] = outer[w]
                         \/ w = v /\ outer'[w] = p
  PROVE  FlightInv'
<1>0. /\ pc \in [Procs -> PC] /\ sub \in [Procs -> [GVs -> SubType]]
      /\ \A q \in Procs : sub[q] \in [GVs -> SubType]
      /\ outer \in [Keys -> Procs \cup {NoProc}]
  BY DEF TypeOK
<1>1. /\ \A gv \in GVs : sub[p][gv].st = "off" /\ inner[gv] # p
      /\ \A w \in Keys : outer[w] # p
      /\ mu # p
  BY FlightParts DEF Leading, Busy
<1>2. \A q \in Procs \ {p} : pc'[q] = pc[q] /\ sub'[q] = sub[q]
  BY <1>0 DEF Uncached
<1>3. pc'[p] \in Leading
  BY <1>0 DEF Uncached, Leading
<1>4. \A gv \in GVs : /\ sub'[p][gv].st \in {"off", "call"}
                      /\ sub'[p][gv].st = "call" => pc'[p] = "subs"
  <2>1. CASE v = AllGVs
    BY <1>0, <1>1, <2>1 DEF Uncached
  <2>2. CASE v # AllGVs
    <3>1. v \in GVs
      BY <2>2 DEF Keys
    <3>2. sub' = [sub EXCEPT ![p] = [sub[p] EXCEPT ![v] = Asked]] /\ pc'[p] = "subs"
      BY <1>0, <2>2 DEF Uncached
    <3>3. sub'[p] = [sub[p] EXCEPT ![v] = Asked]
      BY <1>0, <3>2
    <3> QED BY <1>0, <1>1, <3>1, <3>2, <3>3 DEF Asked
  <2> QED BY <2>1, <2>2
<1>5. ASSUME NEW q \in Procs, NEW gv \in GVs
      PROVE  /\ sub'[q][gv].st \in Busy <=> inner'[gv] = q
             /\ sub'[q][gv].st = "join" => inner'[gv] # NoProc
             /\ sub'[q][gv].st # "off" => pc'[q] = "subs"
  <2>1. CASE q = p
    <3>0. inner' = inner
      OBVIOUS
    <3>1. inner'[gv] # q
      BY <1>1, <2>1, <3>0
    <3>2. sub'[q][gv].st \in {"off", "call"}
      BY <1>4, <2>1
    <3>3. sub'[q][gv].st = "call" => pc'[q] = "subs"
      BY <1>4, <2>1
    <3> QED BY <3>1, <3>2, <3>3 DEF Busy
  <2>2. CASE q # p
    BY <1>2, <2>2, FlightParts
  <2> QED BY <2>1, <2>2
<1>6. ASSUME NEW q \in Procs
      PROVE  /\ pc'[q] = "inv" <=> mu' = q
             /\ pc'[q] = "join" => outer'[call'[q].v] # NoProc
             /\ \A w \in Keys : outer'[w] = q => call'[q].v = w /\ pc'[q] \in Leading
  <2>1. CASE q = p
    BY <1>1, <1>3, <2>1 DEF Leading
  <2>2. CASE q # p
    <3>1. /\ pc'[q] = pc[q] /\ call'[q] = call[q]
      BY <1>2, <2>2
    <3>2. call[q].v \in Keys
      BY CallFields DEF TypeOK
    <3> QED BY <2>2, <3>1, <3>2, FlightParts, ConstantsOK
  <2> QED BY <2>1, <2>2
<1> QED BY <1>5, <1>6 DEF FlightInv

\* A goroutine that has the group list begins its queries.
LEMMA StartQueriesFlight ==
  ASSUME TypeOK, FlightInv, NEW p \in Procs, NEW gvs,
         pc[p] \in {"groups", "groupsStore"}, StartQueries(p, gvs),
         UNCHANGED <<mu, inner, outer, call>>
  PROVE  FlightInv'
<1>0. pc \in [Procs -> PC] /\ sub \in [Procs -> [GVs -> SubType]]
  BY DEF TypeOK
<1>1. \A gv \in GVs : inner[gv] # p
  BY FlightParts DEF Busy
<1>2. /\ pc'[p] = "subs"
      /\ \A gv \in GVs : sub'[p][gv].st \in {"off", "call"}
      /\ \A q \in Procs \ {p} : pc'[q] = pc[q] /\ sub'[q] = sub[q]
  BY <1>0 DEF StartQueries, Asked, Off
<1>3. ASSUME NEW q \in Procs, NEW gv \in GVs
      PROVE  /\ sub'[q][gv].st \in Busy <=> inner'[gv] = q
             /\ sub'[q][gv].st = "join" => inner'[gv] # NoProc
             /\ sub'[q][gv].st # "off" => pc'[q] = "subs"
  <2>1. CASE q = p
    BY <1>1, <1>2, <2>1 DEF Busy
  <2>2. CASE q # p
    BY <1>2, <2>2, FlightParts
  <2> QED BY <2>1, <2>2
<1>4. ASSUME NEW q \in Procs
      PROVE  /\ pc'[q] = "inv" <=> mu' = q
             /\ pc'[q] = "join" => outer'[call'[q].v] # NoProc
             /\ \A w \in Keys : outer'[w] = q => call'[q].v = w /\ pc'[q] \in Leading
  <2>1. CASE q = p
    BY <1>2, <2>1, FlightParts DEF Leading
  <2>2. CASE q # p
    BY <1>2, <2>2, FlightParts
  <2> QED BY <2>1, <2>2
<1> QED BY <1>3, <1>4 DEF FlightInv

\* A goroutine ends its listing.
LEMMA DeliverFlight ==
  ASSUME TypeOK, FlightInv, NEW p \in Procs, NEW r,
         pc[p] \in Leading, Deliver(p, r), UNCHANGED <<mu, inner, call>>,
         \A gv \in GVs : inner[gv] # p /\ sub'[p][gv].st = "off",
         \A q \in Procs \ {p} : sub'[q] = sub[q]
  PROVE  FlightInv'
<1>0. /\ pc \in [Procs -> PC] /\ outer \in [Keys -> Procs \cup {NoProc}]
      /\ call[p].v \in Keys
  BY CallFields DEF TypeOK
<1> DEFINE v == call[p].v
           all == {p} \cup (IF outer[v] = p
                            THEN {q \in Procs : pc[q] = "join" /\ call[q].v = v} ELSE {})
<1>1. /\ pc' = [q \in Procs |-> IF q \in all THEN "got" ELSE pc[q]]
      /\ outer' = [outer EXCEPT ![v] = IF @ = p THEN NoProc ELSE @]
  BY DEF Deliver
<1>2. \A q \in all \ {p} : pc[q] = "join" /\ call[q].v = v /\ outer[v] = p
  OBVIOUS
<1>3. \A w \in Keys : outer'[w] = IF w = v /\ outer[v] = p THEN NoProc ELSE outer[w]
  BY <1>0, <1>1
<1>30. NoProc \notin Procs
  BY ConstantsOK
<1>31. \A w \in Keys : outer'[w] # p
  BY <1>3, <1>30, FlightParts
<1>4. ASSUME NEW q \in Procs, NEW gv \in GVs
      PROVE  /\ sub'[q][gv].st \in Busy <=> inner'[gv] = q
             /\ sub'[q][gv].st = "join" => inner'[gv] # NoProc
             /\ sub'[q][gv].st # "off" => pc'[q] = "subs"
  <2>1. CASE q = p
    BY <2>1 DEF Busy
  <2>2. CASE q # p
    BY <1>1, <1>2, <2>2, FlightParts
  <2> QED BY <2>1, <2>2
<1>5. ASSUME NEW q \in Procs
      PROVE  /\ pc'[q] = "inv" <=> mu' = q
             /\ pc'[q] = "join" => outer'[call'[q].v] # NoProc
             /\ \A w \in Keys : outer'[w] = q => call'[q].v = w /\ pc'[q] \in Leading
  <2>0. call[q].v \in Keys
    BY CallFields DEF TypeOK
  <2>1. CASE q \in all
    <3>1. pc'[q] = "got"
      BY <1>1, <2>1
    <3>2. pc[q] # "inv" /\ mu # q
      BY <1>2, <2>1, FlightParts DEF Leading
    <3>3. \A w \in Keys : outer'[w] # q
      <4>1. CASE q = p
        BY <1>31, <4>1
      <4>2. CASE q # p
        <5>1. \A w \in Keys : outer[w] # q
          BY <1>2, <2>1, <4>2, FlightParts DEF Leading
        <5> QED BY <1>3, <1>30, <5>1
      <4> QED BY <4>1, <4>2
    <3> QED BY <3>1, <3>2, <3>3
  <2>2. CASE q \notin all
    <3>1. pc'[q] = pc[q]
      BY <1>1, <2>2
    <3>2. pc[q] = "join" => outer'[call[q].v] # NoProc
      <4>1. ASSUME pc[q] = "join" PROVE ~(call[q].v = v /\ outer[v] = p)
        BY <2>2, <4>1
      <4> QED BY <1>3, <2>0, <4>1, FlightParts
    <3>3. \A w \in Keys : outer'[w] = q => outer[w] = q
      BY <1>3, <1>30
    <3> QED BY <3>1, <3>2, <3>3, FlightParts
  <2> QED BY <2>1, <2>2
<1> QED BY <1>4, <1>5 DEF FlightInv

LEMMA ListingFlight ==
  ASSUME TypeOK, FlightInv, NEW p \in Procs, Listing(p)
  PROVE  FlightInv'
<1>0. sub \in [Procs -> [GVs -> SubType]]
  BY DEF TypeOK
<1>00. pc[p] # "subs" => \A gv \in GVs : sub[p][gv].st = "off" /\ inner[gv] # p
  BY FlightParts DEF Busy
<1>1. CASE GroupsHit(p)
  <2>1. pc[p] = "groups" /\ UNCHANGED <<mu, inner, outer, call>>
    BY <1>1 DEF GroupsHit, ListingUnchanged
  <2>2. StartQueries(p, groups.gvs)
    BY <1>1 DEF GroupsHit
  <2> QED BY <2>1, <2>2, StartQueriesFlight
<1>2. CASE GroupsLive(p)
  <2>1. /\ pc' = [pc EXCEPT ![p] = "groupsStore"] /\ pc[p] = "groups"
        /\ UNCHANGED <<mu, outer, inner, sub, call>>
    BY <1>2 DEF GroupsLive, ListingUnchanged
  <2>2. /\ pc'[p] = "groupsStore"
        /\ \A q \in Procs \ {p} : pc'[q] = pc[q]
    BY <2>1 DEF TypeOK
  <2>3. ASSUME NEW q \in Procs
        PROVE  /\ pc'[q] = "inv" <=> mu' = q
               /\ pc'[q] = "join" => outer'[call'[q].v] # NoProc
               /\ \A w \in Keys : outer'[w] = q => call'[q].v = w /\ pc'[q] \in Leading
               /\ \A gv \in GVs : sub'[q][gv].st # "off" => pc'[q] = "subs"
    <3>1. CASE q = p
      BY <2>1, <2>2, <3>1, FlightParts DEF Leading
    <3>2. CASE q # p
      BY <2>1, <2>2, <3>2, FlightParts
    <3> QED BY <3>1, <3>2
  <2> QED BY <2>1, <2>3, FlightParts DEF FlightInv
<1>3. CASE GroupsFail(p)
  <2>1. pc[p] = "groups" /\ UNCHANGED <<mu, inner, call, sub>>
    BY <1>3 DEF GroupsFail, ListingUnchanged
  <2> QED BY <1>00, <1>3, <2>1, DeliverFlight DEF GroupsFail, Leading
<1>4. CASE GroupsStore(p)
  <2>1. pc[p] = "groupsStore" /\ UNCHANGED <<mu, inner, outer, call>>
    BY <1>4 DEF GroupsStore, ListingUnchanged
  <2>2. StartQueries(p, listed[p])
    BY <1>4 DEF GroupsStore
  <2> QED BY <2>1, <2>2, StartQueriesFlight
<1>5. CASE Aggregate(p)
  <2>1. pc[p] = "aggregate" /\ UNCHANGED <<mu, inner, call, sub>>
    BY <1>5 DEF Aggregate, ListingUnchanged
  <2>2. \E r : Deliver(p, r)
    BY <1>5 DEF Aggregate
  <2> QED BY <1>00, <2>1, <2>2, DeliverFlight DEF Leading
<1>6. CASE QueriesDone(p)
  <2>1. /\ pc[p] = "subs" /\ UNCHANGED <<mu, inner, call>>
        /\ sub' = [sub EXCEPT ![p] = [gv \in GVs |-> Off]]
        /\ \A gv \in Active(p) : sub[p][gv].st = "done"
    BY <1>6 DEF QueriesDone, ListingUnchanged
  <2>2. \E r : Deliver(p, r)
    BY <1>6 DEF QueriesDone
  <2>3. \A gv \in GVs : sub'[p][gv].st = "off"
    BY <1>0, <2>1 DEF Off
  <2>4. \A q \in Procs \ {p} : sub'[q] = sub[q]
    BY <1>0, <2>1
  <2>5. \A gv \in GVs : inner[gv] # p
    <3> SUFFICES ASSUME NEW gv \in GVs PROVE sub[p][gv].st \notin Busy
      BY FlightParts
    <3> QED BY <2>1 DEF Active, Busy
  <2> QED BY <2>1, <2>2, <2>3, <2>4, <2>5, DeliverFlight DEF Leading
<1> QED BY <1>1, <1>2, <1>3, <1>4, <1>5, <1>6 DEF Listing

LEMMA StartFlight ==
  ASSUME TypeOK, FlightInv, NEW p \in Procs, NEW c \in Calls, Start(p, c)
  PROVE  FlightInv'
<1>1. /\ pc[p] = "idle" /\ call' = [call EXCEPT ![p] = c] /\ UNCHANGED <<mu, outer, inner>>
  BY DEF Start, CallsUnchanged
<1>2. call'[p] = c /\ \A q \in Procs \ {p} : call'[q] = call[q]
  BY <1>1 DEF TypeOK
<1>3. CASE c.op = "direct"
  <2>1. Uncached(p, c.v)
    BY <1>3 DEF Start
  <2> QED BY <1>1, <1>2, <2>1, CallFields, UncachedFlight
<1>4. CASE c.op # "direct"
  <2>1. PICK s \in {"lock", "list"} : pc' = [pc EXCEPT ![p] = s] /\ UNCHANGED sub
    BY <1>4 DEF Start
  <2>2. \A q \in Procs : pc'[q] = "inv" <=> mu' = q
    BY <1>1, <2>1, FlightParts DEF TypeOK
  <2> QED BY <1>1, <1>2, <2>1, <2>2, MoveFlight DEF Leading
<1> QED BY <1>3, <1>4

LEMMA GoroutineFlight ==
  ASSUME TypeOK, FlightInv, NEW p \in Procs, Goroutine(p) \/ Lock(p)
  PROVE  FlightInv'
<1>0. /\ pc \in [Procs -> PC] /\ call \in [Procs -> Calls] /\ call[p].v \in Keys
      /\ outer \in [Keys -> Procs \cup {NoProc}]
      /\ mu \in Procs \cup {NoProc} /\ NoProc \notin Procs
  BY CallFields, ConstantsOK DEF TypeOK
<1>1. CASE LeadList(p)
  <2>1. /\ pc[p] = "list" /\ outer' = [outer EXCEPT ![call[p].v] = p]
        /\ Uncached(p, call[p].v) /\ UNCHANGED <<mu, inner, call>>
    BY <1>1 DEF LeadList, CallsUnchanged
  <2>2. \A w \in Keys : outer'[w] = outer[w] \/ (w = call[p].v /\ outer'[w] = p)
    BY <1>0, <2>1
  <2> QED BY <1>0, <2>1, <2>2, UncachedFlight
<1>2. CASE JoinList(p)
  <2>1. /\ pc[p] = "list" /\ pc' = [pc EXCEPT ![p] = "join"] /\ outer[call[p].v] # NoProc
        /\ UNCHANGED <<mu, outer, inner, call, sub>>
    BY <1>2 DEF JoinList, CallsUnchanged
  <2>2. \A q \in Procs : pc'[q] = "inv" <=> mu' = q
    BY <1>0, <2>1, FlightParts
  <2> QED BY <2>1, <2>2, MoveFlight DEF Leading
<1>3. CASE RetryList(p) \/ RetryResource(p)
  <2>1. /\ pc[p] = "got" /\ pc' = [pc EXCEPT ![p] = "lock"]
        /\ UNCHANGED <<mu, outer, inner, call, sub>>
    BY <1>3 DEF RetryList, RetryResource, AskAgain, CallsUnchanged
  <2>2. \A q \in Procs : pc'[q] = "inv" <=> mu' = q
    BY <1>0, <2>1, FlightParts
  <2> QED BY <2>1, <2>2, MoveFlight DEF Leading
<1>4. CASE Return(p)
  <2>1. /\ pc[p] = "got" /\ pc' = [pc EXCEPT ![p] = "idle"]
        /\ call' = [call EXCEPT ![p] = NoCall] /\ UNCHANGED <<mu, outer, inner, sub>>
    BY <1>4 DEF Return, Returning, Leave, CallsUnchanged
  <2>2. \A q \in Procs : pc'[q] = "inv" <=> mu' = q
    BY <1>0, <2>1, FlightParts
  <2> QED BY <1>0, <2>1, <2>2, MoveFlight DEF Leading
<1>5. CASE Invalidate(p)
  <2>1. /\ pc[p] = "inv" /\ mu' = NoProc /\ UNCHANGED <<outer, inner, sub>>
    BY <1>5 DEF Invalidate, CallsUnchanged
  <2>2. PICK s \in {"idle", "list"} : pc' = [pc EXCEPT ![p] = s]
    BY <1>5 DEF Invalidate, Leave
  <2>3. \A q \in Procs \ {p} : call'[q] = call[q]
    BY <1>0, <1>5 DEF Invalidate, Leave
  <2>4. ASSUME NEW q \in Procs PROVE pc'[q] = "inv" <=> mu' = q
    <3>1. pc[q] = "inv" => q = p
      BY <2>1, FlightParts
    <3>2. pc'[q] # "inv"
      BY <1>0, <2>2, <3>1
    <3> QED BY <1>0, <2>1, <3>2
  <2> QED BY <2>1, <2>2, <2>3, <2>4, MoveFlight DEF Leading
<1>6. CASE Lock(p)
  <2>1. /\ pc[p] = "lock" /\ mu = NoProc /\ mu' = p /\ pc' = [pc EXCEPT ![p] = "inv"]
        /\ UNCHANGED <<outer, inner, call, sub>>
    BY <1>6 DEF Lock, CallsUnchanged
  <2>2. ASSUME NEW q \in Procs PROVE pc'[q] = "inv" <=> mu' = q
    <3>1. pc[q] # "inv"
      BY <1>0, <2>1, FlightParts
    <3> QED BY <1>0, <2>1, <3>1
  <2> QED BY <2>1, <2>2, MoveFlight DEF Leading
<1> QED BY <1>1, <1>2, <1>3, <1>4, <1>5, <1>6 DEF Goroutine

LEMMA EnvironmentFlight ==
  ASSUME FlightInv, Environment
  PROVE  FlightInv'
<1>1. UNCHANGED <<pc, mu, outer, inner, call, sub>>
  BY DEF Environment, Register, Unregister, Break, Repair, Expire, Observe, localVars
<1> QED BY <1>1 DEF FlightInv

LEMMA InitFlight == Init => FlightInv
  BY ConstantsOK DEF Init, FlightInv, Off, Busy

LEMMA NextFlight == TypeOK /\ FlightInv /\ [Next]_vars => FlightInv'
<1> SUFFICES ASSUME TypeOK, FlightInv, [Next]_vars PROVE FlightInv'
  OBVIOUS
<1>1. CASE UNCHANGED vars
  BY <1>1 DEF FlightInv, vars, localVars
<1>2. CASE Next
  BY <1>2, StartFlight, QueryFlight, ListingFlight, GoroutineFlight, EnvironmentFlight DEF Next
<1> QED BY <1>1, <1>2

\* The flights and the lock agree with what the goroutines are doing.
THEOREM FlightsAgree == Spec => []FlightInv
  BY TypeCorrect, InitFlight, NextFlight, PTL DEF Spec

\* sfCachedDiscovery keeps its promise for any number of goroutines: one
\* goroutine at a time is inside the backend for a group version, and one inside
\* its Invalidate.
THEOREM BackendIsProtected == Spec => []BackendProtected
<1>1. FlightInv => BackendProtected
  BY DEF FlightInv, BackendProtected
<1> QED BY <1>1, FlightsAgree, PTL

\* Nobody waits for a flight that has ended, at either level, nor for a mutex that
\* nobody is about to give up.
THEOREM NobodyIsLost == Spec => []NoLostWaiter
<1>1. ASSUME TypeOK, FlightInv PROVE NoLostWaiter
  <2>1. ASSUME NEW p \in Procs, NEW gv \in GVs, sub[p][gv].st = "join"
        PROVE  \E q \in Procs : inner[gv] = q /\ sub[q][gv].st \in Busy
    <3>1. inner[gv] \in Procs
      BY <1>1, <2>1 DEF TypeOK, FlightInv
    <3>2. sub[inner[gv]][gv].st \in Busy
      BY <1>1, <3>1 DEF FlightInv
    <3> QED BY <3>1, <3>2
  <2>2. ASSUME NEW p \in Procs, pc[p] = "join"
        PROVE  \E q \in Procs : outer[call[p].v] = q /\ pc[q] \in Leading
    <3>1. call[p].v \in Keys
      BY <1>1, CallFields DEF TypeOK
    <3>2. outer[call[p].v] \in Procs
      BY <1>1, <2>2, <3>1 DEF TypeOK, FlightInv
    <3>3. pc[outer[call[p].v]] \in Leading
      BY <1>1, <3>1, <3>2 DEF FlightInv
    <3> QED BY <3>2, <3>3
  <2>3. ASSUME NEW p \in Procs, pc[p] = "lock", mu # NoProc
        PROVE  \E q \in Procs \ {p} : mu = q /\ pc[q] = "inv"
    <3>1. mu \in Procs
      BY <1>1, <2>3 DEF TypeOK
    <3>2. pc[mu] = "inv" /\ mu # p
      BY <1>1, <2>3, <3>1, FlightParts
    <3> QED BY <3>1, <3>2
  <2> QED BY <2>1, <2>2, <2>3 DEF NoLostWaiter
<1> QED BY <1>1, TypeCorrect, FlightsAgree, PTL

-----------------------------------------------------------------------------
(* Progress: a measure that no step increases *)

LEMMA RoundsType ==
  ASSUME TypeOK, NEW p \in Procs
  PROVE  RoundsLeft(p) \in Nat
  BY DEF RoundsLeft

LEMMA StepsLeftValues ==
  /\ StepsLeft("got") = 1 /\ StepsLeft("subs") = 3 /\ StepsLeft("groupsStore") = 4
  /\ StepsLeft("aggregate") = 4 /\ StepsLeft("groups") = 5 /\ StepsLeft("join") = 6
  /\ StepsLeft("list") = 7 /\ StepsLeft("inv") = 8 /\ StepsLeft("lock") = 9
  BY DEF StepsLeft

\* Inside a call there is always a step left, and never ten.
LEMMA StepsLeftRange ==
  ASSUME NEW s \in PC, s # "idle"
  PROVE  StepsLeft(s) \in 1..9
  BY StepsLeftValues DEF PC

\* The way through a query.
LEMMA QueryLeftValues ==
  ASSUME NEW p, NEW gv
  PROVE  /\ sub[p][gv].st = "done" => QueryLeft(p, gv) = 1
         /\ sub[p][gv].st = "join" => QueryLeft(p, gv) = 2
         /\ sub[p][gv].st = "store" => QueryLeft(p, gv) = 3
         /\ sub[p][gv].st = "live" => QueryLeft(p, gv) = 4
         /\ sub[p][gv].st = "lookup" => QueryLeft(p, gv) = 5
         /\ sub[p][gv].st = "call" => QueryLeft(p, gv) = 6
         /\ sub[p][gv].st \in SubState => QueryLeft(p, gv) \in Nat
  BY DEF QueryLeft, SubState

LEMMA QueryLeftValuesNext ==
  ASSUME NEW p, NEW gv
  PROVE  /\ sub'[p][gv].st = "done" => QueryLeft(p, gv)' = 1
         /\ sub'[p][gv].st = "join" => QueryLeft(p, gv)' = 2
         /\ sub'[p][gv].st = "store" => QueryLeft(p, gv)' = 3
         /\ sub'[p][gv].st = "live" => QueryLeft(p, gv)' = 4
         /\ sub'[p][gv].st = "lookup" => QueryLeft(p, gv)' = 5
         /\ sub'[p][gv] = sub[p][gv] => QueryLeft(p, gv)' = QueryLeft(p, gv)
  BY DEF QueryLeft

\* A call moves on within its round, or comes to its end.
LEMMA StepForward ==
  ASSUME TypeOK, NEW p \in Procs, pc[p] # "idle",
         \/ pc'[p] = "idle"
         \/ /\ pc'[p] \in PC /\ StepsLeft(pc'[p]) < StepsLeft(pc[p])
            /\ UNCHANGED <<retriedL[p], retriedA[p]>>
  PROVE  Forward(p)
<1>1. RoundsLeft(p) \in Nat /\ StepsLeft(pc[p]) \in 1..9
  BY RoundsType, StepsLeftRange DEF TypeOK
<1>2. CallLeft(p) = 10 * RoundsLeft(p) + StepsLeft(pc[p])
  BY DEF CallLeft
<1>3. CASE pc'[p] = "idle"
  <2>1. CallLeft(p)' = 0
    BY <1>3 DEF CallLeft
  <2> QED BY <1>1, <1>2, <2>1 DEF Forward
<1>4. CASE pc'[p] # "idle"
  <2>1. RoundsLeft(p)' = RoundsLeft(p)
    BY <1>4 DEF RoundsLeft
  <2>2. CallLeft(p)' = 10 * RoundsLeft(p) + StepsLeft(pc'[p])
    BY <1>4, <2>1 DEF CallLeft
  <2>3. StepsLeft(pc'[p]) \in 1..9
    BY <1>4, StepsLeftRange
  <2> QED BY <1>1, <1>2, <1>4, <2>2, <2>3 DEF Forward
<1> QED BY <1>3, <1>4

\* A call begins another round with a retry fewer.
LEMMA RoundForward ==
  ASSUME TypeOK, NEW p \in Procs, pc[p] # "idle",
         pc'[p] \in PC, pc'[p] # "idle", RoundsLeft(p)' \in Nat, RoundsLeft(p)' < RoundsLeft(p)
  PROVE  Forward(p)
<1>1. RoundsLeft(p) \in Nat /\ StepsLeft(pc[p]) \in 1..9 /\ StepsLeft(pc'[p]) \in 1..9
  BY RoundsType, StepsLeftRange DEF TypeOK
<1>2. CallLeft(p) = 10 * RoundsLeft(p) + StepsLeft(pc[p])
  BY DEF CallLeft
<1>3. CallLeft(p)' = 10 * RoundsLeft(p)' + StepsLeft(pc'[p])
  BY DEF CallLeft
<1>4. CallLeft(p)' < CallLeft(p)
  BY <1>1, <1>2, <1>3
<1> QED BY <1>4 DEF Forward

\* A query moves on, and with it the call that made it.
LEMMA QueryForward ==
  ASSUME TypeOK, NEW p \in Procs, NEW gv \in GVs,
         UNCHANGED <<pc, retriedL, retriedA>>,
         QueryLeft(p, gv)' \in Nat, QueryLeft(p, gv)' < QueryLeft(p, gv),
         \A h \in GVs \ {gv} : sub'[p][h] = sub[p][h]
  PROVE  Forward(p)
<1>1. CallLeft(p)' = CallLeft(p)
  BY DEF CallLeft, RoundsLeft
<1>2. ASSUME NEW h \in GVs PROVE QueryLeft(p, h) \in Nat
  BY QueryLeftValues DEF TypeOK, SubType
<1>3. ASSUME NEW h \in GVs PROVE QueryLeft(p, h)' <= QueryLeft(p, h)
  <2>1. CASE h = gv
    <3>1. QueryLeft(p, gv) \in Nat
      BY <1>2
    <3> QED BY <2>1, <3>1
  <2>2. CASE h # gv
    BY <1>2, <2>2, QueryLeftValuesNext
  <2> QED BY <2>1, <2>2
<1> QED BY <1>1, <1>3 DEF Forward

\* A query that goes on moves its own call only.
LEMMA AdvanceForward ==
  ASSUME TypeOK, NEW p \in Procs, NEW gv \in GVs, NEW x, NEW q \in Procs,
         QueryUnchanged, sub' = [sub EXCEPT ![p] = [sub[p] EXCEPT ![gv] = x]],
         \/ sub[p][gv].st = "call" /\ x.st \in {"lookup", "join"}
         \/ sub[p][gv].st = "lookup" /\ x.st = "live"
         \/ sub[p][gv].st = "live" /\ x.st = "store"
  PROVE  Untouched(q) \/ Forward(q)
<1>1. sub \in [Procs -> [GVs -> SubType]] /\ sub[p] \in [GVs -> SubType]
  BY DEF TypeOK
<1>2. CASE q # p
  <2>1. sub'[q] = sub[q]
    BY <1>1, <1>2
  <2> QED BY <2>1 DEF Untouched, QueryUnchanged
<1>3. CASE q = p
  <2>1. sub'[p][gv] = x /\ \A h \in GVs \ {gv} : sub'[p][h] = sub[p][h]
    BY <1>1
  <2>2. QueryLeft(p, gv)' \in Nat /\ QueryLeft(p, gv)' < QueryLeft(p, gv)
    BY <2>1, QueryLeftValues, QueryLeftValuesNext
  <2> QED BY <1>3, <2>1, <2>2, QueryForward DEF QueryUnchanged
<1> QED BY <1>2, <1>3

\* The end of a flight moves the calls of everybody who waited for it.
LEMMA AnsweredForward ==
  ASSUME TypeOK, NEW p \in Procs, NEW gv \in GVs, NEW a, NEW q \in Procs,
         QueryUnchanged, sub[p][gv].st \in Busy, Answered(p, gv, a)
  PROVE  Untouched(q) \/ Forward(q)
<1>1. sub \in [Procs -> [GVs -> SubType]] /\ sub[q] \in [GVs -> SubType]
  BY DEF TypeOK
<1>2. sub'[q] = [h \in GVs |-> IF h = gv /\ (q = p \/ sub[q][h].st = "join")
                                THEN [st |-> "done", ans |-> a] ELSE sub[q][h]]
  BY DEF Answered
<1>3. CASE q # p /\ sub[q][gv].st # "join"
  <2>1. sub'[q] = sub[q]
    BY <1>1, <1>2, <1>3
  <2> QED BY <2>1 DEF Untouched, QueryUnchanged
<1>4. CASE q = p \/ sub[q][gv].st = "join"
  <2>1. sub'[q][gv].st = "done" /\ \A h \in GVs \ {gv} : sub'[q][h] = sub[q][h]
    BY <1>2, <1>4
  <2>2. sub[q][gv].st \in {"join", "lookup", "live", "store"}
    BY <1>4 DEF Busy
  <2>3. QueryLeft(q, gv)' = 1 /\ QueryLeft(q, gv) \in {2, 3, 4, 5}
    BY <2>1, <2>2, QueryLeftValues, QueryLeftValuesNext
  <2> QED BY <2>1, <2>3, QueryForward DEF QueryUnchanged
<1> QED BY <1>3, <1>4

LEMMA QueriesForward ==
  ASSUME TypeOK, NEW p \in Procs, NEW gv \in GVs, Query(p, gv), NEW q \in Procs
  PROVE  Untouched(q) \/ Forward(q)
<1>1. CASE LeadQuery(p, gv)
  <2>1. sub' = [sub EXCEPT ![p] = [sub[p] EXCEPT ![gv] = [sub[p][gv] EXCEPT !.st = "lookup"]]]
    BY <1>1 DEF LeadQuery
  <2>2. [sub[p][gv] EXCEPT !.st = "lookup"].st = "lookup"
    BY DEF TypeOK, SubType
  <2> QED BY <1>1, <2>1, <2>2, AdvanceForward DEF LeadQuery
<1>2. CASE JoinQuery(p, gv)
  <2>1. sub' = [sub EXCEPT ![p] = [sub[p] EXCEPT ![gv] = [sub[p][gv] EXCEPT !.st = "join"]]]
    BY <1>2 DEF JoinQuery
  <2>2. [sub[p][gv] EXCEPT !.st = "join"].st = "join"
    BY DEF TypeOK, SubType
  <2> QED BY <1>2, <2>1, <2>2, AdvanceForward DEF JoinQuery
<1>3. CASE CacheHit(p, gv)
  BY <1>3, AnsweredForward DEF CacheHit, Busy
<1>4. CASE CacheMiss(p, gv)
  <2>1. sub' = [sub EXCEPT ![p] = [sub[p] EXCEPT ![gv] = [sub[p][gv] EXCEPT !.st = "live"]]]
    BY <1>4 DEF CacheMiss
  <2>2. [sub[p][gv] EXCEPT !.st = "live"].st = "live"
    BY DEF TypeOK, SubType
  <2> QED BY <1>4, <2>1, <2>2, AdvanceForward DEF CacheMiss
<1>5. CASE AskServer(p, gv)
  <2>1. PICK a \in Live(gv) :
          \/ sub' = [sub EXCEPT ![p][gv] = [st |-> "store", ans |-> a]]
          \/ Answered(p, gv, a)
    BY <1>5 DEF AskServer
  <2>2. CASE Answered(p, gv, a)
    BY <1>5, <2>2, AnsweredForward DEF AskServer, Busy
  <2>3. CASE sub' = [sub EXCEPT ![p][gv] = [st |-> "store", ans |-> a]]
    <3>1. sub' = [sub EXCEPT ![p] = [sub[p] EXCEPT ![gv] = [st |-> "store", ans |-> a]]]
      BY <2>3
    <3> QED BY <1>5, <3>1, AdvanceForward DEF AskServer
  <2> QED BY <2>1, <2>2, <2>3
<1>6. CASE Store(p, gv)
  BY <1>6, AnsweredForward DEF Store, Busy
<1> QED BY <1>1, <1>2, <1>3, <1>4, <1>5, <1>6 DEF Query

\* The end of a listing moves the call that made it and those that wait for it.
LEMMA DeliverForward ==
  ASSUME TypeOK, NEW p \in Procs, NEW r, NEW q \in Procs, pc[q] # "idle",
         ListingUnchanged, listed'[q] = listed[q] \/ q = p, sub'[q] = sub[q] \/ q = p,
         pc[p] \in Leading, Deliver(p, r)
  PROVE  Untouched(q) \/ Forward(q)
<1> DEFINE v == call[p].v
           all == {p} \cup (IF outer[v] = p
                            THEN {s \in Procs : pc[s] = "join" /\ call[s].v = v} ELSE {})
<1>1. /\ pc' = [s \in Procs |-> IF s \in all THEN "got" ELSE pc[s]]
      /\ got' = [s \in Procs |-> IF s \in all THEN r ELSE got[s]]
  BY DEF Deliver
<1>2. CASE q \notin all
  <2>1. pc'[q] = pc[q] /\ got'[q] = got[q] /\ q # p
    BY <1>1, <1>2
  <2> QED BY <2>1 DEF Untouched, ListingUnchanged
<1>3. CASE q \in all
  <2>1. pc'[q] = "got"
    BY <1>1, <1>3
  <2>2. pc[q] \in Leading \cup {"join"}
    BY <1>3
  <2>3. StepsLeft(pc'[q]) < StepsLeft(pc[q])
    BY <2>1, <2>2, StepsLeftValues DEF Leading
  <2> QED BY <2>1, <2>3, StepForward DEF ListingUnchanged, PC
<1> QED BY <1>2, <1>3

\* A goroutine moves on by itself.
LEMMA AloneForward ==
  ASSUME TypeOK, NEW p \in Procs, NEW s \in PC, NEW q \in Procs, pc[q] # "idle",
         \A o \in Procs \ {p} : Untouched(o),
         pc' = [pc EXCEPT ![p] = s], StepsLeft(s) < StepsLeft(pc[p]),
         UNCHANGED <<retriedL, retriedA>>
  PROVE  Untouched(q) \/ Forward(q)
<1>1. CASE q = p
  <2>1. pc'[p] = s
    BY DEF TypeOK
  <2> QED BY <1>1, <2>1, StepForward
<1> QED BY <1>1

LEMMA ListingForward ==
  ASSUME TypeOK, NEW p \in Procs, Listing(p), NEW q \in Procs, pc[q] # "idle"
  PROVE  Untouched(q) \/ Forward(q)
<1>0. /\ pc \in [Procs -> PC] /\ listed \in [Procs -> SUBSET GVs]
      /\ sub \in [Procs -> [GVs -> SubType]]
  BY DEF TypeOK
<1>1. ASSUME NEW gvs, StartQueries(p, gvs), pc[p] \in {"groups", "groupsStore"},
             ListingUnchanged, UNCHANGED got, \A o \in Procs \ {p} : listed'[o] = listed[o]
      PROVE  Untouched(q) \/ Forward(q)
  <2>1. pc' = [pc EXCEPT ![p] = "subs"] /\ \A o \in Procs \ {p} : sub'[o] = sub[o]
    BY <1>0, <1>1 DEF StartQueries
  <2>2. \A o \in Procs \ {p} : Untouched(o)
    BY <1>0, <1>1, <2>1 DEF Untouched, ListingUnchanged
  <2>3. StepsLeft("subs") < StepsLeft(pc[p])
    BY <1>1, StepsLeftValues
  <2> QED BY <1>1, <2>1, <2>2, <2>3, AloneForward, "subs" \in PC DEF ListingUnchanged, PC
<1>2. CASE GroupsHit(p)
  BY <1>1, <1>2 DEF GroupsHit
<1>3. CASE GroupsLive(p)
  <2>1. pc' = [pc EXCEPT ![p] = "groupsStore"] /\ pc[p] = "groups" /\ ListingUnchanged
        /\ \A o \in Procs \ {p} : listed'[o] = listed[o]
    BY <1>0, <1>3 DEF GroupsLive
  <2>2. \A o \in Procs \ {p} : Untouched(o)
    BY <1>0, <1>3, <2>1 DEF Untouched, ListingUnchanged, GroupsLive
  <2>3. StepsLeft("groupsStore") < StepsLeft(pc[p])
    BY <2>1, StepsLeftValues
  <2>4. "groupsStore" \in PC
    BY DEF PC
  <2> QED BY <2>1, <2>2, <2>3, <2>4, AloneForward DEF ListingUnchanged
<1>4. CASE GroupsFail(p)
  BY <1>4, DeliverForward DEF GroupsFail, Leading
<1>5. CASE GroupsStore(p)
  <2>1. \A o \in Procs \ {p} : listed'[o] = listed[o]
    BY <1>0, <1>5 DEF GroupsStore
  <2> QED BY <1>1, <1>5, <2>1 DEF GroupsStore
<1>6. CASE Aggregate(p)
  <2>1. \E r : Deliver(p, r)
    BY <1>6 DEF Aggregate
  <2> QED BY <1>6, <2>1, DeliverForward DEF Aggregate, Leading
<1>7. CASE QueriesDone(p)
  <2>1. \E r : Deliver(p, r)
    BY <1>7 DEF QueriesDone
  <2>2. q # p => sub'[q] = sub[q]
    BY <1>0, <1>7 DEF QueriesDone
  <2> QED BY <1>7, <2>1, <2>2, DeliverForward DEF QueriesDone, Leading
<1> QED BY <1>2, <1>3, <1>4, <1>5, <1>6, <1>7 DEF Listing

LEMMA StartForward ==
  ASSUME TypeOK, NEW p \in Procs, NEW c \in Calls, Start(p, c), NEW q \in Procs, pc[q] # "idle"
  PROVE  Untouched(q)
<1>1. q # p
  BY DEF Start
<1>2. \/ Uncached(p, c.v)
      \/ \E s \in PC : pc' = [pc EXCEPT ![p] = s] /\ UNCHANGED sub
  BY DEF Start, PC
<1>3. pc'[q] = pc[q] /\ sub'[q] = sub[q]
  BY <1>1, <1>2 DEF Uncached, TypeOK
<1>4. call'[q] = call[q]
  BY <1>1 DEF Start, TypeOK
<1> QED BY <1>3, <1>4 DEF Untouched, Start, CallsUnchanged

LEMMA GoroutineForward ==
  ASSUME TypeOK, NEW p \in Procs, Goroutine(p) \/ Lock(p), NEW q \in Procs, pc[q] # "idle"
  PROVE  Untouched(q) \/ Forward(q)
<1>0. /\ pc \in [Procs -> PC] /\ call \in [Procs -> Calls] /\ got \in [Procs -> ListResult]
      /\ sub \in [Procs -> [GVs -> SubType]]
      /\ retriedL \in [Procs -> BOOLEAN] /\ retriedA \in [Procs -> BOOLEAN]
  BY DEF TypeOK
<1>00. {"lock", "inv", "list", "join", "idle"} \subseteq PC
  BY DEF PC
<1>1. CASE LeadList(p)
  <2>1. PICK s \in {"aggregate", "groups", "subs"} : pc' = [pc EXCEPT ![p] = s]
    BY <1>1 DEF LeadList, Uncached
  <2>2. ASSUME NEW o \in Procs \ {p} PROVE Untouched(o)
    <3>1. pc'[o] = pc[o] /\ sub'[o] = sub[o]
      BY <1>0, <1>1 DEF LeadList, Uncached
    <3> QED BY <1>1, <3>1 DEF Untouched, LeadList, CallsUnchanged
  <2>3. s \in PC /\ StepsLeft(s) < StepsLeft(pc[p])
    BY <1>1, <2>1, StepsLeftValues DEF LeadList, PC
  <2> QED BY <1>1, <2>1, <2>2, <2>3, AloneForward DEF LeadList
<1>2. CASE JoinList(p)
  <2>1. pc' = [pc EXCEPT ![p] = "join"] /\ StepsLeft("join") < StepsLeft(pc[p])
    BY <1>2, StepsLeftValues DEF JoinList
  <2>2. \A o \in Procs \ {p} : Untouched(o)
    BY <1>0, <1>2, <2>1 DEF Untouched, JoinList, CallsUnchanged
  <2> QED BY <1>00, <1>2, <2>1, <2>2, AloneForward DEF JoinList
<1>3. CASE RetryList(p)
  <2>1. /\ pc' = [pc EXCEPT ![p] = "lock"] /\ retriedL' = [retriedL EXCEPT ![p] = TRUE]
        /\ retriedA' = retriedA /\ ~retriedL[p]
    BY <1>3 DEF RetryList, AskAgain, ListMustRetry
  <2>2. CASE q # p
    BY <1>0, <1>3, <2>1, <2>2 DEF Untouched, RetryList, AskAgain, CallsUnchanged
  <2>3. CASE q = p
    <3>1. RoundsLeft(p)' \in Nat /\ RoundsLeft(p)' < RoundsLeft(p)
      BY <1>0, <2>1 DEF RoundsLeft
    <3> QED BY <1>0, <1>00, <2>1, <2>3, <3>1, RoundForward
  <2> QED BY <2>2, <2>3
<1>4. CASE RetryResource(p)
  <2>1. /\ pc' = [pc EXCEPT ![p] = "lock"] /\ retriedL' = [retriedL EXCEPT ![p] = FALSE]
        /\ retriedA' = [retriedA EXCEPT ![p] = TRUE] /\ ~retriedA[p]
    BY <1>4 DEF RetryResource, AskAgain, ResourceMustRetry
  <2>2. CASE q # p
    BY <1>0, <1>4, <2>1, <2>2 DEF Untouched, RetryResource, AskAgain, CallsUnchanged
  <2>3. CASE q = p
    <3>1. RoundsLeft(p)' \in Nat /\ RoundsLeft(p)' < RoundsLeft(p)
      BY <1>0, <2>1 DEF RoundsLeft
    <3> QED BY <1>0, <1>00, <2>1, <2>3, <3>1, RoundForward
  <2> QED BY <2>2, <2>3
<1>5. ASSUME Leave(p), CallsUnchanged, UNCHANGED sub
      PROVE  Untouched(q) \/ Forward(q)
  <2>1. CASE q # p
    BY <1>0, <1>5, <2>1 DEF Untouched, Leave, CallsUnchanged
  <2>2. CASE q = p
    <3>1. pc'[p] = "idle"
      BY <1>0, <1>5 DEF Leave
    <3> QED BY <2>2, <3>1, StepForward
  <2> QED BY <2>1, <2>2
<1>6. CASE Return(p)
  BY <1>5, <1>6 DEF Return
<1>7. CASE Invalidate(p)
  <2>1. CASE call[p].op = "invalidate"
    BY <1>5, <1>7, <2>1 DEF Invalidate
  <2>2. CASE call[p].op # "invalidate"
    <3>1. /\ pc[p] = "inv" /\ pc' = [pc EXCEPT ![p] = "list"] /\ CallsUnchanged
          /\ UNCHANGED <<call, got, retriedL, retriedA, sub>>
      BY <1>7, <2>2 DEF Invalidate
    <3>2. \A o \in Procs \ {p} : Untouched(o)
      BY <1>0, <3>1 DEF Untouched, CallsUnchanged
    <3>3. StepsLeft("list") < StepsLeft(pc[p])
      BY <3>1, StepsLeftValues
    <3> QED BY <1>00, <3>1, <3>2, <3>3, AloneForward
  <2> QED BY <2>1, <2>2
<1>8. CASE Lock(p)
  <2>1. pc' = [pc EXCEPT ![p] = "inv"] /\ StepsLeft("inv") < StepsLeft(pc[p])
    BY <1>8, StepsLeftValues DEF Lock
  <2>2. \A o \in Procs \ {p} : Untouched(o)
    BY <1>0, <1>8, <2>1 DEF Untouched, Lock, CallsUnchanged
  <2> QED BY <1>00, <1>8, <2>1, <2>2, AloneForward DEF Lock
<1> QED BY <1>1, <1>2, <1>3, <1>4, <1>6, <1>7, <1>8 DEF Goroutine

LEMMA EnvironmentForward ==
  ASSUME Environment, NEW q \in Procs
  PROVE  Untouched(q)
<1>1. UNCHANGED localVars
  BY DEF Environment, Register, Unregister, Break, Repair, Expire, Observe
<1> QED BY <1>1 DEF Untouched, localVars

LEMMA NextForward ==
  ASSUME TypeOK, [Next]_vars
  PROVE  [\A p \in Procs : pc[p] # "idle" => Untouched(p) \/ Forward(p)]_vars
<1>1. CASE Next
  BY <1>1, StartForward, QueriesForward, ListingForward, GoroutineForward, EnvironmentForward
     DEF Next
<1> QED BY <1>1

\* No step sends a call back, for any number of goroutines, group versions and
\* calls: a call takes fewer than forty steps of its own, and between two of them at
\* most six for the query of each group version. With NobodyIsLost, which says that whoever waits waits for somebody who
\* does not, this is what CallsReturn needs beside fairness (client.go:470-483,
\* 506-544, 564, 621-637).
THEOREM CallsOnlyGoForward == Spec => CallsGoForward
  BY TypeCorrect, NextForward, PTL DEF Spec, CallsGoForward

-----------------------------------------------------------------------------
(* Both singleflight groups of Discovery implement Flights: initial states *)
(* map to initial states, and every step to a step or a stutter.           *)

\* A result is told from no result by its fields.
LEMMA NoResultIsNoAnswer == NoResult \notin Answer
  BY DEF NoResult, Answer

LEMMA EmptyIsNoList == Empty \notin ListResult
  BY DEF Empty, ListResult

-----------------------------------------------------------------------------
(* Client.discoverySF                                                      *)

\* Only a direct call is in a listing without leading its flight; it never
\* waits for one, and never retries.
DirectInv ==
    \A p \in Procs :
        IF call[p].op = "direct"
        THEN /\ pc[p] \notin {"list", "join", "lock", "inv"}
             /\ \A v \in Keys : outer[v] # p
        ELSE pc[p] \in Leading => outer[call[p].v] = p

\* A step of p that neither begins nor ends a wait, or the use of an answer.
LEMMA ListsKeep ==
    ASSUME NEW p \in Procs, UNCHANGED outer,
           \A q \in Procs \ {p} : pc'[q] = pc[q] /\ call'[q] = call[q] /\ got'[q] = got[q],
           pc[p] \notin {"join", "got"}, pc'[p] \notin {"join", "got"}
    PROVE  UNCHANGED <<outer, ListWaiters, ListAnswers>>
<1>1. ListWaiters' = ListWaiters
  <2>1. ASSUME NEW v \in Keys
        PROVE  {q \in Procs : pc'[q] = "join" /\ call'[q].v = v}
                 = {q \in Procs : pc[q] = "join" /\ call[q].v = v}
    OBVIOUS
  <2>2. QED
    BY <2>1 DEF ListWaiters
<1>2. ListAnswers' = ListAnswers
  BY DEF ListAnswers
<1>3. QED
  BY <1>1, <1>2

\* The same of a step that has nothing to do with the calls.
LEMMA ListsFrame ==
    ASSUME UNCHANGED <<outer, pc, call, got>>
    PROVE  UNCHANGED <<outer, ListWaiters, ListAnswers>> /\ (DirectInv => DirectInv')
  BY DEF ListWaiters, ListAnswers, DirectInv

\* A listing ends: for all in its flight, or for the direct call alone.
LEMMA DeliverLists ==
    ASSUME TypeOK, FlightInv, DirectInv, NEW p \in Procs, NEW r \in ListResult,
           pc[p] \in Leading, Deliver(p, r), UNCHANGED call
    PROVE  DirectInv' /\ [Outer!Next]_(Outer!flights)
<1> DEFINE v == call[p].v
<1>0. /\ v \in Keys /\ pc \in [Procs -> PC] /\ got \in [Procs -> ListResult]
      /\ outer \in [Keys -> Procs \cup {NoProc}] /\ p # NoProc
      /\ \A q \in Procs : call[q].v \in Keys
  BY CallFields, ConstantsOK DEF TypeOK
<1>1. \A k \in Keys : outer'[k] = IF k = v /\ outer[v] = p THEN NoProc ELSE outer[k]
  BY <1>0 DEF Deliver
<1>2. DirectInv'
  <2>1. \A q \in Procs : pc'[q] = pc[q] \/ pc'[q] = "got"
    BY <1>0 DEF Deliver
  <2>2. \A q \in Procs : pc'[q] \in Leading => q # p /\ pc[q] \in Leading
    BY <1>0, <2>1 DEF Deliver, Leading
  <2>3. \A q \in Procs, k \in Keys : q # NoProc /\ (outer'[k] = q => outer[k] = q)
    BY <1>1, ConstantsOK
  <2>4. \A q \in Procs : q # p /\ outer[call[q].v] = q => outer'[call[q].v] = q
    BY <1>0, <1>1
  <2>5. QED
    BY <2>1, <2>2, <2>3, <2>4 DEF DirectInv
<1>3. CASE outer[v] = p
  <2>1. outer' = [outer EXCEPT ![v] = NoProc]
    BY <1>0, <1>3 DEF Deliver
  <2>2. call[p].op # "direct"
    BY <1>0, <1>3 DEF DirectInv
  <2>3. \A q \in Procs : pc'[q] = IF q = p \/ q \in ListWaiters[v] THEN "got" ELSE pc[q]
    BY <1>0, <1>3 DEF Deliver, ListWaiters
  <2>4. \A q \in Procs : got'[q] = IF q = p \/ q \in ListWaiters[v] THEN r ELSE got[q]
    BY <1>0, <1>3 DEF Deliver, ListWaiters
  <2>5. \A q \in ListWaiters[v] : q \in Procs /\ call[q].op # "direct"
    BY <1>0 DEF ListWaiters, DirectInv
  <2>6. ListWaiters' = [ListWaiters EXCEPT ![v] = {}]
    <3>1. ASSUME NEW k \in Keys PROVE ListWaiters'[k] = IF k = v THEN {} ELSE ListWaiters[k]
      <4>1. ListWaiters'[k] = {q \in Procs : pc'[q] = "join" /\ call[q].v = k}
        BY DEF ListWaiters
      <4>2. ListWaiters[k] = {q \in Procs : pc[q] = "join" /\ call[q].v = k}
        BY DEF ListWaiters
      <4>3. ListWaiters[v] = {q \in Procs : pc[q] = "join" /\ call[q].v = v}
        BY <1>0 DEF ListWaiters
      <4>4. pc[p] # "join"
        BY DEF Leading
      <4>5. QED
        BY <4>1, <4>2, <4>3, <4>4, <2>3
    <3>2. QED
      BY <3>1, <1>0 DEF ListWaiters
  <2>7. ListAnswers' = [q \in Procs |->
                           IF q = outer[v] \/ q \in ListWaiters[v] THEN r ELSE ListAnswers[q]]
    <3>1. ASSUME NEW q \in Procs
          PROVE  ListAnswers'[q] = IF q = p \/ q \in ListWaiters[v] THEN r ELSE ListAnswers[q]
      BY <2>2, <2>3, <2>4, <2>5 DEF ListAnswers
    <3>2. QED
      BY <3>1, <1>3 DEF ListAnswers
  <2>8. Outer!End(v)
    BY <1>0, <1>3, <2>1, <2>6, <2>7 DEF Outer!End
  <2>9. QED
    BY <1>0, <1>2, <2>8 DEF Outer!Next
<1>4. CASE outer[v] # p
  <2>1. call[p].op = "direct"
    BY <1>4 DEF DirectInv
  <2>2. outer' = outer
    BY <1>0, <1>4 DEF Deliver
  <2>3. /\ \A q \in Procs \ {p} : pc'[q] = pc[q] /\ got'[q] = got[q]
        /\ pc[p] # "join" /\ pc'[p] # "join"
    BY <1>0, <1>4 DEF Deliver, Leading
  <2>4. ListWaiters' = ListWaiters
    <3>1. ASSUME NEW k \in Keys
          PROVE  {q \in Procs : pc'[q] = "join" /\ call'[q].v = k}
                   = {q \in Procs : pc[q] = "join" /\ call[q].v = k}
      BY <2>3
    <3>2. QED
      BY <3>1 DEF ListWaiters
  <2>5. ListAnswers' = ListAnswers
    BY <2>1, <2>3 DEF ListAnswers
  <2>6. QED
    BY <1>2, <2>2, <2>4, <2>5 DEF Outer!flights
<1>5. QED
  BY <1>3, <1>4

LEMMA StartLists ==
    ASSUME TypeOK, FlightInv, DirectInv, NEW p \in Procs, NEW c \in Calls, Start(p, c)
    PROVE  DirectInv' /\ [Outer!Next]_(Outer!flights)
<1>1. /\ pc[p] = "idle" /\ call' = [call EXCEPT ![p] = c] /\ UNCHANGED <<outer, got>>
      /\ pc \in [Procs -> PC] /\ call \in [Procs -> Calls]
  BY DEF Start, TypeOK
<1>2. PICK s \in {"groups", "aggregate", "subs", "lock", "list"} :
          /\ pc' = [pc EXCEPT ![p] = s]
          /\ s \in {"lock", "list"} <=> c.op # "direct"
  BY CallFields DEF Start, Uncached
<1>3. \A v \in Keys : outer[v] # p
  BY <1>1, FlightParts DEF Leading
<1>4. \A q \in Procs \ {p} : pc'[q] = pc[q] /\ call'[q] = call[q] /\ got'[q] = got[q]
  BY <1>1, <1>2
<1>5. pc'[p] = s /\ call'[p] = c
  BY <1>1, <1>2
<1>6. DirectInv'
  BY <1>1, <1>2, <1>3, <1>4, <1>5 DEF DirectInv, Leading
<1>7. UNCHANGED <<outer, ListWaiters, ListAnswers>>
  BY <1>1, <1>2, <1>4, <1>5, ListsKeep
<1>8. QED
  BY <1>6, <1>7 DEF Outer!flights

LEMMA ListingLists ==
    ASSUME TypeOK, FlightInv, DirectInv, NEW p \in Procs, Listing(p)
    PROVE  DirectInv' /\ [Outer!Next]_(Outer!flights)
<1>0. UNCHANGED call /\ pc \in [Procs -> PC] /\ got \in [Procs -> ListResult]
  BY DEF Listing, GroupsHit, GroupsLive, GroupsFail, GroupsStore, Aggregate, QueriesDone,
         ListingUnchanged, TypeOK
<1>1. CASE GroupsHit(p) \/ GroupsLive(p) \/ GroupsStore(p)
  <2>1. /\ pc[p] \in {"groups", "groupsStore"} /\ UNCHANGED <<outer, got>>
        /\ \E s \in {"groupsStore", "subs"} : pc' = [pc EXCEPT ![p] = s]
    BY <1>1 DEF GroupsHit, GroupsLive, GroupsStore, StartQueries
  <2>2. pc'[p] \in {"groupsStore", "subs"} /\ \A q \in Procs \ {p} : pc'[q] = pc[q]
    BY <1>0, <2>1
  <2>3. DirectInv'
    BY <1>0, <2>1, <2>2 DEF DirectInv, Leading
  <2>4. UNCHANGED <<outer, ListWaiters, ListAnswers>>
    BY <1>0, <2>1, <2>2, ListsKeep
  <2>5. QED
    BY <2>3, <2>4 DEF Outer!flights
<1>2. CASE GroupsFail(p) \/ Aggregate(p) \/ QueriesDone(p)
  <2>1. pc[p] \in Leading /\ \E r : Deliver(p, r)
    BY <1>2 DEF GroupsFail, Aggregate, QueriesDone, Leading
  <2>2. PICK r : Deliver(p, r)
    BY <2>1
  <2>3. got'[p] = r
    BY <2>2 DEF Deliver
  <2>4. r \in ListResult
    BY <2>3, ListingType DEF TypeOK
  <2>5. QED
    BY <1>0, <2>1, <2>2, <2>4, DeliverLists
<1>3. QED
  BY <1>1, <1>2 DEF Listing

\* A goroutine uses what it was handed, if it was.
LEMMA UseLists ==
    ASSUME TypeOK, NEW p \in Procs, NEW s \in {"idle", "lock"},
           pc[p] = "got", pc' = [pc EXCEPT ![p] = s], UNCHANGED outer,
           \A q \in Procs \ {p} : call'[q] = call[q] /\ got'[q] = got[q]
    PROVE  [Outer!Next]_(Outer!flights)
<1>0. /\ \A q \in Procs \ {p} : pc'[q] = pc[q]
      /\ pc'[p] = s /\ got[p] \in ListResult
  BY DEF TypeOK
<1>1. ListWaiters' = ListWaiters
  <2>1. ASSUME NEW k \in Keys
        PROVE  {q \in Procs : pc'[q] = "join" /\ call'[q].v = k}
                 = {q \in Procs : pc[q] = "join" /\ call[q].v = k}
    BY <1>0
  <2>2. QED
    BY <2>1 DEF ListWaiters
<1>2. ListAnswers' = [q \in Procs |-> IF q \in {p} THEN Empty ELSE ListAnswers[q]]
  <2>1. ASSUME NEW q \in Procs
        PROVE  ListAnswers'[q] = IF q = p THEN Empty ELSE ListAnswers[q]
    BY <1>0 DEF ListAnswers
  <2>2. QED
    BY <2>1 DEF ListAnswers
<1>3. CASE call[p].op = "direct"
  <2>1. ListAnswers[p] = Empty
    BY <1>3 DEF ListAnswers
  <2>2. ListAnswers' = ListAnswers
    BY <1>2, <2>1 DEF ListAnswers
  <2>3. QED
    BY <1>1, <2>2 DEF Outer!flights
<1>4. CASE call[p].op # "direct"
  <2>1. {p} \in SUBSET Outer!Served
    BY <1>0, <1>4, EmptyIsNoList DEF Outer!Served, ListAnswers
  <2>2. Outer!Use({p})
    BY <1>1, <1>2, <2>1 DEF Outer!Use
  <2>3. QED
    BY <2>1, <2>2 DEF Outer!Next
<1>5. QED
  BY <1>3, <1>4

LEMMA GoroutineLists ==
    ASSUME TypeOK, FlightInv, DirectInv, NEW p \in Procs, Goroutine(p) \/ Lock(p)
    PROVE  DirectInv' /\ [Outer!Next]_(Outer!flights)
<1>0. /\ pc \in [Procs -> PC] /\ call \in [Procs -> Calls] /\ call[p].v \in Keys
      /\ outer \in [Keys -> Procs \cup {NoProc}] /\ got \in [Procs -> ListResult]
      /\ NoProc \notin Procs
  BY CallFields, ConstantsOK DEF TypeOK
<1>1. pc[p] \notin Leading => \A v \in Keys : outer[v] # p
  BY FlightParts
<1>2. CASE LeadList(p)
  <2> DEFINE v == call[p].v
  <2>1. /\ pc[p] = "list" /\ outer[v] = NoProc /\ outer' = [outer EXCEPT ![v] = p]
        /\ UNCHANGED <<call, got>> /\ call[p].op # "direct"
        /\ \E s \in {"groups", "aggregate", "subs"} : pc' = [pc EXCEPT ![p] = s]
    BY <1>2 DEF LeadList, Uncached, DirectInv
  <2>2. pc'[p] \in {"groups", "aggregate", "subs"} /\ \A q \in Procs \ {p} : pc'[q] = pc[q]
    BY <1>0, <2>1
  <2>3. DirectInv'
    <3>1. \A k \in Keys : outer'[k] = IF k = v THEN p ELSE outer[k]
      BY <1>0, <2>1
    <3>2. \A q \in Procs : call[q].v \in Keys
      BY <1>0, CallFields
    <3>3. QED
      BY <1>0, <2>1, <2>2, <3>1, <3>2 DEF DirectInv, Leading
  <2>4. ListWaiters' = ListWaiters
    <3>1. ASSUME NEW k \in Keys
          PROVE  {q \in Procs : pc'[q] = "join" /\ call'[q].v = k}
                   = {q \in Procs : pc[q] = "join" /\ call[q].v = k}
      BY <2>1, <2>2
    <3>2. QED
      BY <3>1 DEF ListWaiters
  <2>5. ListAnswers' = ListAnswers
    BY <2>1, <2>2 DEF ListAnswers
  <2>6. Outer!Idle(p)
    BY <1>1, <2>1 DEF Outer!Idle, ListWaiters, ListAnswers, Leading
  <2>7. Outer!Begin(p, v)
    BY <2>1, <2>4, <2>5, <2>6 DEF Outer!Begin
  <2>8. QED
    BY <1>0, <2>3, <2>7 DEF Outer!Next
<1>3. CASE JoinList(p)
  <2> DEFINE v == call[p].v
  <2>1. /\ pc[p] = "list" /\ outer[v] # NoProc /\ pc' = [pc EXCEPT ![p] = "join"]
        /\ UNCHANGED <<outer, call, got>> /\ call[p].op # "direct"
    BY <1>3 DEF JoinList, DirectInv, CallsUnchanged
  <2>2. pc'[p] = "join" /\ \A q \in Procs \ {p} : pc'[q] = pc[q]
    BY <1>0, <2>1
  <2>3. DirectInv'
    BY <2>1, <2>2 DEF DirectInv, Leading
  <2>4. ListWaiters' = [ListWaiters EXCEPT ![v] = @ \cup {p}]
    <3>1. ASSUME NEW k \in Keys
          PROVE  ListWaiters'[k] = IF k = v THEN ListWaiters[k] \cup {p} ELSE ListWaiters[k]
      <4>1. ListWaiters'[k] = {q \in Procs : pc'[q] = "join" /\ call[q].v = k}
        BY <2>1 DEF ListWaiters
      <4>2. ListWaiters[k] = {q \in Procs : pc[q] = "join" /\ call[q].v = k}
        BY DEF ListWaiters
      <4>3. QED
        BY <4>1, <4>2, <2>1, <2>2
    <3>2. QED
      BY <1>0, <3>1 DEF ListWaiters
  <2>5. ListAnswers' = ListAnswers
    BY <2>1, <2>2 DEF ListAnswers
  <2>6. Outer!Idle(p)
    BY <1>1, <2>1 DEF Outer!Idle, ListWaiters, ListAnswers, Leading
  <2>7. Outer!Join(p, v)
    BY <2>1, <2>4, <2>5, <2>6 DEF Outer!Join
  <2>8. QED
    BY <1>0, <2>3, <2>7 DEF Outer!Next
<1>4. CASE RetryList(p) \/ RetryResource(p)
  <2>1. /\ pc[p] = "got" /\ pc' = [pc EXCEPT ![p] = "lock"] /\ UNCHANGED <<outer, call>>
        /\ got' = [got EXCEPT ![p] = NoResult] /\ call[p].op # "direct"
    BY <1>4 DEF RetryList, RetryResource, ListMustRetry, ResourceMustRetry, AskAgain,
                CallsUnchanged
  <2>2. pc'[p] = "lock" /\ \A q \in Procs \ {p} : pc'[q] = pc[q] /\ got'[q] = got[q]
    BY <1>0, <2>1
  <2>3. DirectInv'
    BY <2>1, <2>2 DEF DirectInv, Leading
  <2>4. QED
    BY <2>1, <2>2, <2>3, UseLists
<1>5. CASE Return(p)
  <2>1. /\ pc[p] = "got" /\ pc' = [pc EXCEPT ![p] = "idle"] /\ UNCHANGED outer
        /\ got' = [got EXCEPT ![p] = NoResult] /\ call' = [call EXCEPT ![p] = NoCall]
    BY <1>5 DEF Return, Returning, Leave
  <2>2. /\ pc'[p] = "idle"
        /\ \A q \in Procs \ {p} : pc'[q] = pc[q] /\ got'[q] = got[q] /\ call'[q] = call[q]
    BY <1>0, <2>1
  <2>3. DirectInv'
    BY <1>1, <2>1, <2>2 DEF DirectInv, Leading
  <2>4. QED
    BY <2>1, <2>2, <2>3, UseLists
<1>6. CASE Invalidate(p) \/ Lock(p)
  <2>1. pc[p] \in {"inv", "lock"} /\ UNCHANGED outer
    BY <1>6 DEF Invalidate, Lock
  <2>2. /\ pc'[p] \in {"idle", "list", "inv"}
        /\ call'[p] = call[p] \/ pc'[p] = "idle"
        /\ \A q \in Procs \ {p} : pc'[q] = pc[q] /\ got'[q] = got[q] /\ call'[q] = call[q]
    BY <1>0, <1>6 DEF Invalidate, Leave, Lock
  <2>3. DirectInv'
    BY <1>1, <2>1, <2>2 DEF DirectInv, Leading
  <2>4. UNCHANGED <<outer, ListWaiters, ListAnswers>>
    BY <2>1, <2>2, ListsKeep
  <2>5. QED
    BY <2>3, <2>4 DEF Outer!flights
<1>7. QED
  BY <1>2, <1>3, <1>4, <1>5, <1>6 DEF Goroutine

LEMMA NextLists ==
    TypeOK /\ FlightInv /\ DirectInv /\ [Next]_vars => DirectInv' /\ [Outer!Next]_(Outer!flights)
<1> SUFFICES ASSUME TypeOK, FlightInv, DirectInv, [Next]_vars
             PROVE  DirectInv' /\ [Outer!Next]_(Outer!flights)
  OBVIOUS
<1>1. CASE UNCHANGED vars \/ Environment \/ \E p \in Procs, gv \in GVs : Query(p, gv)
  <2>1. UNCHANGED <<outer, pc, call, got>>
    BY <1>1 DEF vars, localVars, Environment, Register, Unregister, Break, Repair, Observe, Expire,
         Query, LeadQuery, JoinQuery, CacheHit, CacheMiss, AskServer, Store, QueryUnchanged
  <2>2. QED
    BY <2>1, ListsFrame DEF Outer!flights
<1>2. QED
  BY <1>1, StartLists, ListingLists, GoroutineLists DEF Next

LEMMA InitLists == Init => DirectInv /\ Outer!Init
<1> SUFFICES ASSUME Init PROVE DirectInv /\ Outer!Init
  OBVIOUS
<1>1. DirectInv
  BY ConstantsOK DEF Init, DirectInv, Leading
<1>2. ListWaiters = [v \in Keys |-> {}]
  BY DEF Init, ListWaiters
<1>3. ListAnswers = [p \in Procs |-> Empty]
  BY DEF Init, ListAnswers
<1>4. QED
  BY <1>1, <1>2, <1>3 DEF Init, Outer!Init

\* The calls for one apiVersion share the lists of one call at a time, for any
\* number of goroutines: discoverySF, as apiResourceList uses it, keeps the
\* promise of Flights (client.go:556-572).
THEOREM ListsImplementFlights == Spec => ListsShareFlights
<1>1. Spec => [](TypeOK /\ FlightInv)
  BY TypeCorrect, FlightsAgree, PTL
<1>2. Spec => [][Outer!Next]_(Outer!flights)
  BY <1>1, InitLists, NextLists, PTL DEF Spec
<1>3. QED
  BY <1>2, InitLists, PTL DEF Spec, ListsShareFlights, Outer!Spec

-----------------------------------------------------------------------------
(* sfCachedDiscovery.sf                                                    *)

\* The group as it is seen of one query.
LEMMA QueryParts ==
    ASSUME NEW q \in Procs, NEW gv \in GVs
    PROVE  /\ <<q, gv>> \in Queries
           /\ QueryLeaders[gv] = IF inner[gv] = NoProc THEN <<>> ELSE <<inner[gv], gv>>
           /\ \A h \in GVs : <<q, gv>> \in QueryWaiters[h] <=> h = gv /\ sub[q][gv].st = "join"
           /\ QueryAnswers[<<q, gv>>] = IF sub[q][gv].st = "done" THEN sub[q][gv].ans ELSE NoResult
  BY DEF Queries, QueryLeaders, QueryWaiters, QueryAnswers

\* No query begins or ends a wait, or the use of an answer.
LEMMA QueriesKeep ==
    ASSUME UNCHANGED inner,
           \A q \in Procs, gv \in GVs :
               \/ sub'[q][gv] = sub[q][gv]
               \/ sub[q][gv].st \notin {"join", "done"} /\ sub'[q][gv].st \notin {"join", "done"}
    PROVE  UNCHANGED <<QueryLeaders, QueryWaiters, QueryAnswers>>
<1>1. QueryLeaders' = QueryLeaders
  BY DEF QueryLeaders
<1>2. QueryWaiters' = QueryWaiters
  <2>1. ASSUME NEW gv \in GVs
        PROVE  {q \in Procs : sub'[q][gv].st = "join"} = {q \in Procs : sub[q][gv].st = "join"}
    OBVIOUS
  <2>2. QED
    BY <2>1 DEF QueryWaiters
<1>3. QueryAnswers' = QueryAnswers
  <2>1. \A q \in Procs, gv \in GVs :
            (IF sub'[q][gv].st = "done" THEN sub'[q][gv].ans ELSE NoResult)
              = (IF sub[q][gv].st = "done" THEN sub[q][gv].ans ELSE NoResult)
    OBVIOUS
  <2>2. \A c \in Queries : c[1] \in Procs /\ c[2] \in GVs
    BY DEF Queries
  <2>3. QED
    BY <2>1, <2>2 DEF QueryAnswers
<1>4. QED
  BY <1>1, <1>2, <1>3

\* The flight of gv ends.
LEMMA AnsweredQueries ==
    ASSUME TypeOK, FlightInv, NEW p \in Procs, NEW gv \in GVs, NEW a \in Answer,
           sub[p][gv].st \in Busy, Answered(p, gv, a)
    PROVE  Inner!End(gv)
<1>0. /\ inner \in [GVs -> Procs \cup {NoProc}] /\ NoProc \notin Procs
      /\ sub \in [Procs -> [GVs -> SubType]]
  BY ConstantsOK DEF TypeOK
<1>1. inner[gv] = p
  BY DEF FlightInv
<1>2. QueryLeaders[gv] = <<p, gv>>
  BY <1>0, <1>1, QueryParts
<1>3. QueryLeaders' = [QueryLeaders EXCEPT ![gv] = <<>>]
  <2>1. inner' = [inner EXCEPT ![gv] = NoProc]
    BY DEF Answered
  <2>2. QED
    BY <1>0, <2>1 DEF QueryLeaders
<1>4. \A q \in Procs, h \in GVs :
          sub'[q][h] = IF h = gv /\ (q = p \/ sub[q][h].st = "join")
                       THEN [st |-> "done", ans |-> a] ELSE sub[q][h]
  BY DEF Answered
<1>5. QueryWaiters' = [QueryWaiters EXCEPT ![gv] = {}]
  <2>1. ASSUME NEW h \in GVs
        PROVE  {q \in Procs : sub'[q][h].st = "join"}
                 = IF h = gv THEN {} ELSE {q \in Procs : sub[q][h].st = "join"}
    BY <1>4
  <2>2. ASSUME NEW h \in GVs PROVE QueryWaiters'[h] = IF h = gv THEN {} ELSE QueryWaiters[h]
    BY <2>1 DEF QueryWaiters
  <2>3. QED
    BY <2>2 DEF QueryWaiters
<1>6. QueryAnswers' = [c \in Queries |->
          IF c = QueryLeaders[gv] \/ c \in QueryWaiters[gv] THEN a ELSE QueryAnswers[c]]
  <2>1. ASSUME NEW q \in Procs, NEW h \in GVs
        PROVE  QueryAnswers'[<<q, h>>]
                 = IF <<q, h>> = QueryLeaders[gv] \/ <<q, h>> \in QueryWaiters[gv]
                   THEN a ELSE QueryAnswers[<<q, h>>]
    <3>1. QueryAnswers'[<<q, h>>] = IF sub'[q][h].st = "done" THEN sub'[q][h].ans ELSE NoResult
      BY DEF QueryAnswers, Queries
    <3>2. <<q, h>> = QueryLeaders[gv] <=> q = p /\ h = gv
      BY <1>2
    <3>3. <<q, h>> \in QueryWaiters[gv] <=> h = gv /\ sub[q][h].st = "join"
      BY QueryParts
    <3>4. QueryAnswers[<<q, h>>] = IF sub[q][h].st = "done" THEN sub[q][h].ans ELSE NoResult
      BY QueryParts
    <3>5. sub'[q][h] = IF h = gv /\ (q = p \/ sub[q][h].st = "join")
                       THEN [st |-> "done", ans |-> a] ELSE sub[q][h]
      BY <1>4
    <3>6. QED
      BY <3>1, <3>2, <3>3, <3>4, <3>5
  <2>2. ASSUME NEW c \in Queries
        PROVE  QueryAnswers'[c]
                 = IF c = QueryLeaders[gv] \/ c \in QueryWaiters[gv] THEN a ELSE QueryAnswers[c]
    <3>1. PICK q \in Procs, h \in GVs : c = <<q, h>>
      BY DEF Queries
    <3>2. QED
      BY <2>1, <3>1
  <2>3. QED
    BY <2>2 DEF QueryAnswers
<1>7. QED
  BY <1>2, <1>3, <1>5, <1>6 DEF Inner!End

LEMMA QueryQueries ==
    ASSUME TypeOK, FlightInv, NEW p \in Procs, NEW gv \in GVs, Query(p, gv)
    PROVE  [Inner!Next]_(Inner!flights)
<1>0. /\ sub \in [Procs -> [GVs -> SubType]] /\ inner \in [GVs -> Procs \cup {NoProc}]
      /\ NoProc \notin Procs
  BY ConstantsOK DEF TypeOK
<1>1. sub[p][gv].st = "call" => Inner!Idle(<<p, gv>>)
  <2> SUFFICES ASSUME sub[p][gv].st = "call" PROVE Inner!Idle(<<p, gv>>)
    OBVIOUS
  <2>1. inner[gv] # p
    BY DEF FlightInv, Busy
  <2>2. ASSUME NEW h \in GVs
        PROVE  QueryLeaders[h] # <<p, gv>> /\ <<p, gv>> \notin QueryWaiters[h]
    <3>1. QueryLeaders[h] = IF inner[h] = NoProc THEN <<>> ELSE <<inner[h], h>>
      BY QueryParts
    <3>2. <<>> # <<p, gv>>
      OBVIOUS
    <3>3. inner[h] = p => h # gv
      BY <2>1
    <3>4. <<p, gv>> \in QueryWaiters[h] => sub[p][gv].st = "join"
      BY QueryParts
    <3>5. QED
      BY <3>1, <3>2, <3>3, <3>4
  <2>3. QED
    BY <2>2, QueryParts DEF Inner!Idle
<1>2. CASE LeadQuery(p, gv)
  <2>1. /\ sub[p][gv].st = "call" /\ inner[gv] = NoProc /\ inner' = [inner EXCEPT ![gv] = p]
        /\ sub' = [sub EXCEPT ![p][gv].st = "lookup"]
    BY <1>2 DEF LeadQuery
  <2>2. QueryLeaders' = [QueryLeaders EXCEPT ![gv] = <<p, gv>>] /\ QueryLeaders[gv] = <<>>
    BY <1>0, <2>1 DEF QueryLeaders
  <2>3. sub'[p][gv].st = "lookup"
        /\ \A q \in Procs, h \in GVs : ~(q = p /\ h = gv) => sub'[q][h] = sub[q][h]
    BY <1>0, <2>1 DEF SubType
  <2>4. QueryWaiters' = QueryWaiters
    <3>1. ASSUME NEW h \in GVs
          PROVE  {q \in Procs : sub'[q][h].st = "join"} = {q \in Procs : sub[q][h].st = "join"}
      BY <2>1, <2>3
    <3>2. QED
      BY <3>1 DEF QueryWaiters
  <2>5. QueryAnswers' = QueryAnswers
    <3>1. \A q \in Procs, h \in GVs :
              (IF sub'[q][h].st = "done" THEN sub'[q][h].ans ELSE NoResult)
                = (IF sub[q][h].st = "done" THEN sub[q][h].ans ELSE NoResult)
      BY <2>1, <2>3
    <3>2. \A c \in Queries : c[1] \in Procs /\ c[2] \in GVs
      BY DEF Queries
    <3>3. QED
      BY <3>1, <3>2 DEF QueryAnswers
  <2>6. Inner!Begin(<<p, gv>>, gv)
    BY <1>1, <2>1, <2>2, <2>4, <2>5 DEF Inner!Begin
  <2>7. QED
    BY <2>6, QueryParts DEF Inner!Next
<1>3. CASE JoinQuery(p, gv)
  <2>1. /\ sub[p][gv].st = "call" /\ inner[gv] # NoProc /\ inner' = inner
        /\ sub' = [sub EXCEPT ![p][gv].st = "join"]
    BY <1>3 DEF JoinQuery
  <2>2. sub'[p][gv].st = "join"
        /\ \A q \in Procs, h \in GVs : ~(q = p /\ h = gv) => sub'[q][h] = sub[q][h]
    BY <1>0, <2>1 DEF SubType
  <2>3. QueryLeaders' = QueryLeaders /\ QueryLeaders[gv] # <<>>
    BY <2>1 DEF QueryLeaders
  <2>4. QueryWaiters' = [QueryWaiters EXCEPT ![gv] = @ \cup {<<p, gv>>}]
    <3>1. ASSUME NEW h \in GVs
          PROVE  {q \in Procs : sub'[q][h].st = "join"}
                   = {q \in Procs : sub[q][h].st = "join"} \cup (IF h = gv THEN {p} ELSE {})
      BY <2>1, <2>2
    <3>2. ASSUME NEW h \in GVs
          PROVE  QueryWaiters'[h]
                   = IF h = gv THEN QueryWaiters[h] \cup {<<p, gv>>} ELSE QueryWaiters[h]
      BY <3>1 DEF QueryWaiters
    <3>3. QED
      BY <3>2 DEF QueryWaiters
  <2>5. QueryAnswers' = QueryAnswers
    <3>1. \A q \in Procs, h \in GVs :
              (IF sub'[q][h].st = "done" THEN sub'[q][h].ans ELSE NoResult)
                = (IF sub[q][h].st = "done" THEN sub[q][h].ans ELSE NoResult)
      BY <2>1, <2>2
    <3>2. \A c \in Queries : c[1] \in Procs /\ c[2] \in GVs
      BY DEF Queries
    <3>3. QED
      BY <3>1, <3>2 DEF QueryAnswers
  <2>6. Inner!Join(<<p, gv>>, gv)
    BY <1>1, <2>1, <2>3, <2>4, <2>5 DEF Inner!Join
  <2>7. QED
    BY <2>6, QueryParts DEF Inner!Next
<1>4. ASSUME NEW a, Answered(p, gv, a), sub[p][gv].st \in Busy
      PROVE  [Inner!Next]_(Inner!flights)
  <2>1. sub'[p][gv] = [st |-> "done", ans |-> a]
    BY <1>4 DEF Answered
  <2>2. a \in Answer
    <3>1. sub'[p][gv] \in SubType
      BY QueryType DEF TypeOK
    <3>2. QED
      BY <2>1, <3>1 DEF SubType
  <2>3. QED
    BY <1>4, <2>2, AnsweredQueries DEF Inner!Next
<1>5. ASSUME NEW s, inner' = inner, sub[p][gv].st \in Busy,
             sub'[p][gv].st \notin {"join", "done"}, sub' = [sub EXCEPT ![p][gv] = s]
      PROVE  [Inner!Next]_(Inner!flights)
  <2>1. \A q \in Procs, h \in GVs : ~(q = p /\ h = gv) => sub'[q][h] = sub[q][h]
    BY <1>0, <1>5
  <2>2. UNCHANGED <<QueryLeaders, QueryWaiters, QueryAnswers>>
    BY <1>5, <2>1, QueriesKeep DEF Busy
  <2>3. QED
    BY <2>2 DEF Inner!flights
<1>6. CASE CacheHit(p, gv)
  BY <1>4, <1>6 DEF CacheHit, Busy
<1>7. CASE CacheMiss(p, gv)
  <2>1. sub' = [sub EXCEPT ![p][gv] = [@ EXCEPT !.st = "live"]]
    BY <1>7 DEF CacheMiss
  <2>2. sub'[p][gv].st = "live" /\ inner' = inner /\ sub[p][gv].st \in Busy
    BY <1>0, <1>7, <2>1 DEF CacheMiss, SubType, Busy
  <2>3. QED
    BY <1>5, <2>1, <2>2
<1>8. CASE AskServer(p, gv)
  <2>1. sub[p][gv].st \in Busy
    BY <1>8 DEF AskServer, Busy
  <2>2. PICK a : IF a.err \in {"none", "text"}
                 THEN sub' = [sub EXCEPT ![p][gv] = [st |-> "store", ans |-> a]] /\ inner' = inner
                 ELSE Answered(p, gv, a)
    BY <1>8 DEF AskServer
  <2>3. CASE a.err \in {"none", "text"}
    <3>1. sub'[p][gv].st = "store"
      BY <1>0, <2>2, <2>3
    <3>2. QED
      BY <1>5, <2>1, <2>2, <2>3, <3>1
  <2>4. CASE a.err \notin {"none", "text"}
    BY <1>4, <2>1, <2>2, <2>4
  <2>5. QED
    BY <2>3, <2>4
<1>9. CASE Store(p, gv)
  BY <1>4, <1>9 DEF Store, Busy
<1>10. QED
  BY <1>2, <1>3, <1>6, <1>7, <1>8, <1>9 DEF Query

\* The queries of p begin, or stay what they were.
LEMMA AskQueries ==
    ASSUME TypeOK, FlightInv, NEW p \in Procs, pc[p] # "subs", UNCHANGED inner,
           \A q \in Procs, gv \in GVs :
               sub'[q][gv] = sub[q][gv] \/ (q = p /\ sub'[q][gv].st \in {"off", "call"})
    PROVE  UNCHANGED <<QueryLeaders, QueryWaiters, QueryAnswers>>
<1>1. \A gv \in GVs : sub[p][gv].st = "off"
  BY FlightParts
<1>2. \A q \in Procs, gv \in GVs :
          \/ sub'[q][gv] = sub[q][gv]
          \/ sub[q][gv].st \notin {"join", "done"} /\ sub'[q][gv].st \notin {"join", "done"}
  BY <1>1
<1>3. QED
  BY <1>2, QueriesKeep

LEMMA UncachedQueries ==
    ASSUME TypeOK, NEW p \in Procs, NEW v \in Keys, Uncached(p, v)
    PROVE  \A q \in Procs, gv \in GVs :
               sub'[q][gv] = sub[q][gv] \/ (q = p /\ sub'[q][gv].st \in {"off", "call"})
<1>0. sub \in [Procs -> [GVs -> SubType]]
  BY DEF TypeOK
<1>1. CASE v = AllGVs
  BY <1>1 DEF Uncached
<1>2. CASE v # AllGVs
  <2>1. v \in GVs /\ sub' = [sub EXCEPT ![p][v] = Asked]
    BY <1>2 DEF Uncached, Keys
  <2>2. \A q \in Procs, gv \in GVs :
            sub'[q][gv] = IF q = p /\ gv = v THEN Asked ELSE sub[q][gv]
    BY <1>0, <2>1
  <2>3. Asked.st = "call"
    BY DEF Asked
  <2>4. QED
    BY <2>2, <2>3
<1>3. QED
  BY <1>1, <1>2

\* The answers of a listing are put together: its queries use them at once.
LEMMA UseQueries ==
    ASSUME TypeOK, FlightInv, NEW p \in Procs, QueriesDone(p)
    PROVE  [Inner!Next]_(Inner!flights)
<1> DEFINE cs == {<<p, gv>> : gv \in Active(p)}
<1>0. sub \in [Procs -> [GVs -> SubType]] /\ inner' = inner
  BY DEF TypeOK, QueriesDone, ListingUnchanged
<1>1. \A q \in Procs, gv \in GVs : sub'[q][gv] = IF q = p THEN Off ELSE sub[q][gv]
  BY <1>0 DEF QueriesDone
<1>2. \A gv \in GVs : sub[p][gv].st \in {"off", "done"}
  BY DEF QueriesDone, Active
<1>3. QueryLeaders' = QueryLeaders
  BY <1>0 DEF QueryLeaders
<1>4. QueryWaiters' = QueryWaiters
  <2>1. ASSUME NEW gv \in GVs
        PROVE  {q \in Procs : sub'[q][gv].st = "join"} = {q \in Procs : sub[q][gv].st = "join"}
    BY <1>1, <1>2 DEF Off
  <2>2. QED
    BY <2>1 DEF QueryWaiters
<1>5. QueryAnswers' = [c \in Queries |-> IF c \in cs THEN NoResult ELSE QueryAnswers[c]]
  <2>1. ASSUME NEW q \in Procs, NEW gv \in GVs
        PROVE  QueryAnswers'[<<q, gv>>]
                 = IF <<q, gv>> \in cs THEN NoResult ELSE QueryAnswers[<<q, gv>>]
    <3>1. QueryAnswers'[<<q, gv>>] = IF sub'[q][gv].st = "done" THEN sub'[q][gv].ans ELSE NoResult
      BY DEF QueryAnswers, Queries
    <3>2. QueryAnswers[<<q, gv>>] = IF sub[q][gv].st = "done" THEN sub[q][gv].ans ELSE NoResult
      BY QueryParts
    <3>3. <<q, gv>> \in cs <=> q = p /\ sub[p][gv].st # "off"
      BY DEF Active
    <3>4. Off.st = "off"
      BY DEF Off
    <3>5. sub'[q][gv] = IF q = p THEN Off ELSE sub[q][gv]
      BY <1>1
    <3>6. QED
      BY <1>2, <3>1, <3>2, <3>3, <3>4, <3>5
  <2>2. ASSUME NEW c \in Queries
        PROVE  QueryAnswers'[c] = IF c \in cs THEN NoResult ELSE QueryAnswers[c]
    <3>1. PICK q \in Procs, gv \in GVs : c = <<q, gv>>
      BY DEF Queries
    <3>2. QED
      BY <2>1, <3>1
  <2>3. QED
    BY <2>2 DEF QueryAnswers
<1>6. cs \in SUBSET Inner!Served
  <2>1. ASSUME NEW gv \in Active(p)
        PROVE  <<p, gv>> \in Queries /\ QueryAnswers[<<p, gv>>] # NoResult
    <3>1. gv \in GVs /\ sub[p][gv].st = "done"
      BY <1>2 DEF Active
    <3>2. sub[p][gv].ans \in Answer
      BY <1>0, <3>1 DEF SubType
    <3>3. QED
      BY <3>1, <3>2, QueryParts, NoResultIsNoAnswer
  <2>2. QED
    BY <2>1 DEF Inner!Served
<1>7. Inner!Use(cs)
  BY <1>3, <1>4, <1>5, <1>6 DEF Inner!Use
<1>8. QED
  BY <1>6, <1>7 DEF Inner!Next

LEMMA ListingQueries ==
    ASSUME TypeOK, FlightInv, NEW p \in Procs, Listing(p)
    PROVE  [Inner!Next]_(Inner!flights)
<1>0. sub \in [Procs -> [GVs -> SubType]]
  BY DEF TypeOK
<1>1. CASE GroupsHit(p) \/ GroupsStore(p)
  <2>1. pc[p] # "subs" /\ inner' = inner /\ \E gvs : StartQueries(p, gvs)
    BY <1>1 DEF GroupsHit, GroupsStore, ListingUnchanged
  <2>2. PICK gvs : sub' = [sub EXCEPT ![p] = [gv \in GVs |-> IF gv \in gvs THEN Asked ELSE Off]]
    BY <2>1 DEF StartQueries
  <2>3. \A q \in Procs, gv \in GVs :
            sub'[q][gv] = sub[q][gv] \/ (q = p /\ sub'[q][gv].st \in {"off", "call"})
    BY <1>0, <2>2 DEF Asked, Off
  <2>4. QED
    BY <2>1, <2>3, AskQueries DEF Inner!flights
<1>2. CASE GroupsLive(p) \/ GroupsFail(p) \/ Aggregate(p)
  <2>1. pc[p] # "subs" /\ UNCHANGED <<inner, sub>>
    BY <1>2 DEF GroupsLive, GroupsFail, Aggregate, ListingUnchanged
  <2>2. QED
    BY <2>1, AskQueries DEF Inner!flights
<1>3. QED
  BY <1>1, <1>2, UseQueries DEF Listing

\* Steps of the calls themselves: a listing of one group version begins.
LEMMA CallQueries ==
    ASSUME TypeOK, FlightInv, NEW p \in Procs,
           (\E c \in Calls : Start(p, c)) \/ Goroutine(p) \/ Lock(p)
    PROVE  UNCHANGED <<QueryLeaders, QueryWaiters, QueryAnswers>>
<1>1. UNCHANGED inner /\ pc[p] # "subs"
  BY DEF Start, Goroutine, LeadList, JoinList, RetryList, RetryResource, Return, Returning,
         Invalidate, Lock, CallsUnchanged
<1>2. UNCHANGED sub \/ \E v \in Keys : Uncached(p, v)
  <2>1. CASE \E c \in Calls : Start(p, c)
    BY <2>1, CallFields DEF Start
  <2>2. CASE LeadList(p)
    BY <2>2, CallFields DEF LeadList, TypeOK
  <2>3. CASE JoinList(p) \/ RetryList(p) \/ RetryResource(p) \/ Return(p) \/ Invalidate(p) \/ Lock(p)
    BY <2>3 DEF JoinList, RetryList, RetryResource, Return, Invalidate, Lock
  <2>4. QED
    BY <2>1, <2>2, <2>3 DEF Goroutine
<1>3. \A q \in Procs, gv \in GVs :
          sub'[q][gv] = sub[q][gv] \/ (q = p /\ sub'[q][gv].st \in {"off", "call"})
  BY <1>2, UncachedQueries
<1>4. QED
  BY <1>1, <1>3, AskQueries

LEMMA NextQueries == TypeOK /\ FlightInv /\ [Next]_vars => [Inner!Next]_(Inner!flights)
<1> SUFFICES ASSUME TypeOK, FlightInv, [Next]_vars PROVE [Inner!Next]_(Inner!flights)
  OBVIOUS
<1>1. CASE UNCHANGED vars \/ Environment
  <2>1. UNCHANGED <<inner, sub>>
    BY <1>1 DEF vars, localVars, Environment, Register, Unregister, Break, Repair, Observe, Expire
  <2>2. UNCHANGED <<QueryLeaders, QueryWaiters, QueryAnswers>>
    BY <2>1 DEF QueryLeaders, QueryWaiters, QueryAnswers
  <2>3. QED
    BY <2>2 DEF Inner!flights
<1>2. CASE \E p \in Procs : (\E c \in Calls : Start(p, c)) \/ Goroutine(p) \/ Lock(p)
  BY <1>2, CallQueries DEF Inner!flights
<1>3. QED
  BY <1>1, <1>2, QueryQueries, ListingQueries DEF Next

LEMMA InitQueries == Init => Inner!Init
<1> SUFFICES ASSUME Init PROVE Inner!Init
  OBVIOUS
<1>1. \A p \in Procs, gv \in GVs : sub[p][gv].st = "off" /\ inner[gv] = NoProc
  BY DEF Init, Off
<1>2. QueryLeaders = [gv \in GVs |-> <<>>]
  BY DEF Init, QueryLeaders
<1>3. QueryWaiters = [gv \in GVs |-> {}]
  <2>1. ASSUME NEW gv \in GVs PROVE {q \in Procs : sub[q][gv].st = "join"} = {}
    BY <1>1
  <2>2. QED
    BY <2>1 DEF QueryWaiters
<1>4. QueryAnswers = [c \in Queries |-> NoResult]
  <2>1. \A c \in Queries : c[1] \in Procs /\ c[2] \in GVs
    BY DEF Queries
  <2>2. QED
    BY <1>1, <2>1 DEF QueryAnswers
<1>5. QED
  BY <1>2, <1>3, <1>4 DEF Inner!Init

\* The queries of one group version share one answer at a time, for any number
\* of goroutines and whatever they call: sfCachedDiscovery.sf keeps the promise
\* of Flights (client.go:507-534).
THEOREM QueriesImplementFlights == Spec => QueriesShareFlights
<1>1. Spec => [](TypeOK /\ FlightInv)
  BY TypeCorrect, FlightsAgree, PTL
<1>2. QED
  BY <1>1, InitQueries, NextQueries, PTL DEF Spec, QueriesShareFlights, Inner!Spec
=============================================================================
