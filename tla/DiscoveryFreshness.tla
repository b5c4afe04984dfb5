------------------------- MODULE DiscoveryFreshness -------------------------
(***************************************************************************)
(* What a call is handed after it has invalidated the cache, and what      *)
(* APIResource finds: proofs of FlushedListIsCurrent and SteadyKindFound   *)
(* for any number of goroutines, group versions, kinds, calls and changes  *)
(* of the cluster.                                                         *)
(***************************************************************************)
EXTENDS DiscoveryProofs, WellFoundedInduction

-----------------------------------------------------------------------------
(* What a listing shows *)

Less == {ss \in Nat \X Nat : ss[1] < ss[2]}

LEMMA LessIsWellFounded == IsWellFoundedOn(Less, Nat)
  BY NatLessThanWellFounded DEF OpToRel, Less

\* A kind that some group version answered with is shown by the listing: in that
\* version or, of all preferred resources, in the first of its group that
\* answered with it.
LEMMA AnswerIsShown ==
  ASSUME NEW v, NEW ans, DOMAIN ans \subseteq Relevant(v), Relevant(v) \subseteq GVs,
         NEW gv \in DOMAIN ans, NEW kind \in ans[gv].kinds
  PROVE  Shows(Collect(v, ans), v, gv, kind)
<1> DEFINE H     == {h \in DOMAIN ans : (h = gv \/ Before(h, gv)) /\ kind \in ans[h].kinds}
           ranks == {Rank[h] : h \in H}
<1>1. /\ gv \in H /\ H \subseteq GVs
      /\ \A h \in GVs : Rank[h] \in Nat
  BY VersionsOK
<1>2. PICK r \in ranks : \A s \in ranks : <<s, r>> \notin Less
  <2>1. ranks \subseteq Nat /\ ranks # {}
    BY <1>1
  <2> HIDE DEF ranks
  <2> QED BY <2>1, LessIsWellFounded, WFMin
<1>3. PICK h \in H : Rank[h] = r
  BY <1>2
<1>4. ASSUME NEW e \in DOMAIN ans, Before(e, h), kind \in ans[e].kinds PROVE FALSE
  <2>1. e \in GVs /\ h \in GVs /\ gv \in GVs
    BY <1>1
  <2>2. Rank[e] \in Nat /\ Rank[h] \in Nat /\ Rank[gv] \in Nat /\ Rank[e] < Rank[h]
    BY <1>1, <1>4, <2>1 DEF Before
  <2>3. Before(e, gv)
    BY <1>3, <1>4, <2>2 DEF Before
  <2>4. Rank[e] \in ranks
    BY <1>4, <2>3
  <2> HIDE DEF H, ranks
  <2> QED BY <1>2, <1>3, <2>2, <2>4 DEF Less
<1>5. kind \in Kept(h, ans)
  BY <1>3, <1>4 DEF Kept
<1>6. h \in DOMAIN ans /\ h \in InPlaceOf(v, gv) /\ h \in GVs
  BY <1>1, <1>3 DEF InPlaceOf
<1>7. Collect(v, ans).lists = [g \in GVs |-> IF g \in DOMAIN ans THEN Kept(g, ans) ELSE {}]
  BY DEF Collect
<1>8. kind \in Collect(v, ans).lists[h]
  BY <1>5, <1>6, <1>7
<1> QED BY <1>6, <1>8 DEF Shows

-----------------------------------------------------------------------------
(* History *)

\* A step that leaves the call of q where it is.
LEMMA RemembersFrame ==
  ASSUME NEW q \in Procs, Remembers(q), UNCHANGED <<server, broken>>,
         pc'[q] = pc[q], call'[q] = call[q], missed'[q] = missed[q], flushed'[q] = flushed[q],
         retriedL'[q] = retriedL[q], retriedA'[q] = retriedA[q]
  PROVE  Remembers(q)'
  BY DEF Remembers, Serves

LEMMA AsksFrame ==
  ASSUME NEW q \in Procs, Asks(q), pc'[q] = pc[q], call'[q] = call[q],
         \A gv \in GVs : sub'[q][gv].st # "off" <=> sub[q][gv].st # "off"
  PROVE  Asks(q)'
  BY DEF Asks

\* A query under way stays under way, and what it is about to store is an answer
\* that the backend caches.
LEMMA QueryMoves ==
  ASSUME TypeOK, NEW p \in Procs, NEW gv \in GVs, Query(p, gv),
         NEW q \in Procs, NEW h \in GVs
  PROVE  /\ sub'[q][h].st # "off" <=> sub[q][h].st # "off"
         /\ sub'[q][h].st = "store" => \/ sub'[q][h] = sub[q][h]
                                       \/ sub'[q][h].ans.err \in {"none", "text"}
<1>0. /\ sub \in [Procs -> [GVs -> SubType]] /\ sub[p] \in [GVs -> SubType]
      /\ sub[p][gv] \in SubType
  BY DEF TypeOK
<1>1. ASSUME NEW s, sub' = [sub EXCEPT ![p][gv].st = s], s \notin {"off", "store"},
             sub[p][gv].st # "off"
      PROVE  /\ sub'[q][h].st # "off" <=> sub[q][h].st # "off"
             /\ sub'[q][h].st = "store" => sub'[q][h] = sub[q][h]
  <2>1. sub' = [sub EXCEPT ![p] = [sub[p] EXCEPT ![gv] = [sub[p][gv] EXCEPT !.st = s]]]
    BY <1>1
  <2>2. [sub[p][gv] EXCEPT !.st = s].st = s
    BY <1>0 DEF SubType
  <2>3. CASE q = p /\ h = gv
    BY <1>0, <1>1, <2>1, <2>2, <2>3
  <2>4. CASE ~(q = p /\ h = gv)
    BY <1>0, <2>1, <2>4
  <2> QED BY <2>3, <2>4
<1>2. ASSUME NEW a, Answered(p, gv, a), sub[p][gv].st # "off"
      PROVE  /\ sub'[q][h].st # "off" <=> sub[q][h].st # "off"
             /\ sub'[q][h].st = "store" => sub'[q][h] = sub[q][h]
  <2>1. sub'[q][h] = IF h = gv /\ (q = p \/ sub[q][h].st = "join")
                     THEN [st |-> "done", ans |-> a] ELSE sub[q][h]
    BY <1>2 DEF Answered
  <2> QED BY <1>2, <2>1
<1>3. CASE LeadQuery(p, gv)
  BY <1>1, <1>3 DEF LeadQuery
<1>4. CASE JoinQuery(p, gv)
  BY <1>1, <1>4 DEF JoinQuery
<1>5. CASE CacheHit(p, gv)
  BY <1>2, <1>5 DEF CacheHit
<1>6. CASE CacheMiss(p, gv)
  BY <1>1, <1>6 DEF CacheMiss
<1>7. CASE AskServer(p, gv)
  <2>1. PICK a \in Live(gv) :
          IF a.err \in {"none", "text"}
          THEN sub' = [sub EXCEPT ![p][gv] = [st |-> "store", ans |-> a]] /\ UNCHANGED inner
          ELSE Answered(p, gv, a)
    BY <1>7 DEF AskServer
  <2>2. sub[p][gv].st # "off"
    BY <1>7 DEF AskServer
  <2>3. CASE a.err \in {"none", "text"}
    <3>1. sub' = [sub EXCEPT ![p] = [sub[p] EXCEPT ![gv] = [st |-> "store", ans |-> a]]]
      BY <2>1, <2>3
    <3>2. CASE q = p /\ h = gv
      <4>1. sub'[q][h] = [st |-> "store", ans |-> a]
        BY <1>0, <3>1, <3>2
      <4> QED BY <2>2, <2>3, <3>2, <4>1
    <3>3. CASE ~(q = p /\ h = gv)
      BY <1>0, <3>1, <3>3
    <3> QED BY <3>2, <3>3
  <2>4. CASE a.err \notin {"none", "text"}
    BY <1>2, <2>1, <2>2, <2>4
  <2> QED BY <2>3, <2>4
<1>8. CASE Store(p, gv)
  BY <1>2, <1>8 DEF Store
<1> QED BY <1>3, <1>4, <1>5, <1>6, <1>7, <1>8 DEF Query

LEMMA QueryHistory ==
  ASSUME TypeOK, HistoryInv, NEW p \in Procs, NEW gv \in GVs, Query(p, gv)
  PROVE  HistoryInv'
<1>1. UNCHANGED <<server, broken, call, pc, missed, flushed, retriedL, retriedA>>
  BY DEF Query, LeadQuery, JoinQuery, CacheHit, CacheMiss, AskServer, Store, QueryUnchanged,
         clusterVars, historyVars
<1>2. ASSUME NEW q \in Procs PROVE Remembers(q)' /\ Asks(q)'
  <2>1. Remembers(q) /\ Asks(q)
    BY DEF HistoryInv
  <2>2. \A h \in GVs : sub'[q][h].st # "off" <=> sub[q][h].st # "off"
    BY QueryMoves
  <2> QED BY <1>1, <2>1, <2>2, RemembersFrame, AsksFrame
<1>3. ASSUME NEW q \in Procs, NEW h \in GVs, sub'[q][h].st = "store"
      PROVE  sub'[q][h].ans.err \in {"none", "text"}
  BY <1>3, QueryMoves DEF HistoryInv
<1> QED BY <1>2, <1>3 DEF HistoryInv

\* A step of p that leaves the others where they are.
LEMMA StepHistory ==
  ASSUME HistoryInv, NEW p \in Procs, UNCHANGED <<server, broken>>,
         \A q \in Procs \ {p} :
             /\ pc'[q] = pc[q] /\ call'[q] = call[q] /\ sub'[q] = sub[q]
             /\ missed'[q] = missed[q] /\ flushed'[q] = flushed[q]
             /\ retriedL'[q] = retriedL[q] /\ retriedA'[q] = retriedA[q],
         Remembers(p)', Asks(p)', \A gv \in GVs : sub'[p][gv].st # "store"
  PROVE  HistoryInv'
<1>1. ASSUME NEW q \in Procs \ {p} PROVE Remembers(q)' /\ Asks(q)'
  <2>1. Remembers(q) /\ Asks(q)
    BY DEF HistoryInv
  <2> QED BY <2>1, RemembersFrame, AsksFrame
<1>2. ASSUME NEW q \in Procs, NEW gv \in GVs, sub'[q][gv].st = "store"
      PROVE  sub'[q][gv].ans.err \in {"none", "text"}
  BY <1>2 DEF HistoryInv
<1> QED BY <1>1, <1>2 DEF HistoryInv

\* The end of a listing: p, and who waited for it, have a result.
LEMMA DeliverHistory ==
  ASSUME TypeOK, HistoryInv, NEW p \in Procs, NEW r, pc[p] \in Leading, Deliver(p, r),
         UNCHANGED <<server, broken, call, missed, flushed, retriedL, retriedA>>,
         \A q \in Procs \ {p} : sub'[q] = sub[q],
         \A gv \in GVs : sub'[p][gv].st = "off"
  PROVE  HistoryInv'
<1>1. ASSUME NEW q \in Procs PROVE Remembers(q)' /\ Asks(q)'
  <2>0. Remembers(q) /\ Asks(q)
    BY DEF HistoryInv
  <2>1. \/ pc'[q] = pc[q] /\ q # p
        \/ pc'[q] = "got" /\ pc[q] \in Leading \cup {"join"}
    BY DEF Deliver, TypeOK
  <2>2. CASE pc'[q] = pc[q] /\ q # p
    BY <2>0, <2>2, RemembersFrame, AsksFrame
  <2>3. CASE pc'[q] = "got" /\ pc[q] \in Leading \cup {"join"}
    <3>1. pc[q] \notin {"idle", "lock", "inv"}
      BY <2>3 DEF Leading
    <3>2. Remembers(q)'
      BY <2>0, <2>3, <3>1, Zenon DEF Remembers, Serves
    <3>3. Asks(q)'
      BY <2>3 DEF Asks
    <3> QED BY <3>2, <3>3
  <2> QED BY <2>1, <2>2, <2>3
<1>2. ASSUME NEW q \in Procs, NEW gv \in GVs, sub'[q][gv].st = "store"
      PROVE  sub'[q][gv].ans.err \in {"none", "text"}
  BY <1>2 DEF HistoryInv
<1> QED BY <1>1, <1>2 DEF HistoryInv

\* A listing of all group versions has their list and begins its queries.
LEMMA StartQueriesHistory ==
  ASSUME TypeOK, HistoryInv, NEW p \in Procs, NEW gvs,
         pc[p] \in {"groups", "groupsStore"}, StartQueries(p, gvs),
         UNCHANGED <<server, broken, call, missed, flushed, retriedL, retriedA>>
  PROVE  HistoryInv'
<1>0. pc \in [Procs -> PC] /\ sub \in [Procs -> [GVs -> SubType]]
  BY DEF TypeOK
<1>1. Remembers(p) /\ Asks(p)
  BY DEF HistoryInv
<1>2. /\ pc'[p] = "subs"
      /\ \A gv \in GVs : sub'[p][gv].st # "store"
      /\ \A q \in Procs \ {p} : pc'[q] = pc[q] /\ sub'[q] = sub[q]
  BY <1>0 DEF StartQueries, Asked, Off
<1>3. Remembers(p)'
  BY <1>1, <1>2, Zenon DEF Remembers, Serves
<1>4. Asks(p)'
  BY <1>1, <1>2 DEF Asks
<1> QED BY <1>2, <1>3, <1>4, StepHistory

LEMMA ListingHistory ==
  ASSUME TypeOK, FlightInv, HistoryInv, NEW p \in Procs, Listing(p)
  PROVE  HistoryInv'
<1>0. /\ pc \in [Procs -> PC] /\ sub \in [Procs -> [GVs -> SubType]]
      /\ Remembers(p) /\ Asks(p)
  BY DEF TypeOK, HistoryInv
<1>1. UNCHANGED <<server, broken, call, missed, flushed, retriedL, retriedA>>
  BY DEF Listing, GroupsHit, GroupsLive, GroupsFail, GroupsStore, Aggregate, QueriesDone,
         ListingUnchanged, clusterVars, historyVars
<1>2. pc[p] # "subs" => \A gv \in GVs : sub[p][gv].st = "off"
  BY FlightParts
<1>3. CASE GroupsHit(p)
  BY <1>1, <1>3, StartQueriesHistory DEF GroupsHit
<1>4. CASE GroupsLive(p)
  <2>1. /\ pc[p] = "groups" /\ pc' = [pc EXCEPT ![p] = "groupsStore"] /\ sub' = sub
    BY <1>4 DEF GroupsLive
  <2>2. pc'[p] = "groupsStore" /\ \A q \in Procs \ {p} : pc'[q] = pc[q]
    BY <1>0, <2>1
  <2>3. Remembers(p)'
    BY <1>0, <1>1, <2>1, <2>2, Zenon DEF Remembers, Serves
  <2>4. Asks(p)'
    BY <1>0, <1>1, <2>1, <2>2 DEF Asks
  <2>5. \A gv \in GVs : sub'[p][gv].st # "store"
    BY <1>2, <2>1
  <2> QED BY <1>1, <2>1, <2>2, <2>3, <2>4, <2>5, StepHistory
<1>5. CASE GroupsFail(p)
  <2>1. pc[p] = "groups" /\ sub' = sub /\ \E r : Deliver(p, r)
    BY <1>5 DEF GroupsFail
  <2> QED BY <1>1, <1>2, <2>1, DeliverHistory DEF Leading
<1>6. CASE GroupsStore(p)
  BY <1>1, <1>6, StartQueriesHistory DEF GroupsStore
<1>7. CASE Aggregate(p)
  <2>1. pc[p] = "aggregate" /\ sub' = sub /\ \E r : Deliver(p, r)
    BY <1>7 DEF Aggregate
  <2> QED BY <1>1, <1>2, <2>1, DeliverHistory DEF Leading
<1>8. CASE QueriesDone(p)
  <2>1. /\ pc[p] = "subs" /\ \E r : Deliver(p, r)
        /\ sub' = [sub EXCEPT ![p] = [gv \in GVs |-> Off]]
    BY <1>8 DEF QueriesDone
  <2>2. /\ \A q \in Procs \ {p} : sub'[q] = sub[q]
        /\ \A gv \in GVs : sub'[p][gv].st = "off"
    BY <1>0, <2>1 DEF Off
  <2> QED BY <1>1, <2>1, <2>2, DeliverHistory DEF Leading
<1> QED BY <1>3, <1>4, <1>5, <1>6, <1>7, <1>8 DEF Listing

\* Where an uncached listing begins, it agrees with its call.
LEMMA UncachedAsks ==
  ASSUME TypeOK, FlightInv, NEW p \in Procs, NEW v \in Keys,
         pc[p] \in {"idle", "list"}, Uncached(p, v), call'[p].v = v
  PROVE  /\ Asks(p)'
         /\ pc'[p] \notin {"idle", "lock", "inv", "got", "groupsStore", "join", "list"}
         /\ \A gv \in GVs : sub'[p][gv].st \in {"off", "call"}
         /\ pc'[p] = "subs" => v \in GVs /\ sub'[p][v].st # "off"
         /\ \A q \in Procs \ {p} : pc'[q] = pc[q] /\ sub'[q] = sub[q]
<1>0. pc \in [Procs -> PC] /\ sub \in [Procs -> [GVs -> SubType]] /\ sub[p] \in [GVs -> SubType]
  BY DEF TypeOK
<1>1. \A gv \in GVs : sub[p][gv].st = "off"
  BY FlightParts
<1>2. CASE v = AllGVs
  <2>1. pc'[p] \in {"aggregate", "groups"} /\ sub' = sub /\ \A q \in Procs \ {p} : pc'[q] = pc[q]
    BY <1>0, <1>2 DEF Uncached
  <2> QED BY <1>1, <1>2, <2>1 DEF Asks
<1>3. CASE v # AllGVs
  <2>1. v \in GVs
    BY <1>3 DEF Keys
  <2>2. sub' = [sub EXCEPT ![p] = [sub[p] EXCEPT ![v] = Asked]] /\ pc' = [pc EXCEPT ![p] = "subs"]
    BY <1>3 DEF Uncached
  <2>3. \A gv \in GVs : sub'[p][gv] = IF gv = v THEN Asked ELSE sub[p][gv]
    BY <1>0, <2>1, <2>2
  <2>4. pc'[p] = "subs" /\ \A q \in Procs \ {p} : pc'[q] = pc[q] /\ sub'[q] = sub[q]
    BY <1>0, <2>2
  <2> QED BY <1>1, <1>3, <2>1, <2>3, <2>4 DEF Asks, Asked
<1> QED BY <1>2, <1>3

LEMMA StartHistory ==
  ASSUME TypeOK, FlightInv, HistoryInv, NEW p \in Procs, NEW c \in Calls, Start(p, c)
  PROVE  HistoryInv'
<1>1. /\ pc[p] = "idle" /\ call' = [call EXCEPT ![p] = c]
      /\ missed' = [missed EXCEPT ![p] = {gv \in GVs : ~Serves(gv, c.kind)}]
      /\ UNCHANGED <<server, broken, flushed, retriedL, retriedA>>
  BY DEF Start, CallsUnchanged, clusterVars
<1>2. /\ call'[p] = c /\ missed'[p] = {gv \in GVs : ~Serves(gv, c.kind)}
      /\ \A q \in Procs \ {p} : call'[q] = call[q] /\ missed'[q] = missed[q]
  BY <1>1 DEF TypeOK
<1>3. Remembers(p)
  BY DEF HistoryInv
<1>4. Remembers(p)'
  <2>1. \A gv \in GVs \ missed'[p] : Serves(gv, call[p].kind)'
    BY <1>1, <1>2 DEF Serves
  <2>2. ~flushed'[p] /\ ~retriedL'[p] /\ ~retriedA'[p]
    BY <1>1, <1>3, Zenon DEF Remembers
  <2> QED BY <2>1, <2>2, Zenon DEF Remembers
<1>5. /\ Asks(p)' /\ \A gv \in GVs : sub'[p][gv].st # "store"
      /\ \A q \in Procs \ {p} : pc'[q] = pc[q] /\ sub'[q] = sub[q]
  <2>1. CASE c.op = "direct"
    <3>1. Uncached(p, c.v)
      BY <2>1 DEF Start
    <3> QED BY <1>1, <1>2, <3>1, CallFields, UncachedAsks
  <2>2. CASE c.op # "direct"
    <3>1. PICK s \in {"lock", "list"} : pc' = [pc EXCEPT ![p] = s] /\ sub' = sub
      BY <2>2 DEF Start
    <3>2. pc'[p] = s /\ \A q \in Procs \ {p} : pc'[q] = pc[q]
      BY <3>1 DEF TypeOK
    <3>3. \A gv \in GVs : sub[p][gv].st = "off"
      BY <1>1, FlightParts
    <3> QED BY <3>1, <3>2, <3>3 DEF Asks
  <2> QED BY <2>1, <2>2
<1> QED BY <1>1, <1>2, <1>4, <1>5, StepHistory

\* A step of p outside every listing leaves it without queries.
LEMMA MoveHistory ==
  ASSUME TypeOK, FlightInv, HistoryInv, NEW p \in Procs, NEW s,
         pc[p] # "subs", pc' = [pc EXCEPT ![p] = s], s \notin Leading, UNCHANGED <<server, broken, sub>>,
         \A q \in Procs \ {p} :
             /\ call'[q] = call[q] /\ missed'[q] = missed[q] /\ flushed'[q] = flushed[q]
             /\ retriedL'[q] = retriedL[q] /\ retriedA'[q] = retriedA[q],
         Remembers(p)'
  PROVE  HistoryInv'
<1>1. pc'[p] = s /\ \A q \in Procs \ {p} : pc'[q] = pc[q]
  BY DEF TypeOK
<1>2. Asks(p)'
  BY <1>1 DEF Asks, Leading
<1>3. \A gv \in GVs : sub'[p][gv].st # "store"
  BY FlightParts
<1> QED BY <1>1, <1>2, <1>3, StepHistory

LEMMA GoroutineHistory ==
  ASSUME TypeOK, FlightInv, HistoryInv, NEW p \in Procs, Goroutine(p) \/ Lock(p)
  PROVE  HistoryInv'
<1>0. /\ pc \in [Procs -> PC] /\ call \in [Procs -> Calls] /\ call[p].v \in Keys
      /\ retriedL \in [Procs -> BOOLEAN] /\ retriedA \in [Procs -> BOOLEAN]
      /\ missed \in [Procs -> SUBSET GVs] /\ flushed \in [Procs -> BOOLEAN]
      /\ Remembers(p)
  BY CallFields DEF TypeOK, HistoryInv
<1>1. UNCHANGED <<server, broken>>
  BY DEF Goroutine, LeadList, JoinList, RetryList, RetryResource, Return, Invalidate, Lock,
         CallsUnchanged, clusterVars
<1>2. CASE LeadList(p)
  <2>1. /\ pc[p] = "list" /\ Uncached(p, call[p].v)
        /\ UNCHANGED <<call, missed, flushed, retriedL, retriedA>>
    BY <1>2 DEF LeadList, historyVars
  <2>2. /\ Asks(p)' /\ \A gv \in GVs : sub'[p][gv].st \in {"off", "call"}
        /\ pc'[p] \notin {"idle", "lock", "inv"}
        /\ \A q \in Procs \ {p} : pc'[q] = pc[q] /\ sub'[q] = sub[q]
    BY <1>0, <2>1, UncachedAsks
  <2>3. pc[p] \notin {"idle", "lock", "inv"}
    BY <2>1
  <2>4. Remembers(p)'
    BY <1>0, <1>1, <2>1, <2>2, <2>3, Zenon DEF Remembers, Serves
  <2> QED BY <1>1, <2>1, <2>2, <2>4, StepHistory
<1>3. CASE JoinList(p)
  <2>1. /\ pc[p] = "list" /\ pc' = [pc EXCEPT ![p] = "join"]
        /\ UNCHANGED <<sub, call, missed, flushed, retriedL, retriedA>>
    BY <1>3 DEF JoinList, historyVars
  <2>2. pc'[p] = "join"
    BY <1>0, <2>1
  <2>3. pc[p] \notin {"idle", "lock", "inv"}
    BY <2>1
  <2>4. Remembers(p)'
    BY <1>0, <1>1, <2>1, <2>2, <2>3, Zenon DEF Remembers, Serves
  <2> QED BY <1>1, <2>1, <2>4, MoveHistory DEF Leading
<1>4. CASE RetryList(p) \/ RetryResource(p)
  <2>1. /\ pc[p] = "got" /\ pc' = [pc EXCEPT ![p] = "lock"]
        /\ UNCHANGED <<sub, call, missed, flushed>>
        /\ \A q \in Procs \ {p} : retriedL'[q] = retriedL[q] /\ retriedA'[q] = retriedA[q]
    BY <1>0, <1>4 DEF RetryList, RetryResource, AskAgain, historyVars
  <2>2. pc'[p] = "lock"
    BY <1>0, <2>1
  <2>3. Remembers(p)'
    BY <1>0, <1>1, <2>1, <2>2 DEF Remembers, Serves
  <2> QED BY <1>1, <2>1, <2>3, MoveHistory DEF Leading
<1>5. CASE Return(p)
  <2>1. pc[p] = "got" /\ Leave(p) /\ sub' = sub
    BY <1>5 DEF Return, Returning
  <2>2. /\ \A q \in Procs \ {p} :
             /\ call'[q] = call[q] /\ missed'[q] = missed[q] /\ flushed'[q] = flushed[q]
             /\ retriedL'[q] = retriedL[q] /\ retriedA'[q] = retriedA[q]
        /\ pc' = [pc EXCEPT ![p] = "idle"] /\ pc'[p] = "idle"
        /\ ~flushed'[p] /\ ~retriedL'[p] /\ ~retriedA'[p]
    BY <1>0, <2>1 DEF Leave
  <2>3. Remembers(p)'
    BY <2>2, Zenon DEF Remembers
  <2> QED BY <1>1, <2>1, <2>2, <2>3, MoveHistory DEF Leading
<1>6. CASE Invalidate(p)
  <2>1. pc[p] = "inv" /\ sub' = sub
    BY <1>6 DEF Invalidate
  <2>2. CASE call[p].op = "invalidate"
    <3>1. Leave(p)
      BY <1>6, <2>2 DEF Invalidate
    <3>2. /\ \A q \in Procs \ {p} :
               /\ call'[q] = call[q] /\ missed'[q] = missed[q] /\ flushed'[q] = flushed[q]
               /\ retriedL'[q] = retriedL[q] /\ retriedA'[q] = retriedA[q]
          /\ pc' = [pc EXCEPT ![p] = "idle"] /\ pc'[p] = "idle"
          /\ ~flushed'[p] /\ ~retriedL'[p] /\ ~retriedA'[p]
      BY <1>0, <3>1 DEF Leave
    <3>3. Remembers(p)'
      BY <3>2, Zenon DEF Remembers
    <3> QED BY <1>1, <2>1, <3>2, <3>3, MoveHistory DEF Leading
  <2>3. CASE call[p].op # "invalidate"
    <3>1. /\ pc' = [pc EXCEPT ![p] = "list"] /\ flushed' = [flushed EXCEPT ![p] = TRUE]
          /\ UNCHANGED <<call, retriedL, retriedA, missed>>
      BY <1>6, <2>3 DEF Invalidate
    <3>2. pc'[p] = "list" /\ flushed'[p] /\ \A q \in Procs \ {p} : flushed'[q] = flushed[q]
      BY <1>0, <3>1
    <3>3. Remembers(p)'
      BY <1>0, <1>1, <2>1, <3>1, <3>2 DEF Remembers, Serves
    <3> QED BY <1>1, <2>1, <3>1, <3>2, <3>3, MoveHistory DEF Leading
  <2> QED BY <2>2, <2>3
<1>7. CASE Lock(p)
  <2>1. /\ pc[p] = "lock" /\ pc' = [pc EXCEPT ![p] = "inv"]
        /\ UNCHANGED <<sub, call, missed, flushed, retriedL, retriedA>>
    BY <1>7 DEF Lock, historyVars
  <2>2. pc'[p] = "inv"
    BY <1>0, <2>1
  <2>3. Remembers(p)'
    BY <1>0, <1>1, <2>1, <2>2 DEF Remembers, Serves
  <2> QED BY <1>1, <2>1, <2>3, MoveHistory DEF Leading
<1> QED BY <1>2, <1>3, <1>4, <1>5, <1>6, <1>7 DEF Goroutine

\* The cluster changes, and the history with it; or the cache expires.
LEMMA EnvironmentHistory ==
  ASSUME TypeOK, HistoryInv, Environment
  PROVE  HistoryInv'
<1>1. UNCHANGED <<pc, call, sub, flushed, retriedL, retriedA>>
  BY DEF Environment, Register, Unregister, Break, Repair, Expire, Observe, localVars, historyVars
<1>2. ASSUME NEW q \in Procs, pc'[q] # "idle", NEW gv \in GVs \ missed'[q]
      PROVE  Serves(gv, call[q].kind)'
  <2>1. CASE Expire
    <3>1. UNCHANGED <<server, broken, missed>>
      BY <2>1 DEF Expire, clusterVars, historyVars
    <3>2. Remembers(q)
      BY DEF HistoryInv
    <3> QED BY <1>1, <1>2, <3>1, <3>2 DEF Remembers, Serves
  <2>2. CASE ~Expire
    <3>1. Observe
      BY <2>2 DEF Environment, Register, Unregister, Break, Repair
    <3>2. missed'[q] = missed[q] \cup {h \in GVs : call[q].kind \notin server'[h] \/ h \in broken'}
      BY <1>1, <1>2, <3>1 DEF Observe
    <3> QED BY <1>1, <1>2, <3>2 DEF Serves
  <2> QED BY <2>1, <2>2
<1>3. ASSUME NEW q \in Procs PROVE Remembers(q)' /\ Asks(q)'
  <2>1. Remembers(q) /\ Asks(q)
    BY DEF HistoryInv
  <2>2. Remembers(q)'
    BY <1>1, <1>2, <2>1, Zenon DEF Remembers
  <2> QED BY <1>1, <2>1, <2>2, AsksFrame
<1>4. ASSUME NEW q \in Procs, NEW gv \in GVs, sub'[q][gv].st = "store"
      PROVE  sub'[q][gv].ans.err \in {"none", "text"}
  BY <1>1, <1>4 DEF HistoryInv
<1> QED BY <1>3, <1>4 DEF HistoryInv

LEMMA InitHistory == Init => HistoryInv
<1> SUFFICES ASSUME Init PROVE HistoryInv
  OBVIOUS
<1>1. ASSUME NEW p \in Procs
      PROVE  /\ pc[p] = "idle" /\ ~flushed[p] /\ ~retriedL[p] /\ ~retriedA[p]
             /\ \A gv \in GVs : sub[p][gv].st = "off"
  BY DEF Init, Off
<1>2. ASSUME NEW p \in Procs PROVE Remembers(p) /\ Asks(p)
  BY <1>1 DEF Remembers, Asks
<1> QED BY <1>1, <1>2 DEF HistoryInv

LEMMA NextHistory == TypeOK /\ FlightInv /\ HistoryInv /\ [Next]_vars => HistoryInv'
<1> SUFFICES ASSUME TypeOK, FlightInv, HistoryInv, [Next]_vars PROVE HistoryInv'
  OBVIOUS
<1>1. CASE UNCHANGED vars
  <2>1. UNCHANGED <<server, broken, pc, call, sub, missed, flushed, retriedL, retriedA>>
    BY <1>1 DEF vars, clusterVars, localVars, historyVars
  <2>2. ASSUME NEW q \in Procs PROVE Remembers(q)' /\ Asks(q)'
    <3>1. Remembers(q) /\ Asks(q)
      BY DEF HistoryInv
    <3> QED BY <2>1, <3>1, RemembersFrame, AsksFrame
  <2> QED BY <2>1, <2>2 DEF HistoryInv
<1>2. CASE Next
  BY <1>2, StartHistory, QueryHistory, ListingHistory, GoroutineHistory, EnvironmentHistory DEF Next
<1> QED BY <1>1, <1>2

\* The history of each call agrees with its retries, its listing with what it
\* asks for.
THEOREM HistoryAgrees == Spec => []HistoryInv
  BY TypeCorrect, FlightsAgree, InitHistory, NextHistory, PTL DEF Spec

-----------------------------------------------------------------------------
(* Freshness *)

\* What it takes to be watched: the call runs, and the kind is served.
LEMMA WatchedFacts ==
  ASSUME TypeOK, HistoryInv, NEW p \in Procs, NEW gv \in Watched(p)
  PROVE  /\ gv \in GVs /\ pc[p] # "idle" /\ ~overlap[p] /\ gv \notin missed[p]
         /\ gv \in Relevant(call[p].v)
         /\ call[p].v # AllGVs => call[p].v = gv
         /\ call[p].kind \in server[gv] /\ gv \notin broken
<1>1. /\ pc[p] # "idle" /\ ~overlap[p] /\ gv \in Relevant(call[p].v) /\ gv \notin missed[p]
  BY DEF Watched
<1>2. gv \in GVs /\ (call[p].v # AllGVs => call[p].v = gv)
  <2>1. call[p].v # AllGVs => call[p].v = gv
    BY <1>1 DEF Relevant
  <2>2. gv \in GVs
    <3>1. call[p].v \in Keys
      BY CallFields DEF TypeOK
    <3> QED BY <1>1, <2>1, <3>1 DEF Relevant, Keys
  <2> QED BY <2>1, <2>2
<1>3. Serves(gv, call[p].kind)
  BY <1>1, <1>2 DEF HistoryInv, Remembers
<1> QED BY <1>1, <1>2, <1>3 DEF Serves

\* A call goes on being watched only for what it was watched for.
LEMMA WatchedFrame ==
  ASSUME NEW p \in Procs, pc[p] # "idle", call'[p] = call[p], overlap'[p] = overlap[p],
         missed[p] \subseteq missed'[p]
  PROVE  Watched(p)' \subseteq Watched(p)
  BY Zenon DEF Watched, Relevant

\* Where an answer about gv comes from: the API server, the cache, or an answer
\* on its way into the cache.
Source(gv, a) ==
    \/ a \in Live(gv)
    \/ cache[gv].known /\ a = Cached(cache[gv])
    \/ \E q \in Procs : sub[q][gv].st = "store" /\ a = sub[q][gv].ans

\* Whatever the source, the answer is good for a call that watches gv.
LEMMA SourceIsFresh ==
  ASSUME TypeOK, HistoryInv, FreshInv, NEW p \in Procs, NEW gv \in Watched(p), NEW a, Source(gv, a)
  PROVE  /\ a.err \in {"none", "text"}
         /\ flushed[p] => call[p].kind \in a.kinds
<1>0. gv \in GVs /\ call[p].kind \in server[gv] /\ gv \notin broken
  BY WatchedFacts
<1>1. CASE a \in Live(gv)
  <2>1. a = [err |-> "none", kinds |-> server[gv]]
    BY <1>0, <1>1 DEF Live
  <2> QED BY <1>0, <2>1
<1>2. CASE cache[gv].known /\ a = Cached(cache[gv])
  <2>1. a.err \in {"none", "text"} /\ a.kinds = cache[gv].kinds
    BY <1>2 DEF Cached
  <2>2. flushed[p] => call[p].kind \in cache[gv].kinds
    BY <1>2 DEF FreshInv, Fresh, Current
  <2> QED BY <2>1, <2>2
<1>3. CASE \E q \in Procs : sub[q][gv].st = "store" /\ a = sub[q][gv].ans
  <2>1. PICK q \in Procs : sub[q][gv].st = "store" /\ a = sub[q][gv].ans
    BY <1>3
  <2>2. a.err \in {"none", "text"}
    BY <1>0, <2>1 DEF HistoryInv
  <2>3. flushed[p] => call[p].kind \in a.kinds
    BY <2>1 DEF FreshInv, Fresh, Current
  <2> QED BY <2>2, <2>3
<1> QED BY <1>1, <1>2, <1>3 DEF Source

\* A step of a query: queries under way stay so, what they have comes from a
\* source, and what goes into the cache was on its way there.
LEMMA QuerySources ==
  ASSUME TypeOK, NEW p \in Procs, NEW gv \in GVs, Query(p, gv)
  PROVE  /\ \A q \in Procs, h \in GVs :
               /\ sub[q][h].st # "off" => sub'[q][h].st # "off"
               /\ sub'[q][h].st \in {"store", "done"} =>
                    sub'[q][h] = sub[q][h] \/ Source(h, sub'[q][h].ans)
         /\ \A h \in GVs :
               \/ cache'[h] = cache[h]
               \/ \E q \in Procs : /\ sub[q][h].st = "store"
                                   /\ cache'[h].kinds = sub[q][h].ans.kinds
<1>0. /\ sub \in [Procs -> [GVs -> SubType]] /\ sub[p] \in [GVs -> SubType]
      /\ sub[p][gv] \in SubType /\ cache \in [GVs -> Entry]
  BY DEF TypeOK
<1> SUFFICES ASSUME NEW q \in Procs, NEW h \in GVs
             PROVE  /\ sub[q][h].st # "off" => sub'[q][h].st # "off"
                    /\ sub'[q][h].st \in {"store", "done"} =>
                         sub'[q][h] = sub[q][h] \/ Source(h, sub'[q][h].ans)
                    /\ \/ cache'[h] = cache[h]
                       \/ \E r \in Procs : /\ sub[r][h].st = "store"
                                           /\ cache'[h].kinds = sub[r][h].ans.kinds
  OBVIOUS
<1>1. ASSUME NEW s, sub' = [sub EXCEPT ![p][gv].st = s], s \notin {"off", "store", "done"},
             cache' = cache
      PROVE  /\ sub[q][h].st # "off" => sub'[q][h].st # "off"
             /\ sub'[q][h].st \in {"store", "done"} => sub'[q][h] = sub[q][h]
             /\ cache'[h] = cache[h]
  <2>1. sub' = [sub EXCEPT ![p] = [sub[p] EXCEPT ![gv] = [sub[p][gv] EXCEPT !.st = s]]]
    BY <1>1
  <2>2. [sub[p][gv] EXCEPT !.st = s].st = s
    BY <1>0 DEF SubType
  <2>3. CASE q = p /\ h = gv
    BY <1>0, <1>1, <2>1, <2>2, <2>3
  <2>4. CASE ~(q = p /\ h = gv)
    BY <1>0, <1>1, <2>1, <2>4
  <2> QED BY <2>3, <2>4
<1>2. ASSUME NEW a, Answered(p, gv, a), Source(gv, a)
      PROVE  /\ sub[q][h].st # "off" => sub'[q][h].st # "off"
             /\ sub'[q][h].st \in {"store", "done"} =>
                  sub'[q][h] = sub[q][h] \/ Source(h, sub'[q][h].ans)
  <2>1. sub'[q][h] = IF h = gv /\ (q = p \/ sub[q][h].st = "join")
                     THEN [st |-> "done", ans |-> a] ELSE sub[q][h]
    BY <1>2 DEF Answered
  <2>2. CASE h = gv /\ (q = p \/ sub[q][h].st = "join")
    <3>1. sub'[q][h] = [st |-> "done", ans |-> a]
      BY <2>1, <2>2
    <3> QED BY <1>2, <2>2, <3>1
  <2>3. CASE ~(h = gv /\ (q = p \/ sub[q][h].st = "join"))
    BY <2>1, <2>3
  <2> QED BY <2>2, <2>3
<1>3. CASE LeadQuery(p, gv)
  BY <1>1, <1>3 DEF LeadQuery
<1>4. CASE JoinQuery(p, gv)
  BY <1>1, <1>4 DEF JoinQuery
<1>5. CASE CacheHit(p, gv)
  <2>1. Source(gv, Cached(cache[gv]))
    BY <1>5 DEF CacheHit, Source
  <2> QED BY <1>2, <1>5, <2>1 DEF CacheHit
<1>6. CASE CacheMiss(p, gv)
  BY <1>1, <1>6 DEF CacheMiss
<1>7. CASE AskServer(p, gv)
  <2>1. PICK a \in Live(gv) :
          IF a.err \in {"none", "text"}
          THEN sub' = [sub EXCEPT ![p][gv] = [st |-> "store", ans |-> a]] /\ UNCHANGED inner
          ELSE Answered(p, gv, a)
    BY <1>7 DEF AskServer
  <2>2. cache' = cache /\ Source(gv, a)
    BY <1>7 DEF AskServer, Source
  <2>3. CASE a.err \in {"none", "text"}
    <3>1. sub' = [sub EXCEPT ![p] = [sub[p] EXCEPT ![gv] = [st |-> "store", ans |-> a]]]
      BY <2>1, <2>3
    <3>2. CASE q = p /\ h = gv
      <4>1. sub'[q][h] = [st |-> "store", ans |-> a]
        BY <1>0, <3>1, <3>2
      <4> QED BY <2>2, <3>2, <4>1
    <3>3. CASE ~(q = p /\ h = gv)
      BY <1>0, <2>2, <3>1, <3>3
    <3> QED BY <3>2, <3>3
  <2>4. CASE a.err \notin {"none", "text"}
    BY <1>2, <2>1, <2>2, <2>4
  <2> QED BY <2>3, <2>4
<1>8. CASE Store(p, gv)
  <2>1. Source(gv, sub[p][gv].ans)
    BY <1>8 DEF Store, Source
  <2>2. cache' = [cache EXCEPT ![gv] = [known |-> TRUE, kinds |-> sub[p][gv].ans.kinds]]
    BY <1>8 DEF Store
  <2>3. h # gv => cache'[h] = cache[h]
    BY <1>0, <2>2
  <2>4. h = gv => cache'[h].kinds = sub[p][h].ans.kinds
    BY <1>0, <2>2
  <2> QED BY <1>2, <1>8, <2>1, <2>3, <2>4 DEF Store
<1> QED BY <1>3, <1>4, <1>5, <1>6, <1>7, <1>8 DEF Query

LEMMA QueryFresh ==
  ASSUME TypeOK, HistoryInv, FreshInv, NEW l \in Procs, NEW h \in GVs, Query(l, h)
  PROVE  FreshInv'
<1>1. UNCHANGED <<groups, outer, call, pc, listed, got, missed, overlap, flushed>>
  BY DEF Query, LeadQuery, JoinQuery, CacheHit, CacheMiss, AskServer, Store, QueryUnchanged,
         historyVars
<1> SUFFICES ASSUME NEW p \in Procs, NEW gv \in Watched(p)' PROVE Fresh(p, gv)'
  BY DEF FreshInv
<1>2. gv \in Watched(p)
  BY <1>1 DEF Watched
<1>3. Fresh(p, gv) /\ gv \in GVs
  BY <1>2, WatchedFacts DEF FreshInv
<1>4. Serving(p)' = Serving(p)
  BY <1>1 DEF Serving
<1>5. ASSUME NEW q \in Procs, sub'[q][gv].st \in {"store", "done"}
      PROVE  \/ sub'[q][gv] = sub[q][gv]
             \/ /\ sub'[q][gv].ans.err \in {"none", "text"}
                /\ flushed[p] => call[p].kind \in sub'[q][gv].ans.kinds
  BY <1>2, <1>3, <1>5, QuerySources, SourceIsFresh
<1>6. ASSUME flushed[p] PROVE Current(p, gv)'
  <2>0. Current(p, gv)
    BY <1>3, <1>6 DEF Fresh
  <2>1. cache'[gv].known => call[p].kind \in cache'[gv].kinds
    BY <1>3, <2>0, QuerySources DEF Current
  <2>2. \A q \in Procs : sub'[q][gv].st = "store" => call[p].kind \in sub'[q][gv].ans.kinds
    BY <1>5, <1>6, <2>0 DEF Current
  <2>3. \A q \in Serving(p) :
          /\ pc[q] = "subs" => sub'[q][gv].st # "off"
          /\ sub'[q][gv].st = "done" => call[p].kind \in sub'[q][gv].ans.kinds
    BY <1>3, <1>5, <1>6, <2>0, QuerySources DEF Current, Serving
  <2> QED BY <1>1, <1>4, <2>0, <2>1, <2>2, <2>3 DEF Current
<1>7. ASSUME call[p].v = gv PROVE Answering(p, gv)'
  <2>0. Answering(p, gv)
    BY <1>3, <1>7 DEF Fresh
  <2>1. \A q \in Serving(p) : sub'[q][gv].st = "done" => sub'[q][gv].ans.err \in {"none", "text"}
    BY <1>5, <2>0 DEF Answering, Serving
  <2> QED BY <1>1, <1>4, <2>0, <2>1 DEF Answering
<1> QED BY <1>1, <1>6, <1>7, Zenon DEF Fresh

\* A step of l that is not the end of a listing, as the other calls see it: the
\* queries of l have not begun or are all still to be made.
LEMMA StepFresh ==
  ASSUME TypeOK, FlightInv, FlightInv', HistoryInv, FreshInv, NEW l \in Procs,
         UNCHANGED <<cache, groups, listed>>,
         \A q \in Procs \ {l} : pc'[q] = pc[q] /\ sub'[q] = sub[q] /\ got'[q] = got[q],
         pc'[l] \notin {"groupsStore", "got"},
         \A h \in GVs : sub'[l][h].st \in {"off", "call"},
         pc'[l] = "subs" => call'[l].v \in GVs /\ sub'[l][call'[l].v].st # "off",
         \A w \in Keys : outer'[w] = outer[w] \/ outer'[w] = l,
         NEW p \in Procs, NEW gv \in Watched(p), call'[p] = call[p], flushed'[p] = flushed[p]
  PROVE  Fresh(p, gv)'
<1>1. Fresh(p, gv) /\ gv \in GVs /\ gv \in Relevant(call[p].v) /\ call[p].v \in Keys
  BY WatchedFacts, CallFields DEF FreshInv, TypeOK
<1>2. ASSUME NEW q \in Serving(p)', q # l
      PROVE  q \in Serving(p) /\ q # p => outer[call[p].v] = q
  BY <1>1, <1>2 DEF Serving
<1>3. ASSUME NEW q \in Serving(p)', q # l
      PROVE  q \in Serving(p) /\ sub'[q] = sub[q] /\ pc'[q] = pc[q] /\ q \in Procs
  BY <1>1, <1>3 DEF Serving
<1>4. ASSUME l \in Serving(p)', pc'[l] = "subs"
      PROVE  sub'[l][gv].st # "off"
  <2>1. call'[l].v = call'[p].v
    <3>1. CASE l = p
      BY <3>1
    <3>2. CASE l # p
      <4>1. outer'[call'[p].v] = l
        BY <1>4, <3>2 DEF Serving
      <4> QED BY <1>1, <4>1 DEF FlightInv
    <3> QED BY <3>1, <3>2
  <2>2. call[p].v \in GVs
    BY <1>4, <2>1
  <2>3. call[p].v = gv
    BY <2>2, WatchedFacts, ConstantsOK
  <2> QED BY <1>4, <2>1, <2>3
<1>5. p # l => pc'[p] = pc[p] /\ got'[p] = got[p]
  OBVIOUS
<1>6. ASSUME flushed[p] PROVE Current(p, gv)'
  <2>0. Current(p, gv)
    BY <1>1, <1>6 DEF Fresh
  <2>1. \A q \in Procs : sub'[q][gv].st = "store" => call[p].kind \in sub'[q][gv].ans.kinds
    BY <1>1, <2>0 DEF Current
  <2>2. call[p].v = AllGVs =>
          /\ groups'.known => gv \in groups'.gvs
          /\ \A q \in Procs : pc'[q] = "groupsStore" => gv \in listed'[q]
    BY <2>0 DEF Current
  <2>3. ASSUME NEW q \in Serving(p)'
        PROVE  /\ pc'[q] = "subs" => sub'[q][gv].st # "off"
               /\ sub'[q][gv].st = "done" => call[p].kind \in sub'[q][gv].ans.kinds
    <3>1. CASE q = l
      BY <1>1, <1>4, <3>1
    <3>2. CASE q # l
      BY <1>3, <2>0, <3>2 DEF Current
    <3> QED BY <3>1, <3>2
  <2>4. pc'[p] = "got" => Shows(got'[p], call[p].v, gv, call[p].kind)
    BY <1>5, <2>0 DEF Current
  <2> QED BY <2>0, <2>1, <2>2, <2>3, <2>4 DEF Current
<1>7. ASSUME call[p].v = gv PROVE Answering(p, gv)'
  <2>0. Answering(p, gv)
    BY <1>1, <1>7 DEF Fresh
  <2>1. ASSUME NEW q \in Serving(p)', sub'[q][gv].st = "done"
        PROVE  sub'[q][gv].ans.err \in {"none", "text"}
    BY <1>1, <1>3, <2>0, <2>1 DEF Answering
  <2>2. pc'[p] = "got" => got'[p].err \in {"none", "text"}
    BY <1>5, <2>0 DEF Answering
  <2> QED BY <2>1, <2>2 DEF Answering
<1> QED BY <1>6, <1>7, Zenon DEF Fresh

\* A listing of all group versions begins its queries: if its call, or one that
\* waits for it, has invalidated, what is watched is among them.
LEMMA StartQueriesFresh ==
  ASSUME TypeOK, FlightInv, HistoryInv, FreshInv, NEW l \in Procs, NEW gvs,
         pc[l] \in {"groups", "groupsStore"}, StartQueries(l, gvs),
         UNCHANGED <<cache, outer, call, got, flushed>>,
         \A q \in Procs \ {l} : listed'[q] = listed[q],
         NEW p \in Procs, NEW gv \in Watched(p),
         flushed[p] /\ call[p].v = AllGVs =>
             gv \in gvs /\ (groups'.known => gv \in groups'.gvs)
  PROVE  Fresh(p, gv)'
<1>0. pc \in [Procs -> PC] /\ sub \in [Procs -> [GVs -> SubType]]
  BY DEF TypeOK
<1>1. Fresh(p, gv) /\ gv \in GVs /\ call[p].v \in Keys
  BY WatchedFacts, CallFields DEF FreshInv, TypeOK
<1>2. /\ pc'[l] = "subs" /\ \A h \in GVs : sub'[l][h] = IF h \in gvs THEN Asked ELSE Off
      /\ \A q \in Procs \ {l} : pc'[q] = pc[q] /\ sub'[q] = sub[q]
  BY <1>0 DEF StartQueries
<1>3. \A h \in GVs : sub'[l][h].st \in {"off", "call"}
  BY <1>2 DEF Asked, Off
<1>4. Serving(p)' = Serving(p)
  BY DEF Serving
<1>5. l \in Serving(p) => call[p].v = AllGVs
  <2>1. call[l].v = AllGVs
    BY DEF HistoryInv, Asks
  <2> QED BY <1>1, <2>1 DEF Serving, FlightInv
<1>6. ASSUME flushed[p] PROVE Current(p, gv)'
  <2>0. Current(p, gv)
    BY <1>1, <1>6 DEF Fresh
  <2>1. \A q \in Procs : sub'[q][gv].st = "store" => call[p].kind \in sub'[q][gv].ans.kinds
    BY <1>1, <1>2, <1>3, <2>0 DEF Current
  <2>2. call[p].v = AllGVs =>
          /\ groups'.known => gv \in groups'.gvs
          /\ \A q \in Procs : pc'[q] = "groupsStore" => gv \in listed'[q]
    BY <1>2, <1>6, <2>0 DEF Current
  <2>3. ASSUME NEW q \in Serving(p)
        PROVE  /\ pc'[q] = "subs" => sub'[q][gv].st # "off"
               /\ sub'[q][gv].st = "done" => call[p].kind \in sub'[q][gv].ans.kinds
    <3>1. CASE q = l
      BY <1>1, <1>2, <1>5, <1>6, <3>1 DEF Asked
    <3>2. CASE q # l
      BY <1>2, <2>0, <3>2 DEF Current, Serving
    <3> QED BY <3>1, <3>2 DEF Asked, Off
  <2>4. pc'[p] = "got" => Shows(got'[p], call[p].v, gv, call[p].kind)
    BY <1>2, <2>0 DEF Current
  <2> QED BY <1>4, <2>0, <2>1, <2>2, <2>3, <2>4 DEF Current
<1>7. ASSUME call[p].v = gv PROVE Answering(p, gv)'
  <2>0. Answering(p, gv)
    BY <1>1, <1>7 DEF Fresh
  <2>1. ASSUME NEW q \in Serving(p), sub'[q][gv].st = "done"
        PROVE  sub'[q][gv].ans.err \in {"none", "text"}
    BY <1>1, <1>2, <1>3, <2>0, <2>1 DEF Answering, Serving
  <2>2. pc'[p] = "got" => got'[p].err \in {"none", "text"}
    BY <1>2, <2>0 DEF Answering
  <2> QED BY <1>4, <2>1, <2>2 DEF Answering
<1> QED BY <1>6, <1>7, Zenon DEF Fresh

\* The end of a listing: the result, for p or for who waited for it, is as good
\* as the answers it is made of.
LEMMA DeliverFresh ==
  ASSUME TypeOK, FlightInv, HistoryInv, FreshInv, NEW l \in Procs, NEW r,
         pc[l] \in Leading, Deliver(l, r), UNCHANGED <<listed, call, flushed>>,
         \A q \in Procs \ {l} : sub'[q] = sub[q],
         \A h \in GVs : sub'[l][h].st = "off",
         NEW p \in Procs, NEW gv \in Watched(p),
         flushed[p] =>
             /\ cache'[gv].known => call[p].kind \in cache'[gv].kinds
             /\ call[p].v = AllGVs /\ groups'.known => gv \in groups'.gvs
             /\ l \in Serving(p) => Shows(r, call[p].v, gv, call[p].kind),
         call[p].v = gv /\ l \in Serving(p) => r.err \in {"none", "text"}
  PROVE  Fresh(p, gv)'
<1>1. Fresh(p, gv) /\ gv \in GVs /\ call[p].v \in Keys /\ l # NoProc
  BY WatchedFacts, CallFields, ConstantsOK DEF FreshInv, TypeOK
<1>2. outer'[call[p].v] = outer[call[p].v] \/ outer'[call[p].v] = NoProc
  BY <1>1 DEF Deliver, TypeOK
<1>3. Serving(p)' \subseteq Serving(p)
  BY <1>2, ConstantsOK DEF Serving
<1>4. \A q \in Procs : \/ pc'[q] = pc[q] /\ q # l
                       \/ pc'[q] = "got" /\ (q = l \/ pc[q] = "join")
  BY DEF Deliver, TypeOK
<1>5. \/ pc'[p] = pc[p] /\ got'[p] = got[p]
      \/ l \in Serving(p) /\ got'[p] = r
  <2> DEFINE v == call[l].v
             all == {l} \cup (IF outer[v] = l
                              THEN {q \in Procs : pc[q] = "join" /\ call[q].v = v} ELSE {})
  <2>1. /\ pc'[p] = IF p \in all THEN "got" ELSE pc[p]
        /\ got'[p] = IF p \in all THEN r ELSE got[p]
    BY DEF Deliver
  <2>2. p \in all => l \in Serving(p)
    BY DEF Serving
  <2> QED BY <2>1, <2>2
<1>6. ASSUME flushed[p] PROVE Current(p, gv)'
  <2>0. Current(p, gv)
    BY <1>1, <1>6 DEF Fresh
  <2>1. \A q \in Procs : sub'[q][gv].st = "store" => call[p].kind \in sub'[q][gv].ans.kinds
    BY <1>1, <2>0 DEF Current
  <2>2. \A q \in Procs : pc'[q] = "groupsStore" => pc[q] = "groupsStore"
    BY <1>4
  <2>3. ASSUME NEW q \in Serving(p)
        PROVE  /\ pc'[q] = "subs" => sub'[q][gv].st # "off"
               /\ sub'[q][gv].st = "done" => call[p].kind \in sub'[q][gv].ans.kinds
    BY <1>1, <1>4, <2>0 DEF Current, Serving
  <2>4. pc'[p] = "got" => Shows(got'[p], call[p].v, gv, call[p].kind)
    BY <1>5, <1>6, <2>0 DEF Current
  <2> QED BY <1>3, <1>6, <2>0, <2>1, <2>2, <2>3, <2>4 DEF Current
<1>7. ASSUME call[p].v = gv PROVE Answering(p, gv)'
  <2>0. Answering(p, gv)
    BY <1>1, <1>7 DEF Fresh
  <2>1. ASSUME NEW q \in Serving(p), sub'[q][gv].st = "done"
        PROVE  sub'[q][gv].ans.err \in {"none", "text"}
    BY <1>1, <2>0, <2>1 DEF Answering, Serving
  <2>2. pc'[p] = "got" => got'[p].err \in {"none", "text"}
    BY <1>5, <1>7, <2>0 DEF Answering
  <2> QED BY <1>3, <2>1, <2>2 DEF Answering
<1> QED BY <1>6, <1>7, Zenon DEF Fresh

LEMMA ListingFresh ==
  ASSUME TypeOK, FlightInv, HistoryInv, FreshInv, NEW l \in Procs, Listing(l)
  PROVE  FreshInv'
<1>0. /\ pc \in [Procs -> PC] /\ sub \in [Procs -> [GVs -> SubType]]
      /\ listed \in [Procs -> SUBSET GVs] /\ cache \in [GVs -> Entry] /\ groups \in GroupSet
      /\ Asks(l) /\ call[l].v \in Keys
  BY CallFields DEF TypeOK, HistoryInv
<1>1. UNCHANGED <<server, broken, call, missed, overlap, flushed>>
  BY DEF Listing, GroupsHit, GroupsLive, GroupsFail, GroupsStore, Aggregate, QueriesDone,
         ListingUnchanged, clusterVars, historyVars
<1> SUFFICES ASSUME NEW p \in Procs, NEW gv \in Watched(p)' PROVE Fresh(p, gv)'
  BY DEF FreshInv
<1>2. pc[p] # "idle"
  <2>1. pc'[p] # "idle"
    BY DEF Watched
  <2>2. pc[l] \in Leading /\ (pc'[p] = pc[p] \/ pc[p] \in Leading \cup {"join"})
    BY <1>0 DEF Listing, GroupsHit, GroupsLive, GroupsFail, GroupsStore, Aggregate, QueriesDone,
                StartQueries, Deliver, Leading
  <2> QED BY <2>1, <2>2 DEF Leading
<1>3. gv \in Watched(p)
  BY <1>1, <1>2, WatchedFrame
<1>4. /\ Fresh(p, gv) /\ gv \in GVs /\ call[p].v \in Keys
      /\ call[p].kind \in server[gv] /\ gv \notin broken
  BY <1>3, WatchedFacts, CallFields DEF FreshInv, TypeOK
<1>5. ~Down /\ gv \in LiveGroups
  BY <1>4 DEF Down, LiveGroups
<1>6. pc[l] # "subs" => \A h \in GVs : sub[l][h].st = "off"
  BY FlightParts
<1>7. flushed[p] => Current(p, gv)
  BY <1>4 DEF Fresh
<1>8. l \in Serving(p) => call[l].v = call[p].v
  BY <1>4, FlightParts DEF Serving
<1>9. CASE GroupsHit(l)
  <2>1. pc[l] = "groups" /\ groups.known /\ StartQueries(l, groups.gvs)
        /\ UNCHANGED <<cache, groups, outer, listed, got>>
    BY <1>9 DEF GroupsHit, cacheVars
  <2>2. flushed[p] /\ call[p].v = AllGVs => gv \in groups.gvs
    BY <1>7, <2>1 DEF Current
  <2> QED BY <1>1, <1>3, <2>1, <2>2, StartQueriesFresh
<1>10. CASE GroupsStore(l)
  <2>1. /\ pc[l] = "groupsStore" /\ StartQueries(l, listed[l])
        /\ groups' = [known |-> TRUE, gvs |-> listed[l]]
        /\ \A q \in Procs \ {l} : listed'[q] = listed[q]
        /\ UNCHANGED <<cache, outer, got>>
    BY <1>0, <1>10 DEF GroupsStore
  <2>2. flushed[p] /\ call[p].v = AllGVs => gv \in listed[l]
    BY <1>7, <2>1 DEF Current
  <2> QED BY <1>1, <1>3, <2>1, <2>2, StartQueriesFresh
<1>11. CASE GroupsLive(l)
  <2>1. /\ pc' = [pc EXCEPT ![l] = "groupsStore"] /\ listed' = [listed EXCEPT ![l] = LiveGroups]
        /\ UNCHANGED <<cache, groups, outer, sub, got>>
    BY <1>11 DEF GroupsLive, cacheVars
  <2>2. /\ pc'[l] = "groupsStore" /\ gv \in listed'[l]
        /\ \A q \in Procs \ {l} : pc'[q] = pc[q] /\ listed'[q] = listed[q]
    BY <1>0, <1>5, <2>1
  <2>3. Serving(p)' = Serving(p)
    BY <1>1, <2>1 DEF Serving
  <2>4. ASSUME flushed[p] PROVE Current(p, gv)'
    <3>0. Current(p, gv)
      BY <1>7, <2>4
    <3>1. \A q \in Procs : pc'[q] = "groupsStore" => (call[p].v = AllGVs => gv \in listed'[q])
      BY <2>2, <3>0 DEF Current
    <3>2. \A q \in Serving(p) : pc'[q] = "subs" => sub[q][gv].st # "off"
      BY <2>2, <3>0 DEF Current, Serving
    <3>3. pc'[p] = "got" => Shows(got[p], call[p].v, gv, call[p].kind)
      BY <2>2, <3>0 DEF Current
    <3> QED BY <1>1, <2>1, <2>3, <3>0, <3>1, <3>2, <3>3 DEF Current
  <2>5. ASSUME call[p].v = gv PROVE Answering(p, gv)'
    BY <1>1, <1>4, <2>1, <2>2, <2>3, <2>5 DEF Fresh, Answering
  <2> QED BY <1>1, <2>4, <2>5, Zenon DEF Fresh
<1>12. CASE GroupsFail(l)
  BY <1>5, <1>12 DEF GroupsFail
<1>13. CASE Aggregate(l)
  <2> DEFINE gvs == IF groups.known THEN groups.gvs ELSE LiveGroups
             now == [h \in gvs |->
                       IF cache[h].known THEN Cached(cache[h])
                       ELSE CHOOSE a \in Live(h) : a.err # "status"]
  <2>1. /\ pc[l] = "aggregate"
        /\ groups' = [known |-> TRUE, gvs |-> gvs]
        /\ cache' = [h \in GVs |-> IF h \in gvs /\ now[h].err # "other"
                                   THEN [known |-> TRUE, kinds |-> now[h].kinds]
                                   ELSE cache[h]]
        /\ Deliver(l, Collect(AllGVs, now))
        /\ UNCHANGED <<listed, sub>>
    BY <1>5, <1>13 DEF Aggregate
  <2>2. call[l].v = AllGVs
    BY <1>0, <2>1 DEF Asks
  <2>3. flushed[p] /\ call[p].v = AllGVs => gv \in gvs
    BY <1>5, <1>7 DEF Current
  <2>4. gv \in gvs => Source(gv, now[gv])
    BY <1>4, LiveChoice DEF Source
  <2>5. flushed[p] /\ gv \in gvs => call[p].kind \in now[gv].kinds
    <3> HIDE DEF now, gvs
    <3> QED BY <1>3, <2>4, SourceIsFresh
  <2>6. flushed[p] /\ gv \in gvs => Shows(Collect(AllGVs, now), AllGVs, gv, call[p].kind)
    <3>1. DOMAIN now = gvs
      OBVIOUS
    <3>2. gvs \subseteq Relevant(AllGVs) /\ Relevant(AllGVs) \subseteq GVs
      BY <1>0 DEF GroupSet, LiveGroups, Relevant
    <3> HIDE DEF now, gvs
    <3> QED BY <2>5, <3>1, <3>2, AnswerIsShown
  <2> HIDE DEF now, gvs
  <2>7. flushed[p] /\ cache'[gv].known => call[p].kind \in cache'[gv].kinds
    <3>1. cache'[gv] = IF gv \in gvs /\ now[gv].err # "other"
                       THEN [known |-> TRUE, kinds |-> now[gv].kinds] ELSE cache[gv]
      BY <1>4, <2>1
    <3>2. flushed[p] /\ cache[gv].known => call[p].kind \in cache[gv].kinds
      BY <1>7 DEF Current
    <3> QED BY <2>5, <3>1, <3>2
  <2>8. flushed[p] /\ l \in Serving(p) => Shows(Collect(AllGVs, now), call[p].v, gv, call[p].kind)
    BY <1>8, <2>2, <2>3, <2>6
  <2>9. call[p].v = gv => l \notin Serving(p)
    BY <1>4, <1>8, <2>2, ConstantsOK
  <2>10. flushed[p] /\ call[p].v = AllGVs => gv \in groups'.gvs
    BY <2>1, <2>3
  <2>11. /\ \A h \in GVs : sub'[l][h].st = "off"
         /\ \A q \in Procs \ {l} : sub'[q] = sub[q]
    BY <1>6, <2>1
  <2> DEFINE r == Collect(AllGVs, now)
  <2>12. flushed[p] =>
           /\ cache'[gv].known => call[p].kind \in cache'[gv].kinds
           /\ call[p].v = AllGVs /\ groups'.known => gv \in groups'.gvs
           /\ l \in Serving(p) => Shows(r, call[p].v, gv, call[p].kind)
    BY <2>7, <2>8, <2>10, Zenon
  <2>13. /\ pc[l] \in Leading /\ Deliver(l, r) /\ UNCHANGED <<listed, call, flushed>>
         /\ call[p].v = gv /\ l \in Serving(p) => r.err \in {"none", "text"}
    BY <1>1, <2>1, <2>9 DEF Leading
  <2> HIDE DEF r
  <2> QED BY <1>3, <2>11, <2>12, <2>13, DeliverFresh
<1>14. CASE QueriesDone(l)
  <2> DEFINE ans == [h \in Active(l) |-> sub[l][h].ans]
             r   == Collect(call[l].v, ans)
  <2>1. /\ pc[l] = "subs" /\ \A h \in Active(l) : sub[l][h].st = "done"
        /\ Deliver(l, r)
        /\ sub' = [sub EXCEPT ![l] = [h \in GVs |-> Off]]
        /\ UNCHANGED <<cache, groups, listed>>
    BY <1>14 DEF QueriesDone, Listed, cacheVars
  <2>2. /\ \A q \in Procs \ {l} : sub'[q] = sub[q]
        /\ \A h \in GVs : sub'[l][h].st = "off"
    BY <1>0, <2>1 DEF Off
  <2>3. ASSUME flushed[p], l \in Serving(p) PROVE Shows(r, call[p].v, gv, call[p].kind)
    <3>1. sub[l][gv].st # "off"
      BY <1>7, <2>1, <2>3 DEF Current
    <3>2. gv \in Active(l)
      BY <1>4, <3>1 DEF Active
    <3>3. call[p].kind \in sub[l][gv].ans.kinds
      BY <1>7, <2>1, <2>3, <3>2 DEF Current
    <3>4. Active(l) \subseteq Relevant(call[l].v) /\ Relevant(call[l].v) \subseteq GVs
      BY <1>0, <2>1 DEF Active, Asks, Relevant, Keys
    <3>5. DOMAIN ans = Active(l) /\ ans[gv] = sub[l][gv].ans
      BY <3>2
    <3> HIDE DEF ans
    <3>6. Shows(r, call[l].v, gv, call[p].kind)
      BY <3>2, <3>3, <3>4, <3>5, AnswerIsShown
    <3> HIDE DEF r
    <3> QED BY <1>8, <2>3, <3>6
  <2>4. ASSUME call[p].v = gv, l \in Serving(p) PROVE r.err \in {"none", "text"}
    <3>1. call[l].v = gv /\ gv # AllGVs
      BY <1>4, <1>8, <2>4, ConstantsOK
    <3>2. Active(l) = {gv}
      BY <1>0, <1>4, <2>1, <3>1 DEF Active, Asks
    <3>3. sub[l][gv].ans.err \in {"none", "text"}
      BY <1>4, <2>1, <2>4, <3>2 DEF Fresh, Answering
    <3>4. DOMAIN ans = {gv} /\ ans[gv].err \in {"none", "text"}
      BY <3>2, <3>3
    <3> HIDE DEF ans
    <3> DEFINE errs == {ans[h].err : h \in DOMAIN ans} \ {"none"}
    <3>5. r.err = IF errs = {} THEN "none" ELSE CHOOSE e \in errs : TRUE
      BY <3>1 DEF Collect
    <3>6. errs \subseteq {"text"}
      BY <3>4
    <3> HIDE DEF errs
    <3>7. errs # {} => (CHOOSE e \in errs : TRUE) \in errs
      OBVIOUS
    <3> HIDE DEF r
    <3> QED BY <3>5, <3>6, <3>7
  <2>5. flushed[p] =>
          /\ cache'[gv].known => call[p].kind \in cache'[gv].kinds
          /\ call[p].v = AllGVs /\ groups'.known => gv \in groups'.gvs
    BY <1>7, <2>1 DEF Current
  <2> HIDE DEF r, ans
  <2> QED BY <1>1, <1>3, <2>1, <2>2, <2>3, <2>4, <2>5, DeliverFresh DEF Leading
<1> QED BY <1>9, <1>10, <1>11, <1>12, <1>13, <1>14 DEF Listing

\* With no flight of another goroutine in progress, nothing about gv is in flight.
LEMMA NoFlight ==
  ASSUME TypeOK, FlightInv, NEW p \in Procs, NEW v \in Keys, NEW gv \in GVs, gv \in Relevant(v),
         ~InFlight(p, v), pc[p] \notin Leading
  PROVE  /\ \A q \in Procs : sub[q][gv].st # "store"
         /\ v = AllGVs => \A q \in Procs : pc[q] # "groupsStore"
         /\ \A q \in Procs : outer[v] # q
<1>1. inner[gv] = NoProc
  BY DEF InFlight
<1>2. \A q \in Procs : sub[q][gv].st # "store"
  BY <1>1, FlightParts, ConstantsOK DEF Busy
<1>3. outer[v] # p
  BY DEF FlightInv
<1>4. \A q \in Procs : outer[v] # q
  BY <1>3, ConstantsOK DEF InFlight
<1> QED BY <1>2, <1>4 DEF InFlight

LEMMA StartFresh ==
  ASSUME TypeOK, FlightInv, FlightInv', HistoryInv, FreshInv,
         NEW l \in Procs, NEW c \in Calls, Start(l, c)
  PROVE  FreshInv'
<1>0. /\ pc \in [Procs -> PC] /\ c.v \in Keys /\ pc[l] = "idle"
  BY CallFields DEF TypeOK, Start
<1>1. /\ call' = [call EXCEPT ![l] = c]
      /\ missed' = [missed EXCEPT ![l] = {gv \in GVs : ~Serves(gv, c.kind)}]
      /\ overlap' = [overlap EXCEPT ![l] = InFlight(l, c.v)]
      /\ UNCHANGED <<cache, groups, outer, got, flushed, listed>>
  BY DEF Start, CallsUnchanged, cacheVars
<1>2. /\ call'[l] = c /\ overlap'[l] = InFlight(l, c.v)
      /\ \A q \in Procs \ {l} :
           call'[q] = call[q] /\ missed'[q] = missed[q] /\ overlap'[q] = overlap[q]
  BY <1>1 DEF TypeOK
<1>3. /\ \A h \in GVs : sub'[l][h].st \in {"off", "call"}
      /\ pc'[l] \notin {"groupsStore", "got"}
      /\ pc'[l] = "subs" => c.v \in GVs /\ sub'[l][c.v].st # "off"
      /\ \A q \in Procs \ {l} : pc'[q] = pc[q] /\ sub'[q] = sub[q]
  <2>1. CASE c.op = "direct"
    <3>1. Uncached(l, c.v)
      BY <2>1 DEF Start
    <3> QED BY <1>0, <1>2, <3>1, UncachedAsks
  <2>2. CASE c.op # "direct"
    <3>1. PICK s \in {"lock", "list"} : pc' = [pc EXCEPT ![l] = s] /\ sub' = sub
      BY <2>2 DEF Start
    <3>2. pc'[l] = s /\ \A q \in Procs \ {l} : pc'[q] = pc[q]
      BY <1>0, <3>1
    <3>3. \A h \in GVs : sub[l][h].st = "off"
      BY <1>0, FlightParts
    <3> QED BY <3>1, <3>2, <3>3
  <2> QED BY <2>1, <2>2
<1> SUFFICES ASSUME NEW p \in Procs, NEW gv \in Watched(p)' PROVE Fresh(p, gv)'
  BY DEF FreshInv
<1>4. CASE p # l
  <2>1. gv \in Watched(p)
    <3>1. pc'[p] = pc[p] /\ call'[p] = call[p] /\ missed'[p] = missed[p] /\ overlap'[p] = overlap[p]
      BY <1>2, <1>3, <1>4
    <3>2. Watched(p)' = Watched(p)
      BY <3>1, Zenon DEF Watched, Relevant
    <3> QED BY <3>2
  <2>2. call'[p] = call[p] /\ flushed'[p] = flushed[p]
    BY <1>1, <1>2, <1>4
  <2> QED BY <1>1, <1>2, <1>3, <2>1, <2>2, StepFresh
<1>5. CASE p = l
  <2>1. ~overlap'[p] /\ gv \in Relevant(c.v)
    BY <1>2, <1>5 DEF Watched, Relevant
  <2>2. ~InFlight(l, c.v)
    BY <1>2, <1>5, <2>1, Zenon
  <2>3. gv \in GVs
    BY <1>0, <2>1 DEF Relevant, Keys
  <2>4. \A q \in Procs : outer'[c.v] # q
    BY <1>0, <1>1, <2>1, <2>2, <2>3, NoFlight DEF Leading
  <2>5. Serving(p)' = {l}
    BY <1>2, <1>5, <2>4 DEF Serving
  <2>6. ~flushed'[p]
    <3>1. ~flushed[l]
      BY <1>0, Zenon DEF HistoryInv, Remembers
    <3> QED BY <1>1, <1>5, <3>1, Zenon
  <2>7. Answering(p, gv)'
    BY <1>3, <1>5, <2>3, <2>5 DEF Answering
  <2> QED BY <2>6, <2>7, Zenon DEF Fresh
<1> QED BY <1>4, <1>5

\* After an invalidation, a call that goes on has nothing to be handed yet.
LEMMA InvalidateFresh ==
  ASSUME TypeOK, FlightInv, HistoryInv, FreshInv, NEW l \in Procs, Invalidate(l)
  PROVE  FreshInv'
<1>0. /\ pc \in [Procs -> PC] /\ call \in [Procs -> Calls] /\ call[l].v \in Keys
      /\ flushed \in [Procs -> BOOLEAN] /\ overlap \in [Procs -> BOOLEAN] /\ pc[l] = "inv"
  BY CallFields DEF TypeOK, Invalidate
<1>1. UNCHANGED <<outer, sub, listed>>
  BY DEF Invalidate, CallsUnchanged
<1>2. \A h \in GVs : ~cache'[h].known
  BY DEF Invalidate, Forget, Unknown
<1>3. ~groups'.known
  BY DEF Invalidate, Forget, NoGroups
<1>4. /\ pc'[l] \in {"idle", "list"}
      /\ \A q \in Procs \ {l} :
           /\ pc'[q] = pc[q] /\ call'[q] = call[q] /\ got'[q] = got[q]
           /\ missed'[q] = missed[q] /\ overlap'[q] = overlap[q] /\ flushed'[q] = flushed[q]
  BY <1>0 DEF Invalidate, Leave, TypeOK
<1>5. \A h \in GVs : sub[l][h].st = "off"
  BY <1>0, FlightParts
<1> SUFFICES ASSUME NEW p \in Procs, NEW gv \in Watched(p)' PROVE Fresh(p, gv)'
  BY DEF FreshInv
<1>6. CASE p # l
  <2>1. pc'[p] = pc[p] /\ call'[p] = call[p] /\ got'[p] = got[p] /\ missed'[p] = missed[p]
          /\ overlap'[p] = overlap[p] /\ flushed'[p] = flushed[p]
    BY <1>4, <1>6
  <2>2. Watched(p)' = Watched(p)
    BY <2>1, Zenon DEF Watched, Relevant
  <2>3. Fresh(p, gv) /\ gv \in GVs
    BY <2>2, WatchedFacts DEF FreshInv
  <2>4. Serving(p)' = Serving(p)
    BY <1>1, <2>1 DEF Serving
  <2>5. \A q \in Procs : pc'[q] \in {"subs", "groupsStore"} => pc[q] = pc'[q]
    BY <1>4
  <2>6. ASSUME flushed[p] PROVE Current(p, gv)'
    <3>0. Current(p, gv)
      BY <2>3, <2>6 DEF Fresh
    <3>1. \A q \in Serving(p) : pc'[q] = "subs" => sub[q][gv].st # "off"
      BY <2>5, <3>0 DEF Current, Serving
    <3>2. \A q \in Procs : pc'[q] = "groupsStore" => (call[p].v = AllGVs => gv \in listed[q])
      BY <2>5, <3>0 DEF Current
    <3>3. ~cache'[gv].known
      BY <1>2, <2>3
    <3>4. \A q \in Procs : sub[q][gv].st = "store" => call[p].kind \in sub[q][gv].ans.kinds
      BY <3>0 DEF Current
    <3>5. \A q \in Serving(p) : sub[q][gv].st = "done" => call[p].kind \in sub[q][gv].ans.kinds
      BY <3>0 DEF Current
    <3>6. pc[p] = "got" => Shows(got[p], call[p].v, gv, call[p].kind)
      BY <3>0 DEF Current
    <3> QED BY <1>1, <1>3, <2>1, <2>4, <3>1, <3>2, <3>3, <3>4, <3>5, <3>6 DEF Current
  <2>7. ASSUME call[p].v = gv PROVE Answering(p, gv)'
    BY <1>1, <2>1, <2>3, <2>4, <2>7 DEF Fresh, Answering
  <2> QED BY <2>1, <2>6, <2>7, Zenon DEF Fresh
<1>7. CASE p = l
  <2>1. pc'[l] # "idle" /\ ~overlap'[l] /\ gv \in Relevant(call[l].v)'
    BY <1>7 DEF Watched
  <2>2. /\ call[l].op # "invalidate"
        /\ overlap' = [overlap EXCEPT ![l] = InFlight(l, call[l].v)]
        /\ call' = call /\ pc' = [pc EXCEPT ![l] = "list"]
    BY <1>0, <2>1 DEF Invalidate, Leave
  <2>3. ~InFlight(l, call[l].v)
    BY <1>0, <2>1, <2>2, Zenon
  <2>4. gv \in Relevant(call[l].v) /\ gv \in GVs /\ pc'[l] = "list"
    BY <1>0, <2>1, <2>2 DEF Relevant, Keys
  <2>5. /\ \A q \in Procs : sub[q][gv].st # "store"
        /\ call[l].v = AllGVs => \A q \in Procs : pc[q] # "groupsStore"
        /\ \A q \in Procs : outer[call[l].v] # q
    BY <1>0, <2>3, <2>4, NoFlight DEF Leading
  <2>6. Serving(l)' = {l}
    BY <1>1, <2>2, <2>5 DEF Serving
  <2>7. \A q \in Procs : pc'[q] = "groupsStore" => pc[q] = "groupsStore"
    BY <1>4
  <2>8. Current(l, gv)'
    BY <1>1, <1>2, <1>3, <1>5, <2>2, <2>4, <2>5, <2>6, <2>7 DEF Current
  <2>9. Answering(l, gv)'
    BY <1>1, <1>5, <2>4, <2>6 DEF Answering
  <2> QED BY <1>7, <2>8, <2>9, Zenon DEF Fresh
<1> QED BY <1>6, <1>7

LEMMA GoroutineFresh ==
  ASSUME TypeOK, FlightInv, FlightInv', HistoryInv, FreshInv, NEW l \in Procs, Goroutine(l) \/ Lock(l)
  PROVE  FreshInv'
<1>0. /\ pc \in [Procs -> PC] /\ call \in [Procs -> Calls] /\ call[l].v \in Keys
      /\ outer \in [Keys -> Procs \cup {NoProc}] /\ got \in [Procs -> ListResult]
      /\ missed \in [Procs -> SUBSET GVs] /\ overlap \in [Procs -> BOOLEAN]
      /\ flushed \in [Procs -> BOOLEAN]
  BY CallFields DEF TypeOK
<1>1. ASSUME UNCHANGED <<cache, groups, listed, call, missed, overlap, flushed>>,
             \A q \in Procs \ {l} : pc'[q] = pc[q] /\ sub'[q] = sub[q] /\ got'[q] = got[q],
             pc[l] # "idle", pc'[l] \notin {"groupsStore", "got"},
             \A h \in GVs : sub'[l][h].st \in {"off", "call"},
             pc'[l] = "subs" => call[l].v \in GVs /\ sub'[l][call[l].v].st # "off",
             \A w \in Keys : outer'[w] = outer[w] \/ outer'[w] = l
      PROVE  FreshInv'
  <2> SUFFICES ASSUME NEW p \in Procs, NEW gv \in Watched(p)' PROVE Fresh(p, gv)'
    BY DEF FreshInv
  <2>1. pc[p] # "idle"
    BY <1>1 DEF Watched
  <2>2. gv \in Watched(p)
    BY <1>1, <2>1, WatchedFrame
  <2> QED BY <1>1, <2>2, StepFresh
<1>2. CASE LeadList(l)
  <2>1. /\ pc[l] = "list" /\ outer' = [outer EXCEPT ![call[l].v] = l] /\ Uncached(l, call[l].v)
        /\ UNCHANGED <<cache, groups, listed, call, got, missed, overlap, flushed>>
    BY <1>2 DEF LeadList, CallsUnchanged, cacheVars, historyVars
  <2>2. /\ pc'[l] \notin {"groupsStore", "got"}
        /\ \A h \in GVs : sub'[l][h].st \in {"off", "call"}
        /\ pc'[l] = "subs" => call[l].v \in GVs /\ sub'[l][call[l].v].st # "off"
        /\ \A q \in Procs \ {l} : pc'[q] = pc[q] /\ sub'[q] = sub[q]
    BY <1>0, <2>1, UncachedAsks
  <2>3. \A w \in Keys : outer'[w] = outer[w] \/ outer'[w] = l
    BY <1>0, <2>1
  <2> QED BY <1>1, <2>1, <2>2, <2>3
<1>3. CASE JoinList(l) \/ RetryList(l) \/ RetryResource(l) \/ Lock(l)
  <2>1. /\ pc[l] \in {"list", "got", "lock"}
        /\ \E s \in {"join", "lock", "inv"} : pc' = [pc EXCEPT ![l] = s]
        /\ UNCHANGED <<cache, groups, listed, outer, sub, call, missed, overlap, flushed>>
        /\ \A q \in Procs \ {l} : got'[q] = got[q]
    BY <1>0, <1>3 DEF JoinList, RetryList, RetryResource, AskAgain, Lock, CallsUnchanged,
                      cacheVars, historyVars
  <2>2. /\ pc'[l] \in {"join", "lock", "inv"} /\ \A q \in Procs \ {l} : pc'[q] = pc[q]
    BY <1>0, <2>1
  <2>3. \A h \in GVs : sub[l][h].st = "off"
    BY <2>1, FlightParts
  <2> QED BY <1>1, <2>1, <2>2, <2>3
<1>4. CASE Return(l)
  <2>1. /\ pc[l] = "got" /\ Leave(l) /\ UNCHANGED <<cache, groups, listed, outer, sub>>
    BY <1>4 DEF Return, Returning, CallsUnchanged, cacheVars
  <2>2. /\ pc'[l] = "idle"
        /\ \A q \in Procs \ {l} :
             /\ pc'[q] = pc[q] /\ call'[q] = call[q] /\ got'[q] = got[q]
             /\ missed'[q] = missed[q] /\ overlap'[q] = overlap[q] /\ flushed'[q] = flushed[q]
    BY <1>0, <2>1 DEF Leave
  <2>3. \A h \in GVs : sub[l][h].st = "off"
    BY <2>1, FlightParts
  <2> SUFFICES ASSUME NEW p \in Procs, NEW gv \in Watched(p)' PROVE Fresh(p, gv)'
    BY DEF FreshInv
  <2>4. p # l
    BY <2>2 DEF Watched
  <2>5. pc'[p] = pc[p] /\ call'[p] = call[p] /\ missed'[p] = missed[p] /\ overlap'[p] = overlap[p]
    BY <2>2, <2>4
  <2>6. Watched(p)' = Watched(p)
    BY <2>5, Zenon DEF Watched, Relevant
  <2>7. /\ call'[p] = call[p] /\ flushed'[p] = flushed[p] /\ gv \in Watched(p)
    BY <2>2, <2>4, <2>6
  <2> QED BY <2>1, <2>2, <2>3, <2>7, StepFresh
<1>5. CASE Invalidate(l)
  BY <1>5, InvalidateFresh
<1> QED BY <1>2, <1>3, <1>4, <1>5 DEF Goroutine

\* Nothing that is handed about changes with the cluster, and what is watched
\* can only become less; a cache that expires is as one invalidated.
LEMMA EnvironmentFresh ==
  ASSUME TypeOK, HistoryInv, FreshInv, Environment
  PROVE  FreshInv'
<1>1. UNCHANGED <<outer, call, pc, listed, sub, got, overlap, flushed>>
  BY DEF Environment, Register, Unregister, Break, Repair, Expire, Observe, localVars, historyVars
<1>2. \A p \in Procs : pc[p] # "idle" => missed[p] \subseteq missed'[p]
  <2>1. CASE Expire
    BY <2>1 DEF Expire, historyVars
  <2>2. CASE ~Expire
    <3>1. Observe
      BY <2>2 DEF Environment, Register, Unregister, Break, Repair
    <3> QED BY <3>1 DEF Observe
  <2> QED BY <2>1, <2>2
<1>3. /\ \A gv \in GVs : cache'[gv] = cache[gv] \/ ~cache'[gv].known
      /\ groups' = groups \/ ~groups'.known
  <2>1. CASE Expire
    BY <2>1 DEF Expire, Unknown, NoGroups, TypeOK
  <2>2. CASE ~Expire
    BY <2>2 DEF Environment, Register, Unregister, Break, Repair, Observe, cacheVars
  <2> QED BY <2>1, <2>2
<1> SUFFICES ASSUME NEW p \in Procs, NEW gv \in Watched(p)' PROVE Fresh(p, gv)'
  BY DEF FreshInv
<1>4. pc[p] # "idle"
  BY <1>1 DEF Watched
<1>5. gv \in Watched(p)
  BY <1>1, <1>2, <1>4, WatchedFrame
<1>6. Fresh(p, gv) /\ gv \in GVs
  BY <1>5, WatchedFacts DEF FreshInv
<1>7. Serving(p)' = Serving(p)
  BY <1>1 DEF Serving
<1>8. ASSUME flushed[p] PROVE Current(p, gv)'
  BY <1>1, <1>3, <1>6, <1>7, <1>8 DEF Fresh, Current
<1>9. ASSUME call[p].v = gv PROVE Answering(p, gv)'
  BY <1>1, <1>6, <1>7, <1>9 DEF Fresh, Answering
<1> QED BY <1>1, <1>8, <1>9, Zenon DEF Fresh

LEMMA InitFresh == Init => FreshInv
<1> SUFFICES ASSUME Init, NEW p \in Procs PROVE Watched(p) = {}
  BY DEF FreshInv
<1>1. pc[p] = "idle"
  BY DEF Init
<1> QED BY <1>1 DEF Watched

LEMMA NextFresh ==
  TypeOK /\ FlightInv /\ FlightInv' /\ HistoryInv /\ FreshInv /\ [Next]_vars => FreshInv'
<1> SUFFICES ASSUME TypeOK, FlightInv, FlightInv', HistoryInv, FreshInv, [Next]_vars PROVE FreshInv'
  OBVIOUS
<1>1. CASE UNCHANGED vars
  BY <1>1 DEF FreshInv, Watched, Fresh, Current, Answering, Serving, Relevant, vars,
              cacheVars, localVars, historyVars
<1>2. CASE Next
  BY <1>2, StartFresh, QueryFresh, ListingFresh, GoroutineFresh, EnvironmentFresh DEF Next
<1> QED BY <1>1, <1>2

\* Whatever is cached, asked, listed or handed about a group version that has
\* served the kind all through a call is current, once the call has invalidated
\* with nobody else's flight in progress: the cache and the answers under way have
\* the kind, and the lists show it, in that group version or in one that its
\* group puts before it.
THEOREM FreshnessIsKept == Spec => []FreshInv
  BY TypeCorrect, FlightsAgree, HistoryAgrees, InitFresh, NextFresh, PTL DEF Spec

\* The lists that a call returns after it has invalidated the cache, while no
\* other goroutine had a flight in progress, hold every kind that was served all
\* through the call, in the group version that served it or in one of its group
\* that goes before it and answered with it too (client.go:459-483, 597).
THEOREM ListsAreCurrent == Spec => []FlushedListIsCurrent
<1>1. ASSUME FreshInv PROVE FlushedListIsCurrent
  <2> SUFFICES ASSUME NEW p \in Procs, Returning(p), flushed[p], ~overlap[p],
                      NEW gv \in Relevant(call[p].v) \ missed[p]
               PROVE  Shows(got[p], call[p].v, gv, call[p].kind)
    BY DEF FlushedListIsCurrent
  <2>1. pc[p] = "got" /\ gv \in Watched(p)
    BY DEF Returning, Watched
  <2> QED BY <1>1, <2>1 DEF FreshInv, Fresh, Current
<1> QED BY <1>1, FreshnessIsKept, PTL

\* APIResource finds a kind that was served all through the call, whatever was
\* cached and whatever else fails (client.go:574-606, 621-653).
THEOREM SteadyKindIsFound == Spec => []SteadyKindFound
<1>1. ASSUME TypeOK, HistoryInv, FreshInv PROVE SteadyKindFound
  <2> SUFFICES ASSUME NEW p \in Procs, Returning(p), call[p].op = "resource", ~overlap[p],
                      ~(Relevant(call[p].v) \subseteq missed[p]),
                      Resolve(got[p], call[p].kind) # "found"
               PROVE  /\ call[p].v = AllGVs
                      /\ ~flushed[p]
                      /\ got[p] = [err |-> "other", lists |-> NoLists]
    BY DEF SteadyKindFound
  <2>1. pc[p] = "got" /\ ~ListMustRetry(p) /\ ~ResourceMustRetry(p) /\ got[p] \in ListResult
    BY <1>1 DEF Returning, TypeOK
  <2>2. PICK gv : gv \in Watched(p)
    BY <2>1 DEF Watched
  <2>3. gv \in GVs /\ Fresh(p, gv) /\ (call[p].v # AllGVs => call[p].v = gv)
    BY <1>1, <2>2, WatchedFacts DEF FreshInv
  <2>4. ~Shows(got[p], call[p].v, gv, call[p].kind)
    <3>1. ASSUME NEW h \in InPlaceOf(call[p].v, gv), call[p].kind \in got[p].lists[h]
          PROVE  FALSE
      <4>1. h \in GVs
        BY <2>3, <3>1 DEF InPlaceOf, Relevant
      <4>2. got[p].lists # NoLists
        BY <3>1, <4>1 DEF NoLists
      <4> QED BY <3>1, <4>1, <4>2 DEF Resolve
    <3> QED BY <3>1 DEF Shows
  <2>5. ~flushed[p]
    BY <2>1, <2>3, <2>4 DEF Fresh, Current
  <2>6. ~retriedL[p] /\ ~retriedA[p]
    BY <1>1, <2>1, <2>5, Zenon DEF HistoryInv, Remembers
  <2>7. got[p].err # "text"
    BY <2>1, <2>6, Zenon DEF ListMustRetry
  <2>8. Resolve(got[p], call[p].kind) \notin {"status", "notfound"}
    BY <2>1, <2>6, Zenon DEF ResourceMustRetry
  <2>9. got[p].err # "none" /\ got[p].lists = NoLists /\ got[p].err # "status"
    BY <2>8 DEF Resolve
  <2>10. got[p].err = "other"
    BY <2>1, <2>7, <2>9 DEF ListResult, BackendError
  <2>11. got[p] = [err |-> "other", lists |-> NoLists]
    BY <2>1, <2>9, <2>10 DEF ListResult
  <2>12. call[p].v = AllGVs
    BY <2>1, <2>3, <2>10 DEF Fresh, Answering
  <2> QED BY <2>5, <2>11, <2>12
<1> QED BY <1>1, TypeCorrect, HistoryAgrees, FreshnessIsKept, PTL

=============================================================================
