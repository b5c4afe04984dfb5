----------------------------- MODULE Discovery -----------------------------
(***************************************************************************)
(* The discovery half of Client (client/client.go): APIResourceList,       *)
(* APIResource, GroupVersionResource, InvalidateDiscoveryCache and the     *)
(* discovery client handed out by ToDiscoveryClient and ToRESTMapper,      *)
(* called by concurrent goroutines.                                        *)
(*                                                                         *)
(* A call for an apiVersion goes through two levels of singleflight:       *)
(*   outer = Client.discoverySF, keyed by the requested apiVersion;        *)
(*   inner = sfCachedDiscovery.sf, keyed by group version.                 *)
(* Below them is the cached discovery backend, which is not part of the    *)
(* repository: it answers from its cache, or asks the API server and       *)
(* stores the answer in a later step.                                      *)
(***************************************************************************)
EXTENDS Naturals, FiniteSets

CONSTANTS
    Procs,       \* goroutines that share one Client
    GVs,         \* group versions the cluster may serve
    Kinds,       \* resource kinds
    Calls,       \* the calls goroutines make, a subset of CallType
    Backends,    \* backends Init may choose: aggregated (TRUE) or not
    MaxChanges,  \* bound on the changes of the cluster in one behaviour
    AllGVs,      \* the empty apiVersion: all preferred resources
    Group,       \* Group[gv]: the API group gv is a version of
    Rank,        \* Rank[gv]: its place in the group, the preferred version
                 \* first, the others as the API server lists them
    NoProc       \* nobody

Keys == GVs \cup {AllGVs}

CallType == [op : {"resource", "list", "direct", "invalidate"},
             v : Keys, kind : Kinds]

ASSUME ConstantsOK ==
    /\ AllGVs \notin GVs
    /\ NoProc \notin Procs
    /\ Calls \subseteq CallType
    /\ Calls # {}
    /\ Backends \subseteq BOOLEAN
    /\ MaxChanges \in Nat

\* The versions of one group have an order.
ASSUME VersionsOK ==
    /\ DOMAIN Group = GVs
    /\ Rank \in [GVs -> Nat]
    /\ \A gv, h \in GVs : Group[gv] = Group[h] /\ Rank[gv] = Rank[h] => gv = h

VARIABLES
    server,   \* server[gv]: kinds served in gv; {} when gv does not exist
    broken,   \* group versions whose API controller does not answer
    changes,  \* number of cluster changes so far
    aggregated, \* the backend keeps its cache in memory, as the environment
              \* of Init decided, and offers aggregated discovery
    cache,    \* backend cache per group version
    groups,   \* backend cache of the group list
    mu,       \* holder of sfCachedDiscovery.mu
    outer,    \* leader of the discoverySF flight of each key
    inner,    \* leader of the sf flight of each group version
    call,     \* the call each goroutine is in
    pc,       \* where each goroutine is
    listed,   \* group list a goroutine has fetched and not stored yet
    sub,      \* per goroutine and group version: the backend query it needs
    got,      \* what apiResourceList returned to each goroutine
    retriedL, \* APIResourceList has invalidated and asked again
    retriedA, \* APIResource has invalidated and asked again
    missed,   \* history: group versions that failed to serve the kind
              \* asked for at some moment of the call
    overlap,  \* history: a flight of another goroutine was in progress when
              \* the call began or when it last invalidated
    flushed   \* history: the call has invalidated the cache

clusterVars == <<server, broken, changes, aggregated>>
cacheVars   == <<cache, groups>>
localVars   == <<call, pc, listed, sub, got, retriedL, retriedA>>
historyVars == <<missed, overlap, flushed>>
vars == <<clusterVars, cacheVars, mu, outer, inner, localVars, historyVars>>

-----------------------------------------------------------------------------
(* Values *)

\* An error is known by how the retry code classifies it. "text": its message
\* contains "not found" (errors.errorString); "status": IsNotFound holds but
\* the message does not match; "notfound": made by apiResource, both hold.
BackendError == {"none", "text", "status", "other"}
Outcome == BackendError \cup {"found", "notfound"}

Answer   == [err : BackendError, kinds : SUBSET Kinds]
Entry    == [known : BOOLEAN, kinds : SUBSET Kinds]
Unknown  == [known |-> FALSE, kinds |-> {}]
GroupSet == [known : BOOLEAN, gvs : SUBSET GVs]
NoGroups == [known |-> FALSE, gvs |-> {}]

SubState == {"off", "call", "lookup", "live", "store", "join", "done"}
SubType  == [st : SubState, ans : Answer]
Empty    == [err |-> "none", kinds |-> {}]
Off      == [st |-> "off", ans |-> Empty]
Asked    == [st |-> "call", ans |-> Empty]

ListResult == [err : BackendError, lists : [GVs -> SUBSET Kinds]]
NoLists    == [gv \in GVs |-> {}]
NoResult   == [err |-> "none", lists |-> NoLists]

PC == {"idle", "list", "join", "groups", "groupsStore", "aggregate", "subs",
       "got", "lock", "inv"}

\* What call holds for a goroutine that is in none.
NoCall == CHOOSE c \in Calls : TRUE

-----------------------------------------------------------------------------
(* Helpers *)

Relevant(v) == IF v = AllGVs THEN GVs ELSE {v}

Serves(gv, kind) == kind \in server[gv] /\ gv \notin broken

Active(p) == {gv \in GVs : sub[p][gv].st # "off"}

\* A flight of another goroutine that p could still be handed the result of,
\* directly or through the backend cache.
InFlight(p, v) ==
    \/ outer[v] \notin {NoProc, p}
    \/ \E gv \in Relevant(v) : inner[gv] # NoProc
    \/ v = AllGVs /\ \E q \in Procs : pc[q] = "groupsStore"

\* The error a cache entry stands for: a known entry without kinds is the
\* backend's "not found".
Cached(e) == [err |-> IF e.kinds = {} THEN "text" ELSE "none", kinds |-> e.kinds]

Live(gv) == {a \in Answer :
    IF gv \in broken THEN a = [err |-> "other", kinds |-> {}]
    ELSE IF server[gv] = {} THEN a.err \in {"text", "status"} /\ a.kinds = {}
    ELSE a = [err |-> "none", kinds |-> server[gv]]}

LiveGroups == {gv \in GVs : server[gv] # {}}
Down == broken = GVs

\* h is a version of gv's group that goes before gv.
Before(h, gv) == Group[h] = Group[gv] /\ Rank[h] < Rank[gv]

\* The kinds that the listing of the answers ans shows in gv. Of all group
\* versions, ServerPreferredResources keeps a kind in one version of each group:
\* the first that answered with it. A group version listed alone shows all of
\* its kinds, there being no other answer.
Kept(gv, ans) ==
    {k \in ans[gv].kinds : \A h \in DOMAIN ans : Before(h, gv) => k \notin ans[h].kinds}

\* fetchGroupVersionResources keeps the lists of the group versions that
\* answered and wraps the errors of the others in one error, whose text
\* contains theirs; for one group version the error is handed through. A direct
\* call may be ServerGroupsAndResources instead, which takes the same steps and
\* hands its caller, outside this module, the lists with nothing left out.
Collect(v, ans) ==
    [err |-> LET errs == {ans[gv].err : gv \in DOMAIN ans} \ {"none"}
             IN IF errs = {} THEN "none"
                ELSE IF v # AllGVs THEN CHOOSE e \in errs : TRUE
                ELSE IF "text" \in errs THEN "text" ELSE "other",
     lists |-> [gv \in GVs |-> IF gv \in DOMAIN ans THEN Kept(gv, ans) ELSE {}]]

\* Mutant of Resolve: an error counts although lists came with it.
ResolveStrict(r, kind) ==
    IF r.err # "none" THEN r.err
    ELSE IF \E gv \in GVs : kind \in r.lists[gv] THEN "found" ELSE "notfound"

\* apiResource after APIResourceList returned: an error counts only when no
\* list came with it.
Resolve(r, kind) ==
    IF r.err # "none" /\ r.lists = NoLists THEN r.err
    ELSE IF \E gv \in GVs : kind \in r.lists[gv] THEN "found" ELSE "notfound"

-----------------------------------------------------------------------------
Init ==
    /\ server \in [GVs -> SUBSET Kinds]
    /\ broken \in SUBSET GVs
    /\ changes = 0
    /\ aggregated \in Backends
    /\ cache = [gv \in GVs |-> Unknown]
    /\ groups = NoGroups
    /\ mu = NoProc
    /\ outer = [v \in Keys |-> NoProc]
    /\ inner = [gv \in GVs |-> NoProc]
    /\ call = [p \in Procs |-> NoCall]
    /\ pc = [p \in Procs |-> "idle"]
    /\ listed = [p \in Procs |-> {}]
    /\ sub = [p \in Procs |-> [gv \in GVs |-> Off]]
    /\ got = [p \in Procs |-> NoResult]
    /\ retriedL = [p \in Procs |-> FALSE]
    /\ retriedA = [p \in Procs |-> FALSE]
    /\ missed = [p \in Procs |-> {}]
    /\ overlap = [p \in Procs |-> FALSE]
    /\ flushed = [p \in Procs |-> FALSE]

-----------------------------------------------------------------------------
(* The cluster changes under the client, and the backend's cache expires. *)

\* The history of every running call follows the cluster.
Observe ==
    /\ missed' = [p \in Procs |->
           IF pc[p] = "idle" THEN missed[p]
           ELSE missed[p] \cup {gv \in GVs :
                    \/ call[p].kind \notin server'[gv]
                    \/ gv \in broken'}]
    /\ changes < MaxChanges
    /\ changes' = changes + 1
    /\ UNCHANGED <<aggregated, cacheVars, mu, outer, inner, localVars, overlap, flushed>>

Register(gv, kind) ==
    /\ kind \notin server[gv]
    /\ server' = [server EXCEPT ![gv] = @ \cup {kind}]
    /\ UNCHANGED broken
    /\ Observe

Unregister(gv, kind) ==
    /\ kind \in server[gv]
    /\ server' = [server EXCEPT ![gv] = @ \ {kind}]
    /\ UNCHANGED broken
    /\ Observe

Break(gv) ==
    /\ gv \notin broken
    /\ broken' = broken \cup {gv}
    /\ UNCHANGED server
    /\ Observe

Repair(gv) ==
    /\ gv \in broken
    /\ broken' = broken \ {gv}
    /\ UNCHANGED server
    /\ Observe

\* The time to live handed to the disk cache runs out.
Expire ==
    /\ ~aggregated
    /\ \/ \E gv \in GVs : /\ cache[gv].known
                          /\ cache' = [cache EXCEPT ![gv] = Unknown]
                          /\ UNCHANGED groups
       \/ /\ groups.known
          /\ groups' = NoGroups
          /\ UNCHANGED cache
    /\ UNCHANGED <<clusterVars, mu, outer, inner, localVars, historyVars>>

-----------------------------------------------------------------------------
(* sfCachedDiscovery.ServerResourcesForGroupVersion. A query of group      *)
(* version gv is made by goroutine p itself, or by one of the goroutines   *)
(* that the listing of all group versions starts.                          *)

\* The flight of gv ends: its leader p and everybody who joined get a.
Answered(p, gv, a) ==
    /\ sub' = [q \in Procs |-> [h \in GVs |->
                  IF h = gv /\ (q = p \/ sub[q][h].st = "join")
                  THEN [st |-> "done", ans |-> a] ELSE sub[q][h]]]
    /\ inner' = [inner EXCEPT ![gv] = NoProc]

QueryUnchanged ==
    /\ UNCHANGED <<clusterVars, groups, mu, outer, historyVars>>
    /\ UNCHANGED <<call, pc, listed, got, retriedL, retriedA>>

\* Mutant of LeadQuery: the query is made without the sf group.
LeadQueryAlways(p, gv) ==
    /\ sub[p][gv].st = "call"
    /\ inner' = [inner EXCEPT ![gv] = p]
    /\ sub' = [sub EXCEPT ![p][gv].st = "lookup"]
    /\ UNCHANGED cache
    /\ QueryUnchanged

LeadQuery(p, gv) ==
    /\ sub[p][gv].st = "call"
    /\ inner[gv] = NoProc
    /\ inner' = [inner EXCEPT ![gv] = p]
    /\ sub' = [sub EXCEPT ![p][gv].st = "lookup"]
    /\ UNCHANGED cache
    /\ QueryUnchanged

JoinQuery(p, gv) ==
    /\ sub[p][gv].st = "call"
    /\ inner[gv] # NoProc
    /\ sub' = [sub EXCEPT ![p][gv].st = "join"]
    /\ UNCHANGED <<cache, inner>>
    /\ QueryUnchanged

\* The backend finds gv in its cache ...
CacheHit(p, gv) ==
    /\ sub[p][gv].st = "lookup"
    /\ cache[gv].known
    /\ Answered(p, gv, Cached(cache[gv]))
    /\ UNCHANGED cache
    /\ QueryUnchanged

\* ... or asks the API server.
CacheMiss(p, gv) ==
    /\ sub[p][gv].st = "lookup"
    /\ ~cache[gv].known
    /\ sub' = [sub EXCEPT ![p][gv].st = "live"]
    /\ UNCHANGED <<cache, inner>>
    /\ QueryUnchanged

\* The server's answer. Errors other than the backend's own "not found" are
\* not cached.
AskServer(p, gv) ==
    /\ sub[p][gv].st = "live"
    /\ \E a \in Live(gv) :
         IF a.err \in {"none", "text"}
         THEN /\ sub' = [sub EXCEPT ![p][gv] = [st |-> "store", ans |-> a]]
              /\ UNCHANGED inner
         ELSE Answered(p, gv, a)
    /\ UNCHANGED cache
    /\ QueryUnchanged

\* The backend writes the answer to its cache, whatever was invalidated since.
Store(p, gv) ==
    /\ sub[p][gv].st = "store"
    /\ cache' = [cache EXCEPT ![gv] = [known |-> TRUE, kinds |-> sub[p][gv].ans.kinds]]
    /\ Answered(p, gv, sub[p][gv].ans)
    /\ QueryUnchanged

-----------------------------------------------------------------------------
(* apiResourceListUncached and, for direct calls, the sfCachedDiscovery    *)
(* method of the same name.                                                *)

\* Where the uncached listing of v begins. An apiVersion that does not parse,
\* which returns an error and asks nobody, is not among the Keys.
Uncached(p, v) ==
    IF v = AllGVs
    THEN /\ pc' = [pc EXCEPT ![p] = IF aggregated THEN "aggregate" ELSE "groups"]
         /\ UNCHANGED sub
    ELSE /\ pc' = [pc EXCEPT ![p] = "subs"]
         /\ sub' = [sub EXCEPT ![p][v] = Asked]

\* Mutants of Deliver: only the leader is told; the flight's key is kept.
DeliverAlone(p, r) ==
    /\ pc' = [pc EXCEPT ![p] = "got"]
    /\ got' = [got EXCEPT ![p] = r]
    /\ outer' = [outer EXCEPT ![call[p].v] = IF @ = p THEN NoProc ELSE @]

DeliverKeepsFlight(p, r) ==
    LET all == {p} \cup {q \in Procs : pc[q] = "join" /\ call[q].v = call[p].v}
    IN /\ pc' = [q \in Procs |-> IF q \in all THEN "got" ELSE pc[q]]
       /\ got' = [q \in Procs |-> IF q \in all THEN r ELSE got[q]]
       /\ UNCHANGED outer

\* The uncached listing of goroutine p ends with r: the flight p leads, if it
\* does, hands r to everybody who joined it.
Deliver(p, r) ==
    LET v == call[p].v
        all == {p} \cup (IF outer[v] = p
                         THEN {q \in Procs : pc[q] = "join" /\ call[q].v = v}
                         ELSE {})
    IN /\ pc' = [q \in Procs |-> IF q \in all THEN "got" ELSE pc[q]]
       /\ got' = [q \in Procs |-> IF q \in all THEN r ELSE got[q]]
       /\ outer' = [outer EXCEPT ![v] = IF @ = p THEN NoProc ELSE @]

ListingUnchanged ==
    UNCHANGED <<clusterVars, mu, inner, call, retriedL, retriedA, historyVars>>

\* discovery.ServerPreferredResources and ServerGroupsAndResources first get
\* the group list. sfCachedDiscovery does not override ServerGroups: the call
\* goes to the backend outside both singleflights.
StartQueries(p, gvs) ==
    /\ pc' = [pc EXCEPT ![p] = "subs"]
    /\ sub' = [sub EXCEPT ![p] = [gv \in GVs |-> IF gv \in gvs THEN Asked ELSE Off]]

GroupsHit(p) ==
    /\ pc[p] = "groups"
    /\ groups.known
    /\ StartQueries(p, groups.gvs)
    /\ UNCHANGED <<cacheVars, outer, listed, got>>
    /\ ListingUnchanged

GroupsLive(p) ==
    /\ pc[p] = "groups"
    /\ ~groups.known
    /\ ~Down
    /\ listed' = [listed EXCEPT ![p] = LiveGroups]
    /\ pc' = [pc EXCEPT ![p] = "groupsStore"]
    /\ UNCHANGED <<cacheVars, outer, sub, got>>
    /\ ListingUnchanged

GroupsFail(p) ==
    /\ pc[p] = "groups"
    /\ ~groups.known
    /\ Down
    /\ Deliver(p, [err |-> "other", lists |-> NoLists])
    /\ UNCHANGED <<cacheVars, listed, sub>>
    /\ ListingUnchanged

GroupsStore(p) ==
    /\ pc[p] = "groupsStore"
    /\ groups' = [known |-> TRUE, gvs |-> listed[p]]
    /\ listed' = [listed EXCEPT ![p] = {}]
    /\ StartQueries(p, listed[p])
    /\ UNCHANGED <<cache, outer, got>>
    /\ ListingUnchanged

\* An aggregated backend answers for all group versions in one locked step,
\* without sfCachedDiscovery's singleflight.
Aggregate(p) ==
    /\ pc[p] = "aggregate"
    /\ IF ~groups.known /\ Down
       THEN /\ Deliver(p, [err |-> "other", lists |-> NoLists])
            /\ UNCHANGED cacheVars
       ELSE LET gvs == IF groups.known THEN groups.gvs ELSE LiveGroups
                now == [gv \in gvs |->
                          IF cache[gv].known THEN Cached(cache[gv])
                          ELSE CHOOSE a \in Live(gv) : a.err # "status"]
            IN /\ groups' = [known |-> TRUE, gvs |-> gvs]
               /\ cache' = [gv \in GVs |->
                     IF gv \in gvs /\ now[gv].err # "other"
                     THEN [known |-> TRUE, kinds |-> now[gv].kinds] ELSE cache[gv]]
               /\ Deliver(p, Collect(AllGVs, now))
    /\ UNCHANGED <<listed, sub>>
    /\ ListingUnchanged

\* Mutant of Listed: the one list is not put into a slice.
ListedUnwrapped(p) ==
    IF call[p].v = AllGVs
    THEN Collect(AllGVs, [gv \in Active(p) |-> sub[p][gv].ans])
    ELSE sub[p][call[p].v].ans

\* What the listing of goroutine p returns once its queries are answered.
Listed(p) == Collect(call[p].v, [gv \in Active(p) |-> sub[p][gv].ans])

\* All queries of the listing are answered.
QueriesDone(p) ==
    /\ pc[p] = "subs"
    /\ \A gv \in Active(p) : sub[p][gv].st = "done"
    /\ Deliver(p, Listed(p))
    /\ sub' = [sub EXCEPT ![p] = [gv \in GVs |-> Off]]
    /\ UNCHANGED <<cacheVars, listed>>
    /\ ListingUnchanged

-----------------------------------------------------------------------------
(* The calls of a goroutine. *)

CallsUnchanged == UNCHANGED <<clusterVars, inner, listed>>

Start(p, c) ==
    /\ pc[p] = "idle"
    /\ call' = [call EXCEPT ![p] = c]
    /\ missed' = [missed EXCEPT ![p] = {gv \in GVs : ~Serves(gv, c.kind)}]
    /\ overlap' = [overlap EXCEPT ![p] = InFlight(p, c.v)]
    /\ CASE c.op = "direct" -> Uncached(p, c.v)
         [] c.op = "invalidate" -> /\ pc' = [pc EXCEPT ![p] = "lock"]
                                   /\ UNCHANGED sub
         [] OTHER -> /\ pc' = [pc EXCEPT ![p] = "list"]
                     /\ UNCHANGED sub
    /\ UNCHANGED <<cacheVars, mu, outer, got, retriedL, retriedA, flushed>>
    /\ CallsUnchanged

\* apiResourceList: discoverySF.Do, as the leader of a new flight ...
LeadList(p) ==
    /\ pc[p] = "list"
    /\ outer[call[p].v] = NoProc
    /\ outer' = [outer EXCEPT ![call[p].v] = p]
    /\ Uncached(p, call[p].v)
    /\ UNCHANGED <<cacheVars, mu, call, got, retriedL, retriedA, historyVars>>
    /\ CallsUnchanged

\* ... or waiting for the flight in progress.
JoinList(p) ==
    /\ pc[p] = "list"
    /\ outer[call[p].v] # NoProc
    /\ pc' = [pc EXCEPT ![p] = "join"]
    /\ UNCHANGED <<cacheVars, mu, outer, call, sub, got, retriedL, retriedA, historyVars>>
    /\ CallsUnchanged

\* Mutant of ListMustRetry: without an end.
ListRetriesForever(p) == call[p].op # "direct" /\ got[p].err = "text"

\* APIResourceList asks again after an error that says "not found".
ListMustRetry(p) ==
    call[p].op # "direct" /\ got[p].err = "text" /\ ~retriedL[p]

\* APIResource asks again after a NotFound error.
ResourceMustRetry(p) ==
    /\ call[p].op = "resource"
    /\ ~ListMustRetry(p)
    /\ Resolve(got[p], call[p].kind) \in {"status", "notfound"}
    /\ ~retriedA[p]

\* Mutant of AskAgain: the cache is not invalidated.
AskAgainCached(p) ==
    /\ got' = [got EXCEPT ![p] = NoResult]
    /\ pc' = [pc EXCEPT ![p] = "list"]

\* A retry invalidates first.
AskAgain(p) ==
    /\ got' = [got EXCEPT ![p] = NoResult]
    /\ pc' = [pc EXCEPT ![p] = "lock"]

RetryList(p) ==
    /\ pc[p] = "got"
    /\ ListMustRetry(p)
    /\ retriedL' = [retriedL EXCEPT ![p] = TRUE]
    /\ AskAgain(p)
    /\ UNCHANGED <<cacheVars, mu, outer, call, sub, retriedA, historyVars>>
    /\ CallsUnchanged

RetryResource(p) ==
    /\ pc[p] = "got"
    /\ ResourceMustRetry(p)
    /\ retriedA' = [retriedA EXCEPT ![p] = TRUE]
    /\ retriedL' = [retriedL EXCEPT ![p] = FALSE]
    /\ AskAgain(p)
    /\ UNCHANGED <<cacheVars, mu, outer, call, sub, historyVars>>
    /\ CallsUnchanged

\* The goroutine is back in its idle state.
Leave(p) ==
    /\ pc' = [pc EXCEPT ![p] = "idle"]
    /\ call' = [call EXCEPT ![p] = NoCall]
    /\ got' = [got EXCEPT ![p] = NoResult]
    /\ retriedL' = [retriedL EXCEPT ![p] = FALSE]
    /\ retriedA' = [retriedA EXCEPT ![p] = FALSE]
    /\ missed' = [missed EXCEPT ![p] = {}]
    /\ overlap' = [overlap EXCEPT ![p] = FALSE]
    /\ flushed' = [flushed EXCEPT ![p] = FALSE]

\* The call is about to return what it has.
Returning(p) ==
    pc[p] = "got" /\ ~ListMustRetry(p) /\ ~ResourceMustRetry(p)

Return(p) ==
    /\ Returning(p)
    /\ Leave(p)
    /\ UNCHANGED <<cacheVars, mu, outer, sub>>
    /\ CallsUnchanged

\* sfCachedDiscovery.Invalidate.
Lock(p) ==
    /\ pc[p] = "lock"
    /\ mu = NoProc
    /\ mu' = p
    /\ pc' = [pc EXCEPT ![p] = "inv"]
    /\ UNCHANGED <<cacheVars, outer, call, sub, got, retriedL, retriedA, historyVars>>
    /\ CallsUnchanged

\* Mutant of Forget: the embedded backend is not told.
ForgetNothing == UNCHANGED cacheVars

\* The wrapper's Invalidate ends with the backend's, which forgets what it has
\* cached.
Forget ==
    /\ cache' = [gv \in GVs |-> Unknown]
    /\ groups' = NoGroups

\* Flights in progress are not told: they go on, and may still write.
Invalidate(p) ==
    /\ pc[p] = "inv"
    /\ Forget
    /\ mu' = NoProc
    /\ IF call[p].op = "invalidate"
       THEN Leave(p)
       ELSE /\ pc' = [pc EXCEPT ![p] = "list"]
            /\ overlap' = [overlap EXCEPT ![p] = InFlight(p, call[p].v)]
            /\ flushed' = [flushed EXCEPT ![p] = TRUE]
            /\ UNCHANGED <<call, got, retriedL, retriedA, missed>>
    /\ UNCHANGED <<outer, sub>>
    /\ CallsUnchanged

-----------------------------------------------------------------------------
Query(p, gv) ==
    \/ LeadQuery(p, gv) \/ JoinQuery(p, gv) \/ CacheHit(p, gv)
    \/ CacheMiss(p, gv) \/ AskServer(p, gv) \/ Store(p, gv)

Listing(p) ==
    \/ GroupsHit(p) \/ GroupsLive(p) \/ GroupsFail(p) \/ GroupsStore(p)
    \/ Aggregate(p) \/ QueriesDone(p)

Goroutine(p) ==
    \/ LeadList(p) \/ JoinList(p) \/ RetryList(p) \/ RetryResource(p)
    \/ Return(p) \/ Invalidate(p)

Environment ==
    \/ \E gv \in GVs, kind \in Kinds : Register(gv, kind) \/ Unregister(gv, kind)
    \/ \E gv \in GVs : Break(gv) \/ Repair(gv)
    \/ Expire

Next ==
    \/ \E p \in Procs, c \in Calls : Start(p, c)
    \/ \E p \in Procs, gv \in GVs : Query(p, gv)
    \/ \E p \in Procs : Listing(p) \/ Goroutine(p) \/ Lock(p)
    \/ Environment

Spec == Init /\ [][Next]_vars

\* Go runs every goroutine that can run, and the API server answers or the
\* request times out. sync.Mutex hands itself over to a waiter that has been
\* passed over, so a goroutine that waits for mu gets it.
Fairness ==
    \A p \in Procs :
        /\ \A gv \in GVs : WF_vars(Query(p, gv))
        /\ WF_vars(Listing(p))
        /\ WF_vars(Goroutine(p))
        /\ SF_vars(Lock(p))

FairSpec == Spec /\ Fairness

-----------------------------------------------------------------------------
(* Properties *)

\* Type invariant: the range of every variable.
TypeOK ==
    /\ server \in [GVs -> SUBSET Kinds]
    /\ broken \in SUBSET GVs
    /\ changes \in 0..MaxChanges
    /\ aggregated \in BOOLEAN
    /\ cache \in [GVs -> Entry]
    /\ groups \in GroupSet
    /\ mu \in Procs \cup {NoProc}
    /\ outer \in [Keys -> Procs \cup {NoProc}]
    /\ inner \in [GVs -> Procs \cup {NoProc}]
    /\ call \in [Procs -> Calls]
    /\ pc \in [Procs -> PC]
    /\ listed \in [Procs -> SUBSET GVs]
    /\ sub \in [Procs -> [GVs -> SubType]]
    /\ got \in [Procs -> ListResult]
    /\ retriedL \in [Procs -> BOOLEAN]
    /\ retriedA \in [Procs -> BOOLEAN]
    /\ missed \in [Procs -> SUBSET GVs]
    /\ overlap \in [Procs -> BOOLEAN]
    /\ flushed \in [Procs -> BOOLEAN]

Busy == {"lookup", "live", "store"}

\* The promise of sfCachedDiscovery: whatever mix of APIResourceList,
\* preferred listings, mapper and direct discovery calls runs, at most one
\* goroutine at a time is inside the backend for a group version, and at most
\* one is inside the backend's Invalidate.
BackendProtected ==
    /\ \A gv \in GVs, p, q \in Procs :
         sub[p][gv].st \in Busy /\ sub[q][gv].st \in Busy => p = q
    /\ \A p, q \in Procs : pc[p] = "inv" /\ pc[q] = "inv" => p = q

\* Where the leader of an outer flight can be.
Leading == {"groups", "groupsStore", "aggregate", "subs"}

\* A goroutine that waits for a flight, at either level, waits for one that is
\* in progress and whose leader is still on its way to ending it: nobody waits
\* for an answer that was handed out before it joined. A goroutine that waits for
\* mu waits for one that is inside Invalidate and waits for nobody.
NoLostWaiter ==
    /\ \A p \in Procs, gv \in GVs :
         sub[p][gv].st = "join" =>
             \E q \in Procs : inner[gv] = q /\ sub[q][gv].st \in Busy
    /\ \A p \in Procs :
         pc[p] = "join" =>
             \E q \in Procs : /\ outer[call[p].v] = q
                              /\ pc[q] \in Leading
    /\ \A p \in Procs :
         pc[p] = "lock" =>
             mu = NoProc \/ \E q \in Procs \ {p} : mu = q /\ pc[q] = "inv"

\* Flights and locks agree with what the goroutines are doing, the inductive
\* form of the two invariants above: a goroutine is inside the backend exactly
\* when it leads the inner flight, inside Invalidate exactly when it holds mu;
\* the leader of an outer flight is in the listing its own call asked for; only
\* goroutines in a listing have queries; who waits, waits for some flight.
FlightInv ==
    /\ \A p \in Procs, gv \in GVs :
         /\ sub[p][gv].st \in Busy <=> inner[gv] = p
         /\ sub[p][gv].st = "join" => inner[gv] # NoProc
         /\ sub[p][gv].st # "off" => pc[p] = "subs"
    /\ \A p \in Procs :
         /\ pc[p] = "inv" <=> mu = p
         /\ pc[p] = "join" => outer[call[p].v] # NoProc
         /\ \A v \in Keys : outer[v] = p => call[p].v = v /\ pc[p] \in Leading

\* Where a listing of v may show a kind of gv: gv, or a version before it.
InPlaceOf(v, gv) == {h \in Relevant(v) : h = gv \/ Before(h, gv)}

Shows(r, v, gv, kind) == \E h \in InPlaceOf(v, gv) : kind \in r.lists[h]

\* After a call has invalidated the cache while no other goroutine had a
\* flight in progress, the lists it returns hold every kind that the cluster
\* has served, from a working group version, all through the call: a listing of
\* one group version in its list, a listing of all preferred resources in that
\* list or in that of a version that its group puts before it
\* (client.go:459-483, 597).
FlushedListIsCurrent ==
    \A p \in Procs : Returning(p) /\ flushed[p] /\ ~overlap[p] =>
        \A gv \in Relevant(call[p].v) \ missed[p] :
            Shows(got[p], call[p].v, gv, call[p].kind)

\* APIResource finds a kind that some working group version it may look in has
\* served all through the call, whatever the cache held when the call began,
\* however many other group versions fail, as long as no flight of another
\* goroutine was in progress when the call began or last invalidated. The
\* exception is a lookup over all group versions of a group list that was
\* cached before the call and of which nothing answers: that error is not one
\* APIResource retries.
SteadyKindFound ==
    \A p \in Procs :
        /\ Returning(p)
        /\ call[p].op = "resource"
        /\ ~overlap[p]
        /\ ~(Relevant(call[p].v) \subseteq missed[p])
        => \/ Resolve(got[p], call[p].kind) = "found"
           \/ /\ call[p].v = AllGVs
              /\ ~flushed[p]
              /\ got[p] = [err |-> "other", lists |-> NoLists]

\* The history of a call and its retries agree: what it has not missed is served,
\* and it is past a retry only when it has invalidated.
Remembers(p) ==
    /\ pc[p] # "idle" => \A gv \in GVs \ missed[p] : Serves(gv, call[p].kind)
    /\ pc[p] = "idle" => ~flushed[p]
    /\ pc[p] \notin {"lock", "inv"} => (retriedL[p] \/ retriedA[p] => flushed[p])

\* A listing agrees with its call: one of all group versions gets their list,
\* one of a group version has the query for it and no other.
Asks(p) ==
    /\ pc[p] \in {"groups", "groupsStore", "aggregate"} => call[p].v = AllGVs
    /\ pc[p] = "subs" /\ call[p].v # AllGVs =>
         \A gv \in GVs : sub[p][gv].st # "off" <=> gv = call[p].v

\* History and listings agree with the calls, and only an answer that the
\* backend caches is on its way into the cache.
HistoryInv ==
    /\ \A p \in Procs : Remembers(p) /\ Asks(p)
    /\ \A p \in Procs, gv \in GVs :
         sub[p][gv].st = "store" => sub[p][gv].ans.err \in {"none", "text"}

\* The group versions that have served the kind all through the call of p, when
\* no flight of another goroutine was in progress at its beginning.
Watched(p) ==
    IF pc[p] = "idle" \/ overlap[p] THEN {} ELSE Relevant(call[p].v) \ missed[p]

\* The goroutines whose listing p gets the result of.
Serving(p) == {q \in Procs : q = p \/ outer[call[p].v] = q}

\* Everything that the call of p may still be handed about group version gv, by
\* the cache or a query, has the kind, and the lists it got show it.
Current(p, gv) ==
    LET kind == call[p].kind
    IN /\ cache[gv].known => kind \in cache[gv].kinds
       /\ \A q \in Procs : sub[q][gv].st = "store" => kind \in sub[q][gv].ans.kinds
       /\ call[p].v = AllGVs =>
            /\ groups.known => gv \in groups.gvs
            /\ \A q \in Procs : pc[q] = "groupsStore" => gv \in listed[q]
       /\ \A q \in Serving(p) :
            /\ pc[q] = "subs" => sub[q][gv].st # "off"
            /\ sub[q][gv].st = "done" => kind \in sub[q][gv].ans.kinds
       /\ pc[p] = "got" => Shows(got[p], call[p].v, gv, kind)

\* No error but the backend's own "not found" reaches the call of p about gv.
Answering(p, gv) ==
    /\ \A q \in Serving(p) : sub[q][gv].st = "done" => sub[q][gv].ans.err \in {"none", "text"}
    /\ pc[p] = "got" => got[p].err \in {"none", "text"}

Fresh(p, gv) ==
    /\ flushed[p] => Current(p, gv)
    /\ call[p].v = gv => Answering(p, gv)

\* The inductive form of FlushedListIsCurrent and SteadyKindFound: once a call
\* has invalidated, no answer from before is left that could still reach it, be
\* it cached, about to be stored, or on its way through a query or a listing; and
\* for the group version it asks for, the API server has answered
\* (client.go:459-619, 686-692).
FreshInv == \A p \in Procs : \A gv \in Watched(p) : Fresh(p, gv)

\* How far a call is from its end. The retries it has left come first: APIResource
\* asks twice, and APIResourceList twice each time. Then the way through one
\* round, and through the query of one group version.
RoundsLeft(p) == (IF retriedA[p] THEN 0 ELSE 2) + (IF retriedL[p] THEN 0 ELSE 1)

StepsLeft(s) ==
    CASE s = "idle" -> 0
      [] s = "got" -> 1
      [] s = "subs" -> 3
      [] s \in {"groupsStore", "aggregate"} -> 4
      [] s = "groups" -> 5
      [] s = "join" -> 6
      [] s = "list" -> 7
      [] s = "inv" -> 8
      [] s = "lock" -> 9

CallLeft(p) == IF pc[p] = "idle" THEN 0 ELSE 10 * RoundsLeft(p) + StepsLeft(pc[p])

QueryLeft(p, gv) ==
    LET s == sub[p][gv].st
    IN CASE s = "off" -> 0
         [] s = "done" -> 1
         [] s = "join" -> 2
         [] s = "store" -> 3
         [] s = "live" -> 4
         [] s = "lookup" -> 5
         [] s = "call" -> 6

Untouched(p) ==
    UNCHANGED <<call[p], pc[p], listed[p], sub[p], got[p], retriedL[p], retriedA[p]>>

Forward(p) ==
    \/ CallLeft(p)' < CallLeft(p)
    \/ /\ CallLeft(p)' = CallLeft(p)
       /\ \A gv \in GVs : QueryLeft(p, gv)' <= QueryLeft(p, gv)
       /\ \E gv \in GVs : QueryLeft(p, gv)' < QueryLeft(p, gv)

\* Whatever step anybody takes, a call it touches is nearer to its end: nothing
\* that another goroutine, the cluster or the backend's cache does sends a call
\* back, and a call goes back for another round only by using up one of its
\* retries. A call therefore takes a bounded number of steps, and one that does
\* not end is waiting (client.go:470-483, 506-544, 564, 621-637).
CallsGoForward ==
    [][\A p \in Procs : pc[p] # "idle" => Untouched(p) \/ Forward(p)]_vars

\* Every call of every goroutine comes to an end: the retries are bounded, no
\* flight is left without an end and mu is released.
CallsReturn == \A p \in Procs : pc[p] # "idle" ~> pc[p] = "idle"

\* What client.go:686 says of invalidateDiscovery: calls that follow it fetch
\* fresh data from the API server. A resource call that has invalidated the
\* cache therefore does not return without a kind that has been served since
\* before it began.
InvalidateGivesFreshData ==
    \A p \in Procs :
        /\ Returning(p)
        /\ call[p].op = "resource"
        /\ flushed[p]
        => Relevant(call[p].v) \subseteq missed[p] \/ Resolve(got[p], call[p].kind) = "found"
-----------------------------------------------------------------------------
(* Both singleflight groups keep the promise of Flights.                   *)

\* sfCachedDiscovery.sf. Its callers are the queries: goroutine p, or what the
\* listing of all group versions starts for it, asking for gv.
Queries == Procs \X GVs
QueryLeaders == [gv \in GVs |-> IF inner[gv] = NoProc THEN <<>> ELSE <<inner[gv], gv>>]
QueryWaiters == [gv \in GVs |-> {<<p, gv>> : p \in {q \in Procs : sub[q][gv].st = "join"}}]
QueryAnswers == [c \in Queries |->
    IF sub[c[1]][c[2]].st = "done" THEN sub[c[1]][c[2]].ans ELSE NoResult]

Inner == INSTANCE Flights WITH
    Callers <- Queries, Keys <- GVs, Results <- Answer, Nobody <- <<>>, Nothing <- NoResult,
    leader <- QueryLeaders, waiting <- QueryWaiters, handed <- QueryAnswers

\* Client.discoverySF. A direct call does not go through it.
ListWaiters == [v \in Keys |-> {p \in Procs : pc[p] = "join" /\ call[p].v = v}]
ListAnswers == [p \in Procs |->
    IF pc[p] = "got" /\ call[p].op # "direct" THEN got[p] ELSE Empty]

Outer == INSTANCE Flights WITH
    Callers <- Procs, Keys <- Keys, Results <- ListResult, Nobody <- NoProc, Nothing <- Empty,
    leader <- outer, waiting <- ListWaiters, handed <- ListAnswers

\* Whatever mix of lookups, listings and direct calls runs, and whatever is
\* invalidated meanwhile, the queries of one group version share one answer at
\* a time, and none keeps an answer handed to it before it asked
\* (client.go:507-534).
QueriesShareFlights == Inner!Spec

\* The same of the calls for one apiVersion and the lists they get
\* (client.go:556-572).
ListsShareFlights == Outer!Spec
=============================================================================
