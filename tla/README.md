# kube-client in TLA+

Specifications, model-checking configurations and machine-checked proofs for
`flant/kube-client`: a Go library that wraps client-go's clients behind one
`Client`, adds discovery that many goroutines may call at once, records
metrics, and offers a fake cluster for the tests of its users. Paths below are
relative to the repository.

- [The system](#the-system) - components, state, operations, interactions
- [Modules](#modules) - what models what, and what is abstracted
- [Runs](#runs) - what TLC checks, bounds, fairness
- [Proofs](#proofs) - what TLAPS proves, from what, and how
- [Where code and comments disagree](#where-code-and-comments-disagree)
- [Not modelled](#not-modelled)
- [Plan](#plan)

## The system

### Client discovery (`client/client.go`, 459-692)

*State.* `cachedDiscovery`, client-go's cache of group versions and of the
group list, on disk or in memory; `sfCachedDiscovery` around it, with a
singleflight group `sf` keyed by group version and a mutex for `Invalidate`;
`discoverySF`, a singleflight group keyed by the requested apiVersion.

*Operations.* `APIResourceList`, `APIResource`, `GroupVersionResource`,
`InvalidateDiscoveryCache`, and whatever a user does with the discovery client
or REST mapper from `ToDiscoveryClient` and `ToRESTMapper`.

*Interactions.* A lookup goes through `discoverySF`, and below it through `sf`. A
listing of all preferred resources makes client-go start one query per group
version, all of which come back to `sf`, and keeps each resource in one version of
its group; every direct use of the wrapper comes back to `sf` too.
`APIResourceList` retries once when the *text* of an error says "not found",
`APIResource` once more when the error *is* a NotFound; both invalidate first.

*Hard.* Everything runs concurrently, at two levels of waiting; flights outlive
the invalidations that happen meanwhile; a query stores its answer some time
after it got it; errors of single API controllers come with partial results.

*Correct if.* The backend is entered once at a time for a group version; nobody
waits for a flight that has ended; each call returns; a kind that was served
all through a call is found, whatever the cache held before.

### Client initialisation (`client/client.go`, 55-371 and 546-554)

*State.* The fields of `Client`: four clients, the backend, `restConfig`,
`defaultNamespace`, the wrapper and its `sync.Once`.

*Operations.* `New`, `NewFake`, the `With` methods, `Init` with many places to
return an error, `initSFDiscovery` at the head of each discovery method. A
config comes from `WithRestConfig`, a server, a kubeconfig or context that is
named, the kubeconfig that is found, or the files of a pod.

*Hard.* `Init` assigns field by field, so a failure leaves a client half made,
with nil pointers in interfaces that are not nil; the `Once` can be spent only
once; `restConfig` is an option and a result, so an `Init` called again, after a
failure or on a client in use, finds what the last one left, or what the caller
has handed in since; the wrapper is made once, for the backend of then.

*Correct if.* A client whose `Init` succeeded is made of one config and has the
namespace of its source, however many `Init`s failed before; no `Init` replaces a
config that is there, whatever server, kubeconfig or context is named, so that
only the caller, by `WithRestConfig`, moves a client to another cluster; all its
discovery calls go through one wrapper, none is stuck on the way to it, and as
long as the caller hands in no other config it is around a backend of the
client's own cluster.

### Metrics (`internal/metrics`, `client/metrics.go`, `client/default_metric_storage.go`)

*State.* The vectors a storage has registered with Prometheus' global registry;
client-go's process-wide pair of backends, which the first `Register` sets.

*Operations.* `RegisterKubernetesClientMetrics`, `NewRateLimiterLatency`,
`NewRequestResult`, `RegisterCounter`, `RegisterHistogram`, and a sample per
request.

*Hard.* Several clients initialise at once, and what one registers is used with
the samples of another: a sample whose labels are not the vector's panics, a
name registered by another storage makes `Init` panic, and both depend on who
comes first.

*Correct if.* The counter is there, with the right labels, before a request can
use it; clients that do not contradict one another never panic.

### Fake cluster (`fake/cluster.go`, `fake/resources.go`, `fake/v1*_resources.go`)

*State.* A fake `Client` (typed and dynamic trackers), the lists its fake
discovery shows - which are those of the package's version table, shared with
every other cluster of the version - and `gvrList`, a copy of which each
dynamic client takes when it is made.

*Operations.* `NewFakeCluster`, `RegisterCRD`, `CreateNs`,
`CreateSimpleNamespaced`, `DeleteSimpleNamespaced`, `Create`, `Delete`,
`Update`, `FindGVR`.

*Correct if.* What discovery shows the dynamic client can list; nothing is
shown twice; what a table has or was registered stays found; the cluster's lookup
and the client's find the same resource; objects vanish only by being deleted, or
when a resource is registered that the cluster did not have, which drops them all;
until then what `CreateSimpleNamespaced` made is what `DeleteSimpleNamespaced`
finds.

### Manifests (`manifest`, `manifest/releaseutil`)

*State.* A stream of YAML documents, the pieces it is split into, and the
mappings read from them.

*Hard.* The expression that finds separators takes the white space around a
marker with it, the line end the next marker needs included, so markers in a row
are not all separators; `ListFromYamlDocs` ranges over a map: documents are
visited in any order, and some of them are errors.

*Correct if.* No document is split, joined to another or lost, whatever markers
and blank lines surround it; all whole documents come back, once, or an error
does; a manifest
that comes back can be moved to a namespace.

### The rest

`klogtolog` turns klog's lines into log records; `getClientConfig` and its kin
read kubeconfigs through client-go; `fake/scripts` prints the tables.

The things in this code that tests hardly reach are listed with their lines in
`PROJECT.json` under `hazards`.

## Modules

| module | models | composed of |
|---|---|---|
| `Flights` | what a singleflight group promises its callers | - |
| `Discovery` | discovery of one client, its backend and the cluster behind it | `Flights`, twice, as what it implements |
| `ClientInit` | the life of one client up to its discovery calls | `OneClient`, as what it implements |
| `OneClient` | what a client promises the goroutines that share it | - |
| `Metrics` | the metrics of all clients of a process | - |
| `ResourceLookup` | the two searches for a kind, as operators | - |
| `FakeTables` | the 21 resource tables, as data | - |
| `FakeTableLookup` | lookups in every table of a cluster as it is made | `ResourceLookup`; `FakeTables` in its `MC` module |
| `FakeCluster` | several fake clusters in one process | `ResourceLookup`; `FakeTables` in its `MC` module; `FakeApi`, as what it implements |
| `FakeApi` | what each fake cluster promises the test that made it | - |
| `Manifests` | a stream read into manifests | - |
| `MC...` | constants for TLC | the module of that name |
| `...Proofs` | theorems | the module of that name, `TLAPS` |
| `DiscoveryFreshness` | theorems: what calls are handed after they invalidated | `DiscoveryProofs` |
| `LookupProofs` | lemmas: what the two searches find and when they agree, in any lists | `ResourceLookup` |

`Discovery` and `ClientInit` meet in the wrapper: `ClientInit` shows that every
call of a ready client goes to one wrapper around a backend that stays the same,
the client's own unless another config was handed in, and `Discovery` begins
there.

### Discovery

Each goroutine has a program counter `pc` and, for every group version, a query
`sub[p][gv]`: in the listing of all group versions one goroutine stands for
itself and for the goroutines client-go starts for it. `outer` and `inner` name
the leaders of the flights of `discoverySF` and `sf`; a singleflight call is
*lead or join* (`LeadList`/`JoinList`, `LeadQuery`/`JoinQuery`) and ends with an
answer for all who joined (`Deliver`, `Answered`). The backend's own steps are
separate: `CacheHit` or `CacheMiss`, then `AskServer`, then `Store`, because
`Invalidate` of another goroutine can come between any two of them. `mu` is the
wrapper's mutex. `Init` decides whether the backend caches in memory or on disk
(an environment variable, `client.go:329`): the one in memory offers aggregated
discovery, which answers in one locked step without `sf`; the one on disk has a
time to live (`Expire`).

The cluster (`server`, `broken`) changes under the calls: resources come and
go, an API controller stops answering and answers again. An answer is the set
of kinds of a group version and an error, known only by how the two retries
classify it: `text` (contains "not found"), `status` (is NotFound), `notfound`
(both) or `other`. Lists of resources are sets of kinds; a call asks for one.

`Group` and `Rank` say which group versions are versions of one group and in
which order the API server lists them, the preferred one first; that order is
taken to stay the same. `Collect` is what a listing makes of the answers of its
queries. `ServerPreferredResources` keeps a kind in one version of its group, the
first that answered with it (`Kept`), so a list of another version lacks it: what
is claimed of such a listing is that it shows the kind in that version or in one
before it (`Shows`). A listing of one group version has all of its kinds. A
direct call may be either `ServerPreferredResources` or
`ServerGroupsAndResources`: both take the same steps, and the second leaves
nothing out of the lists, which go straight to its caller.

`missed`, `overlap` and `flushed` are history: what the cluster failed to serve
during a call, whether a foreign flight was in progress, whether the call has
invalidated. The properties need them; no action is guarded by them.

*Flights* is the abstract specification of a singleflight group: for each key
the caller whose function runs (`leader`) and those who wait; `End` hands one
result to all of them in one step and to nobody else; a caller begins or joins
only when it has used the result it got before. `Discovery` implements it twice,
by the mappings at its end:

| | `Outer` (`discoverySF`) | `Inner` (`sfCachedDiscovery.sf`) |
|---|---|---|
| callers | goroutines | pairs of a goroutine and a group version |
| keys | requested apiVersions | group versions |
| `leader` | `outer` | `inner`, as the pair of leader and key |
| `waiting` | goroutines with `pc = "join"` and that key | queries in state `"join"` |
| `handed` | `got` while `pc = "got"`, but for direct calls | `ans` of queries that are `"done"` |

What `Flights` leaves out is what the function does: caches, locks, retries and
the changes of the cluster are stutters, and so is a direct call at the outer
level. That a listing goes on with the answers of all its queries at once is why
`Use` takes a set of callers.

### ClientInit

A config is a number, and whatever is made from it has the same number; `None`
is nil, `Broken` a nil pointer in a non-nil interface (`kubernetes.NewForConfig`
returns a pointer, so an error leaves that in the field). `Init` is one action
per assignment that can be followed by an early return. `ChooseConfig` follows
the order of `client.go:223-288`: the config there is (`Reuse`), the server, the
kubeconfig named or found, the files of a pod. Which of the last can be loaded
is up to the environment; `origin` remembers where each config came from and
`NamespaceOf` what namespace the source gives.

`Init` and the `With` methods are called by one goroutine, while no discovery
call is in progress (`Quiet`): before others have the client, after a failure,
or on a client in use. `Init` beside a discovery call would be a data race on
the fields of the client, which no caller is offered. `EarlyUse` says whether
discovery methods may be called before `Init` has succeeded.

`WithRestConfig` may come at any of these moments too, with nil, with a config
without a `Host` or with any other. The clients there are keep the config they
were made from, until the next `Init` makes them from the one handed in; the
wrapper keeps its backend for good. `handed` and `swapped` remember that a config
was handed in since the last `Init`, and since the `Init` whose backend is in the
wrapper: what is claimed of the config that is reported holds until the first,
what is claimed of the wrapper's backend until the second. All else that is
claimed holds whatever is handed in. `opens` counts how often a config has opened
the client, which is what the namespace depends on.

*OneClient* is the abstract specification of a client: it keeps a config, which
the caller may replace (`Hand`); it is opened for the config kept, or for any when
there is none, and may be closed; the first call binds all calls to the config it
is open for (`Bind`); and a call goes there (`Call`). `ClientInit` implements it by
`Kept` (`restConfig`), `Parts` (what the five parts were made from, while the
client is ready), `Bound` (the wrapper's backend) and `Reached` (the config a
goroutine's last call went to; `Broken`, which `OneClient` never reaches, if it
went past the first wrapper). A successful `Commit` is `Open`, an `InitCall` on a
client in use is `Close`, `WithRestConfig` is `Hand`, the function of the `Once` is
`Bind`, the `Go` of a discovery call is `Call`, all else a stutter. A fake client,
which has no config, stutters all its life.

### Metrics

A vector is its storage, its name (`<<prefix, template>>`) and its label keys.
`Enrol` is the registration of one vector with the three outcomes of
`RegisterCounter` and `RegisterHistogram`: known already, made, or
`MustRegister` panics. `Install` is client-go's `Register`, whose first call
counts. Samples are history. A storage that a program hands to its clients is
taken to work as the default one does.

### FakeTables, FakeTableLookup, ResourceLookup, FakeCluster

`FakeTables` is the data of `fake/v116_resources.go` to `v136_resources.go`:
group versions and kinds, in order, each list written once and shared by the
versions in which it is the same. `FindGvr` and `ClientGvr` are `findGvr` and
the client's path through `APIResource` on a fake discovery. In `FakeCluster`,
`heap` holds the lists in memory: those of the package's variables, which
clusters of a version share, and those a cluster has made itself; `resources`
says which lists each cluster has, `listKinds` what its dynamic client was made
with. Objects are known by resource, namespace and name; their content is what
`CreateSimpleNamespaced` gives them (`simple`) or that of a manifest. `simples` is
history: what `CreateSimpleNamespaced` made and the test may still count on,
because it was neither deleted nor updated and no resource that the cluster did
not have (`New`) was registered since. The rest of a table's row is left out:
names are the plurals that the kinds determine, every resource has verbs, none
has short names.

*FakeApi* is the abstract specification of each cluster: it shows resources and
stores objects. `Make` gives it those of its version, `Learn` one more, after
which the objects are gone, `Put` and `Remove` one object. `FakeCluster`
implements it by what the lists of a cluster's discovery show (`Serves`), not by
what the cluster means to show, and by the objects in its dynamic client
(`Stores`): with shared lists a step of one cluster is a step of two, which
`FakeApi` does not have.

### Manifests

A stream is a sequence of lines: markers, blank lines, and texts, each of which
stands for a whole document that is broken or has some of the fields. Streams
have a marker between two texts. `IsSeparator` is what the expression
`(?:^|\s*\n)---\s*` matches: a marker separates if the line end before it was not
taken by the separator before, so of markers in a row every second one stays in
the text. It is harmless, because the YAML decoder reads a marker at the head of
a piece as the start of the document (`Document`); that this is so for every
arrangement is `SplitKeepsDocuments`. `Visit` takes any key not yet visited: the
order of a Go map.

## Runs

All runs end with an exhausted state space. Passing runs allow no deadlock,
apart from `manifests_list`, where a stream has been read and nothing is left
to do.

| run | instance | shows |
|---|---|---|
| `discovery_mixed` | 2 goroutines, 2 versions of one group, 1 kind; lookups by apiVersion and over all, direct listings; 1 change of the cluster; both backends | `BackendProtected`, `FreshInv`, `FlushedListIsCurrent`, `SteadyKindFound`, `CallsGoForward` |
| `discovery_three` | 3 goroutines, 1 group version; `APIResource` and `APIResourceList`; 1 change; backend on disk | `NoLostWaiter`, `FlightInv`, `SteadyKindFound`, `ListsShareFlights` |
| `discovery_live` | 2 goroutines, 1 group version; lookups by apiVersion and over all, and invalidations; 1 change; both backends; fair | `TypeOK`, `CallsReturn`, `QueriesShareFlights` |
| `discovery_stale` | 2 goroutines, 1 group version | `InvalidateGivesFreshData` violated |
| `client_init` | 2 goroutines, 3 `Init`s, real or fake client, every option at any time; 1 config with and 1 without a `Host` to hand in; fair | `EveryPathWrapped`, `ReadyMeansWhole`, `NamespaceMatchesConfig`, `ClientInv`, `ConfigStays`, `CallsGetThrough`, `IsOneClient` |
| `client_used_early` | 2 goroutines, `EarlyUse` | `EveryPathWrapped` violated |
| `metrics_any` | 3 clients, 2 storages, 2 prefixes (one empty), 1 extra label: all 512 setups | `MetricsInv`, `ResultsCounted`, `InitsCoexist`, `ResultsShareFate` |
| `metrics_own_prefix` | 2 clients with nothing in common | `SamplesHaveOwnPrefix` violated |
| `fake_versions` | 2 clusters of versions 1.16 and 1.27, real `apps` and `batch` lists, 3 custom resources | `DiscoveredCanBeListed`, `ShownOnce`, `RegisteredIsFound`, `FindersAgree`, `SimpleObjectsCanBeDeleted`, `ObjectsStay`, `CRDsStayInTheirCluster`, `EachIsAnApi` |
| `fake_shared` | 2 clusters of one version | `CRDsStayInTheirCluster` violated |
| `fake_tables` | all tables in full | `EveryResourceFound`, `StableVersionPreferred` |
| `manifests_list` | streams of up to 7 lines of 7 sorts | `ListIsComplete`, `SplitKeepsDocuments`, `ListedCanBeMoved` |

### Bounds

- *Discovery.* `MaxChanges` bounds the changes of the cluster; it guards nothing
  else. `Backends` says which backends `Init` may choose; for one group version
  asked for by name they differ only in the time to live. One change is enough for
  a cache entry, a flight or a stored answer to be older than the cluster; the
  initial cluster is any. Two goroutines make every pair of steps that can disturb
  one another; a third adds a second waiter and a leader that waits itself, which
  is why `NoLostWaiter` is checked with three. Two group versions are what a
  partial failure needs, and of one group, the first preferred, because then a
  kind that both serve is shown in one list and has to move to the other when the
  first fails; more only add answers of the same sorts. All but `CallsReturn` is
  proved for all sizes and for any number of changes, and of `CallsReturn` what is
  not about fairness (see [Proofs](#proofs)).
- *ClientInit.* `MaxInits = 3`: two failures, at different places, and a success;
  or a success, a failure or another success on the client in use, and a third.
  `MaxGiven = 1`: next to nil, a config without a `Host` and those that `Init`
  makes, one config to hand in is enough for a client to be moved to another
  cluster and to be handed back. Two goroutines: one in the function of the
  `Once`, one that waits or comes later. The safety properties are proved for all
  sizes.
- *Metrics.* Three clients are the one that registers, the one whose backend
  client-go keeps, and the one that sends. Proved for all sizes.
- *FakeCluster.* Two clusters, to see sharing; custom resources that fall into a
  list of the table, that make a new list, and that repeat a kind in another
  group. The properties are proved for any number of clusters, objects and custom
  resources, and for any tables.
- *Manifests.* `MaxLines = 7` has room for four documents with a marker between
  them, for three with two markers between one pair and blank lines about, and for
  six markers in a row: whether a marker separates depends on how many come before
  it in its row, even or odd. An error can come before, between and after whole
  documents. Proved for streams of any length.

`SYMMETRY` is used over goroutines (clients and storages in `metrics_any`), which
no definition tells apart, in `discovery_mixed`, `discovery_three` and
`metrics_any`. They check invariants and two properties of steps that are
symmetric too (`CallsGoForward`, and the steps of `ListsShareFlights`); no run
with a liveness property uses it.

### Fairness

`discovery_live` assumes weak fairness of the steps of each goroutine and of
each query: Go's scheduler runs what can run, and a request to the API server
is answered or times out. It assumes strong fairness of `Lock`: a goroutine may
find `mu` taken again and again, and Go's `sync.Mutex` hands itself to a waiter
that has waited long (starvation mode). Nothing is assumed of the cluster, of
new calls or of the time to live.

`client_init` assumes weak fairness of the steps of a discovery call that has
begun. Nobody has to call `Init` or to begin a call; the function of the `Once`
makes no request, so it always ends.

### What the discovery properties leave out, and why

`SteadyKindFound` excludes calls that began, or last invalidated, while a
flight of another goroutine was in progress: such a call may be handed the old
answer of that flight, or find it in the cache afterwards. That is the
divergence `discovery_stale` shows, not a limit of the model. It also excludes
one case the retries do not cover: a lookup over all group versions whose
cached group list has no member that answers ends in an error that says neither
"not found" nor is NotFound, so nothing is invalidated although the list may be
old.

### Mutants

Each property of a passing run has a mutant in the module it is about: a
definition that differs from the code's as a plausible bug would, before the one
it replaces, and commented as a mutant. With it TLC finds the property violated.

## Proofs

Theorems hold for all values of the constants that satisfy the named assumptions
of the modules, which TLC evaluates on every run.

| theorem | says |
|---|---|
| `DiscoveryProofs!TypeCorrect` | `Spec => []TypeOK` |
| `DiscoveryProofs!FlightsAgree` | `Spec => []FlightInv` |
| `DiscoveryProofs!BackendIsProtected` | `Spec => []BackendProtected` |
| `DiscoveryProofs!NobodyIsLost` | `Spec => []NoLostWaiter` |
| `DiscoveryProofs!CallsOnlyGoForward` | `Spec => CallsGoForward` |
| `DiscoveryProofs!QueriesImplementFlights` | `Spec => QueriesShareFlights` |
| `DiscoveryProofs!ListsImplementFlights` | `Spec => ListsShareFlights` |
| `DiscoveryFreshness!HistoryAgrees` | `Spec => []HistoryInv` |
| `DiscoveryFreshness!FreshnessIsKept` | `Spec => []FreshInv` |
| `DiscoveryFreshness!ListsAreCurrent` | `Spec => []FlushedListIsCurrent` |
| `DiscoveryFreshness!SteadyKindIsFound` | `Spec => []SteadyKindFound` |
| `ClientInitProofs!ClientInvHolds` | `Spec => []ClientInv`, without early use |
| `ClientInitProofs!AllCallsWrapped` | `Spec => []EveryPathWrapped`, without early use |
| `ClientInitProofs!ReadyClientIsWhole` | `Spec => []ReadyMeansWhole`, without early use |
| `ClientInitProofs!NamespaceIsOfConfig` | `Spec => []NamespaceMatchesConfig`, without early use |
| `ClientInitProofs!ClientStays` | `Spec => ConfigStays`, without early use |
| `ClientInitProofs!ClientIsOne` | `Spec => IsOneClient`, without early use |
| `MetricsProofs!CountersEnrolled` | `Spec => []MetricsInv` |
| `MetricsProofs!CompatibleClients` | `Spec => []InitsCoexist` |
| `MetricsProofs!NoResultIsLost` | `Spec => []ResultsCounted` |
| `MetricsProofs!ResultsAreAlike` | `Spec => []ResultsShareFate` |
| `FakeClusterProofs!LookupsAlwaysAgree` | `Spec => []FindersAgree` |
| `FakeClusterProofs!RegisteredAreFound` | `Spec => []RegisteredIsFound` |
| `FakeClusterProofs!ObjectsAlwaysStay` | `Spec => ObjectsStay` |
| `FakeClusterProofs!DiscoveredIsListed` | `Spec => []DiscoveredCanBeListed`, clusters of different versions |
| `FakeClusterProofs!NothingIsShownTwice` | `Spec => []ShownOnce`, clusters of different versions |
| `FakeClusterProofs!SimpleObjectsAreDeletable` | `Spec => []SimpleObjectsCanBeDeleted`, clusters of different versions |
| `FakeClusterProofs!CRDsStayAlone` | `Spec => []CRDsStayInTheirCluster`, clusters of different versions |
| `FakeClusterProofs!ClustersAreApis` | `Spec => EachIsAnApi`, clusters of different versions |
| `FakeTableLookupProofs!TablesAreSearched` | `Spec => []EveryResourceFound`, any tables |
| `FakeTableLookupProofs!StableVersionsAreFirst` | `Spec => []StableVersionPreferred`, tables with stable versions first |
| `ManifestsProofs!DocumentsSurvive` | `Spec => []SplitKeepsDocuments` |
| `ManifestsProofs!AllDocumentsAreListed` | `Spec => []ListIsComplete` |
| `ManifestsProofs!ListedAreMoved` | `Spec => []ListedCanBeMoved` |

*Discovery.* Assumed: `ConstantsOK` (the empty apiVersion is no group version,
nobody is no goroutine, there is some call). `BackendProtected` is not
inductive: that two goroutines are not inside the backend at once follows from
each of them being *the* leader of the one flight, so `FlightInv` ties `inner`
to the goroutine that is looking up, asking or storing, `outer` to the one
whose listing runs for that key, `mu` to the one in `Invalidate`, and a waiter
to a flight that exists. `TypeOK /\ FlightInv` is inductive: there is a lemma
per action for types and another for flights, and the steps in which a flight
ends (`Answered`, `Deliver`) have lemmas of their own, because they alone touch
goroutines other than the one that moves. The two promises then follow from
`FlightInv` without another induction.

*Progress.* That calls return is liveness, but most of why they do is not.
`NoLostWaiter` says that a goroutine waits only for one that can end its wait:
for a flight, for the leader that is on its way through it, which at the inner
level is inside the backend and waits for nobody; for `mu`, for the goroutine in
`Invalidate`, which waits for nobody either. So no goroutines wait for one another
in a circle. `CallsGoForward` says that whatever step anybody takes, a call is
left as it is or is nearer to its end. The measure has three parts, the first
that differs deciding: the retries the call has left (`RoundsLeft`: `APIResource`
asks twice, and `APIResourceList` twice each time), the way through a round
(`StepsLeft`), and for each group version the way through its query
(`QueryLeft`). The steps that go back, the two retries, use up a retry; the answer
that ends a flight moves those who joined it too, and forward. A call therefore
takes fewer than 40 steps besides those of its queries, and no query more than
six in a round. That whoever can move does move is fairness, and only TLC
checks it.

*Flights.* Initial states map to initial states and steps to steps or stutters,
by the action: `LeadQuery` is `Begin`, `JoinQuery` is `Join`, `Answered` is
`End`, `QueriesDone` uses the answers of all queries of the listing, and all
else is a stutter at the inner level; `LeadList`, `JoinList`, a `Deliver` by the
leader, and the steps that leave `pc = "got"` do the same at the outer one.
`FlightInv` gives what `Flights` demands of a caller, that it leads and waits
for nothing when it begins. At the outer level one more invariant is needed,
`DirectInv`: whoever is in a listing leads its flight, unless its call is
direct, and a direct call never joins or retries - so that a delivery is either
the end of a flight or the business of nobody else.

*Freshness.* `FlushedListIsCurrent` and `SteadyKindFound` speak of the moment a
call returns; an answer from before its invalidation can hide in many places
until then. `FreshInv` names them all. It says of each call that began, or last
invalidated, with no flight of another goroutine in progress, and of each group
version that has served its kind ever since:

- once the call has invalidated (`Current`), the kind is in the cache entry if
  there is one, in every answer about to be stored, whichever goroutine stores it,
  in every answer that has come to a query of a listing this call will get the
  result of (`Serving`: its own, and that of the leader it waits for), and its own
  result shows it, in that version or one before it (`Shows`); for a lookup over
  all group versions the cached group list, and any about to be stored, has the
  group version, and so the listings have a query for it;
- invalidated or not, a call for this very group version gets no error but a "not
  found" (`Answering`). `APIResourceList` answers that by invalidating, and
  `APIResource` does so for a list without the kind, so neither is the end of a
  call that has not invalidated yet.

What makes it inductive: a query of another goroutine that reached the server
before the call invalidated would be in a flight then, so the call does not count
(`NoFlight`, from `FlightInv`); everything asked later is answered by a server
that serves the kind; `Invalidate` empties cache and group list in one step; and
an answer is handed from a flight to those who joined it after it was asked.
`HistoryInv` is proved first: history and retries agree with the calls, a listing
has queries for what its call asks for, and only answers the backend caches are
about to be stored. `SteadyKindFound` then follows case by case of `Resolve`: a
call that has not been through both retries would be on its way to one. That a
listing of all shows a kind that one of its answers has is `AnswerIsShown`: of
the versions of the group whose answers have it, there is a first
(`LessIsWellFounded`), and `Kept` leaves it there. This uses `VersionsOK`, that the
versions of a group have an order.

*ClientInit.* Assumed: `InitConstantsOK` and, in the theorems, `~EarlyUse` -
with it `EveryPathWrapped` is false (`client_used_early`). `ClientInv` has three
parts besides types and `EveryPathWrapped` itself. `Building` says how much of the
client is made of `config` at each step of `Init`, and that `config` is the one
there, if there is one; the fields left by an `Init` that failed do not matter
since the next one assigns each before it goes on. `Naming` says what namespace
goes with `config`: its own if it has not opened the client before, and "default"
if it has; it needs that a config that is there was handed in, and then has
"default" for its own, or has opened the client (`Commit` counts it), and that one
which an `Init` makes is new. `WrapProgress` says that the `Once` is fresh until
the client is ready, and that what was wrapped is a backend of the config that is
there, unless the caller has handed in another since: an `Init` alone never
replaces that config, which is also what `ConfigStays` says. `IsOneClient` maps
steps to steps: a step of `Init` leaves readiness and all that a ready client is
made of, or ends readiness, or is `Commit` (`InitStepOpens`), or hands in a config;
then `ReadyMeansWhole` gives that what is opened is of one config, and
`EveryPathWrapped` where a call goes.

*Metrics.* `Enrolled` says that each vector was registered with the setup of
some client, that a client past its registrations finds its counter, and that
the backend in client-go is that of such a client. With compatible setups the
name then determines storage and labels, which is all that `ResultsCounted` and
`InitsCoexist` need. `ResultsShareFate` holds of setups that clash as well. Its
invariant (`FateInv`) is that a name is registered once and that what became of
each result is what would become of the next: client-go keeps its first backend,
the counter of that backend was there before it (`Enrolled`), vectors stay, and
no other can take the counter's name with other labels.

*FakeCluster.* Assumed: `TablesOK` - each group version has one list in a table,
each kind one place in a list, `AnyVersion` is no group version, and clusters are
told apart from versions. That the 21 tables of the repository are such tables is
`AllTablesOK`, which TLC evaluates on the data itself in `fake_versions`.

Three properties hold whatever versions the clusters have, although registrations
in one change the lists of another. `ClustersInv` says that a table keeps its
group versions in their order however it grows, that a cluster refers to lists of
its version and of its own, that the dynamic client in use was made with all of
`gvrList`, and that each cluster shows *one list per group version*. The last is
what the two lookups differ in: the cluster's goes through all lists of a version,
the client's takes the first; with one list they agree (`FindersAgree`).
`RegisteredShown` adds that what a table had, and what was registered, is in
`gvrList`, and `gvrList` in what is shown - for a shared list because it only
grows (`RegisteredIsFound`). `ObjectsStay` needs that a reload, which drops all
objects, comes with a change of `listKinds`: `RegisterCRD` goes on only when the
resource is new to the cluster.

The rest needs that the clusters have different versions (`SeparateVersions`), the
way they are meant to be used; for clusters of one version `fake_shared` refutes
the claim that it would rest on, `CRDsStayInTheirCluster`, which is itself proved
for different versions. The invariant is stated per cluster: one that is alone
with its version (`Alone`) has in `gvrList` exactly what it shows, shows nothing
twice, and stores each object that `simples` has and finds it under the name it
was made by (`ShowsItsOwn`); a registration goes on only for a resource that is
new (`RegisteredShown`), and then `simples` is empty. Since a cluster that is not
alone never touches the lists of one that is, it is preserved by the steps of all.
`EachIsAnApi` follows action by action: `NewFakeCluster` is `Make`; a
`RegisterCRD` that goes on is `Learn`, because `Known` compares with `gvrList`,
and that is what is shown; a `Create` is `Put`, of a resource that was found and
is therefore shown (`FoundIsShown`); an `Update` is a stutter, for it replaces an
object under its own key; and none of these changes what another cluster shows.

*The tables themselves.* Assumed: `TablesAreLists` - a table is a sequence of
lists of kinds, one for each group version. The two lookups then agree, and a
resource is found under its own (`TablesAreSearched`). That a lookup without
apiVersion finds a stable version has its cause in the order of the tables: if
each has the stable versions of a group before others with a kind of theirs
(`StableFirst`), the first place of the kind cannot be in another
(`StableVersionsAreFirst`). That the 21 tables are so ordered is
`AllTablesInOrder`, which TLC evaluates in `fake_versions` as well.

*Manifests.* Assumed: `LinesOK` - a text with a name has metadata to hold it.
`IsSeparator` is a recursive function; that it satisfies its own equation is
proved without induction, which the provers cannot be given for an operator: were
it wrong somewhere, it would be wrong at a least place, and right at all before
(`SeparatorIs`). The lemma `Least` gives that least place, from the library's
well-founded order of the numbers. Pieces are then the lines from one start to
the next (`PieceIs`): the key of a piece is the rank of its start, ranks grow with
the lines and leave none out (`RankGrows`, `RankReached`), so pieces lie in
order and do not overlap. The line before a text, blank ones aside, is a marker,
if there is one. Either it separates, and the text begins a piece; or the marker
before it did, and it is the head of the piece, which the decoder skips: each
text is read from one piece (`TextIsRead`).
`ReadInv`, on top of it, says that the visited keys and the listed documents
correspond one to one, that a broken document ends the call and is never among the
visited, and that only what has been listed was moved.

Only model-checked: `CallsReturn` and `CallsGetThrough`, because liveness under
fairness is outside the prover's reach; what `CallsReturn` rests on besides
fairness is proved (*Progress* above), and what `CallsGetThrough` rests on is in
`ClientInv`: while the `Once` runs, exactly one goroutine is in its function.

## Where code and comments disagree

With a run that shows it:

- A retry that follows an invalidation can be handed an answer from before it
  (`discovery_stale`, `client/client.go:564`, against the comment at 686).
- A discovery method called before `Init` spends the `sync.Once`, and the client
  never gets its wrapper (`client_used_early`, `client/client.go:547`, against
  101).
- Requests of all clients are counted under the prefix of the first
  (`metrics_own_prefix`, `client/client.go:324`, against
  `internal/metrics/metrics.go:14`).
- A custom resource registered for one fake cluster shows in others of its version
  (`fake_shared`, `fake/cluster.go:96`, against 74).

Seen in the model, too plain for a run:

- `ServerGroups` is not overridden by `sfCachedDiscovery`, so two listings may
  store the group list at once (`GroupsStore`), against `client/client.go:101`.
- `RegisterKubernetesClientMetrics` "registers all" metrics
  (`internal/metrics/metrics.go:76`), but not the rate limiter's, whose samples
  the default storage drops (`Observe`).
- Extra labels are "attached to every metric sample" (`client/client.go:165`);
  the rate limiter's samples have none (`Observe`).
- "An empty prefix removes the placeholder" (`client/client.go:172`); `Init`
  replaces an empty prefix by `kube_client_` (`Prefix`).
- All discovery calls go through the wrapper (`client/client.go:101`), but the
  wrapper is made once: after `WithRestConfig` and an `Init` on a client whose
  discovery was used, the clients are of the config handed in, and discovery, its
  cache and its invalidations are of the one before. `EveryPathWrapped` has the
  exception (`swapped`); without it TLC gives that sequence of calls.
- Manifests are to be "in the same order as the input"
  (`manifest/releaseutil/manifest.go:42`); they come in the order of a map (`Visit`).

## Not modelled

- `klogtolog/adapter.go`: a conversion without state.
- What is in kubeconfigs and pod files, which client-go reads: `ClientInit` knows
  a source only as loaded or not loaded.
- Rate limits, timeouts and content types: values written into the config, also
  into one that the caller handed in. A config is known by its identity.
- `fake/scripts`: run by hand against a live cluster, prints a table.
- YAML itself, with its directives (`%YAML`) and end markers (`...`), which the
  splitter does not know and charts do not contain; a manifest's `Id`;
  `BySplitManifestsOrder`, which nothing uses.
- An apiVersion that does not parse (`client/client.go:602`), which ends a lookup
  with an error before it reaches the wrapper: it is not among the `Keys`.
- Short names, verbs, scopes and plural names of resources; values and buckets
  of metrics.
- client-go is modelled only as this code uses it: its cached discovery, its
  listing of all group versions, its metrics registry, its fake trackers.

## Plan

Done: the modules, runs and theorems above; every invariant and every property
of steps that a run checks and finds to hold is also a theorem. What is left:

1. *Real clusters.* Short names and resources without verbs in `ResourceLookup`,
   for a client's search through the lists of a cluster that is not fake, and the
   lemma that the two lookups still agree on lists without either.
2. *Clients together.* `Discovery` on top of `OneClient`: an `Init` called again
   between two discovery calls makes a second backend, which nobody uses, and with
   a config handed in a second cluster; today the two modules meet only in the
   statement that calls go to the first wrapper.
