------------------------------ MODULE Metrics ------------------------------
(***************************************************************************)
(* The metrics of the clients of a process: their registration by Init     *)
(* (client/client.go, internal/metrics), the default storage on top of     *)
(* Prometheus' registry (client/default_metric_storage.go), the one        *)
(* backend that client-go takes for the whole process, and the samples of  *)
(* the requests. Clients initialise concurrently, each in its goroutine;   *)
(* a storage given to several clients works as the default one does.       *)
(***************************************************************************)
EXTENDS FiniteSets

CONSTANTS
    Clients,
    Storages,
    Prefixes,     \* prefixes for WithMetricPrefix, "" among them or not
    ExtraLabels,  \* keys for WithMetricLabels
    Setups,       \* ways the program sets its clients up
    NoBackend     \* client-go has no backend yet

Setup == [storage : Storages, prefix : Prefixes, labels : SUBSET ExtraLabels]

ASSUME SetupsOK == Setups \subseteq [Clients -> Setup]

\* The templates of the metric names.
Latency     == "request_latency"
Result      == "request_result"
RateLimiter == "rate_limiter_latency"
Templates   == {Latency, Result, RateLimiter}

\* The label keys of each metric, the caller's extra ones apart.
Keys(template) == IF template = Result THEN {"code", "method", "host"} ELSE {"verb", "url"}

VARIABLES
    setup,     \* how the clients are set up
    pc,        \* where the Init of each client is
    vecs,      \* the vectors each storage has registered with Prometheus
    backend,   \* the setup of the client whose backend client-go has
    samples    \* history: what became of the samples of requests

vars == <<setup, pc, vecs, backend, samples>>

InitPC == {"new", "histogram", "counter", "install", "ready", "panic"}

\* The prefix that Init gives to a client without one.
Default == "kube_client_"
Prefix(s) == IF s.prefix = "" THEN Default ELSE s.prefix

\* Mutant of Name: one prefix for the whole process.
GlobalName(template, prefix) == <<Default, template>>

\* ReplacePrefix.
Name(template, prefix) == <<prefix, template>>

Names  == {Name(t, p) : t \in Templates, p \in Prefixes \cup {Default}}
Vec    == [storage : Storages, name : Names,
           keys : SUBSET (ExtraLabels \cup Keys(Result) \cup Keys(Latency))]

Init ==
    /\ setup \in Setups
    /\ pc = [c \in Clients |-> "new"]
    /\ vecs = {}
    /\ backend = NoBackend
    /\ samples = {}

-----------------------------------------------------------------------------
Step(c, from, to) ==
    /\ pc[c] = from
    /\ pc' = [pc EXCEPT ![c] = to]

\* A client's Init comes to its metrics; also when an Init that failed later on
\* is called again.
InitCall(c) ==
    /\ \/ Step(c, "new", "histogram")
       \/ Step(c, "ready", "histogram")
    /\ UNCHANGED <<setup, vecs, backend, samples>>

\* A vector is registered, under the storage's mutex. The storage returns the
\* one it has of that name, whatever its labels; else it makes one, and
\* MustRegister panics if another storage has registered the name.
Enrol(c, template, from, to) ==
    LET name == Name(template, Prefix(setup[c]))
        same == {v \in vecs : v.name = name}
    IN /\ \/ /\ \E v \in same : v.storage = setup[c].storage
             /\ Step(c, from, to)
             /\ UNCHANGED vecs
          \/ /\ same = {}
             /\ Step(c, from, to)
             /\ vecs' = vecs \cup {[storage |-> setup[c].storage, name |-> name,
                                    keys |-> setup[c].labels \cup Keys(template)]}
          \/ /\ same # {}
             /\ \A v \in same : v.storage # setup[c].storage
             /\ Step(c, from, "panic")
             /\ UNCHANGED vecs
       /\ UNCHANGED <<setup, backend, samples>>

\* RegisterKubernetesClientMetrics.
RegisterHistogram(c) == Enrol(c, Latency, "histogram", "counter")
RegisterCounter(c)   == Enrol(c, Result, "counter", "install")

\* Mutant of Install: client-go has the backend before the metrics are registered.
InstallFirst(c) ==
    /\ pc[c] \in {"histogram", "install"}
    /\ backend' = IF backend = NoBackend THEN setup[c] ELSE backend
    /\ pc' = IF pc[c] = "install" THEN [pc EXCEPT ![c] = "ready"] ELSE pc
    /\ UNCHANGED <<setup, vecs, samples>>

\* Mutant of Install: the last call has effect.
InstallLast(c) ==
    /\ Step(c, "install", "ready")
    /\ backend' = setup[c]
    /\ UNCHANGED <<setup, vecs, samples>>

\* clientgometrics.Register: the first call of the process has effect.
Install(c) ==
    /\ Step(c, "install", "ready")
    /\ backend' = IF backend = NoBackend THEN setup[c] ELSE backend
    /\ UNCHANGED <<setup, vecs, samples>>

-----------------------------------------------------------------------------
\* A sample with these label keys for the metric of that template, as request
\* backends write it to the storage: dropped if the storage has no such vector,
\* a panic if the vector was made with other labels.
Emit(c, metric, template, keys) ==
    LET name == Name(template, Prefix(backend))
        mine == {v \in vecs : v.storage = backend.storage /\ v.name = name}
    IN /\ samples' = samples \cup
              {[client |-> c, metric |-> metric, name |-> name, keys |-> keys,
                outcome |-> CASE mine = {} -> "dropped"
                              [] \E v \in mine : v.keys = keys -> "counted"
                              [] OTHER -> "panic"]}
       /\ UNCHANGED <<setup, pc, vecs, backend>>

\* Mutant of Increment: the extra labels are left out.
IncrementBare(c) ==
    /\ pc[c] = "ready" /\ backend # NoBackend
    /\ Emit(c, Result, Result, Keys(Result))

\* RequestResult.Increment, called by client-go for a request of client c.
Increment(c) ==
    /\ pc[c] = "ready" /\ backend # NoBackend
    /\ Emit(c, Result, Result, backend.labels \cup Keys(Result))

\* RateLimiterLatency.Observe: Init hands it to client-go as the backend of the
\* request latency.
Observe(c) ==
    /\ pc[c] = "ready" /\ backend # NoBackend
    /\ Emit(c, Latency, RateLimiter, Keys(RateLimiter))

Next ==
    \E c \in Clients :
        \/ InitCall(c) \/ RegisterHistogram(c) \/ RegisterCounter(c) \/ Install(c)
        \/ Increment(c) \/ Observe(c)

Spec == Init /\ [][Next]_vars

-----------------------------------------------------------------------------
\* The setups in which clients do not get in each other's way: those of one
\* prefix share their storage and their extra labels.
Compatible(s) ==
    \A c, d \in Clients :
        Prefix(s[c]) = Prefix(s[d]) => s[c].storage = s[d].storage /\ s[c].labels = s[d].labels

\* Every variable has its type (the history of samples apart).
TypeOK ==
    /\ setup \in Setups
    /\ pc \in [Clients -> InitPC]
    /\ vecs \subseteq Vec
    /\ backend \in Setup \cup {NoBackend}

\* A vector was registered for a client that has come past that step of Init,
\* and with that client's labels.
Enrolled ==
    /\ \A v \in vecs : \E c \in Clients, t \in {Latency, Result} :
         v = [storage |-> setup[c].storage, name |-> Name(t, Prefix(setup[c])),
              keys |-> setup[c].labels \cup Keys(t)]
    /\ \A c \in Clients : pc[c] \in {"install", "ready"} =>
         \E v \in vecs : v.storage = setup[c].storage /\ v.name = Name(Result, Prefix(setup[c]))
    /\ backend # NoBackend =>
         /\ \E c \in Clients : backend = setup[c]
         /\ \E v \in vecs : v.storage = backend.storage /\ v.name = Name(Result, Prefix(backend))

\* The inductive invariant, whatever the setups (default_metric_storage.go:26-41).
MetricsInv == TypeOK /\ Enrolled

\* Between compatible clients every request result is counted: whichever client
\* got its backend to client-go, the counter is registered before a request can
\* use it, and with the labels the samples have (client.go:323-327,
\* metrics.go:140-151).
ResultsCounted ==
    Compatible(setup) => \A s \in samples : s.metric = Result => s.outcome = "counted"

\* Compatible clients coexist: no Init panics, however their steps interleave,
\* although each storage registers in Prometheus' global registry and an Init may
\* be called again (metrics.go:14-17, default_metric_storage.go:26-41).
InitsCoexist == Compatible(setup) => \A c \in Clients : pc[c] # "panic"

\* The results of a process share one fate, whatever the setups: they all go to
\* one counter, and either each of them is counted or each of them panics, for
\* requests of all clients and from the first request on. Inits that are still to
\* come, or are called again, do not change it, and no result is ever dropped
\* (client.go:323-327, default_metric_storage.go:26-51).
ResultsShareFate ==
    \A s, t \in samples : s.metric = Result /\ t.metric = Result =>
        s.name = t.name /\ s.keys = t.keys /\ s.outcome = t.outcome /\ s.outcome # "dropped"

\* A client's samples carry its own prefix: "prefix resolution is per-instance
\* rather than global, so multiple Client objects with different prefixes can
\* coexist safely" (metrics.go:14-17).
SamplesHaveOwnPrefix ==
    \A s \in samples : \E t \in Templates : s.name = Name(t, Prefix(setup[s.client]))
=============================================================================
