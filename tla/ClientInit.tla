----------------------------- MODULE ClientInit -----------------------------
(***************************************************************************)
(* The life of a Client (client/client.go): New, the With options, Init    *)
(* with its early returns, called again after a failure or on a client     *)
(* that is ready, and the lazy construction of the discovery wrapper by    *)
(* the first discovery call (initSFDiscovery).                             *)
(*                                                                         *)
(* A rest.Config is known by a number, a client built from it by the same  *)
(* number: the properties only ask what was built from what.               *)
(***************************************************************************)
EXTENDS Integers

CONSTANTS
    Procs,     \* goroutines that use the client
    MaxInits,  \* bound on the calls of Init
    MaxGiven,  \* how many configs with a Host there are to hand in
    EarlyUse   \* discovery methods may be called before Init has succeeded

ASSUME InitConstantsOK ==
    /\ MaxInits \in Nat
    /\ MaxGiven \in Nat
    /\ EarlyUse \in BOOLEAN

None      == 0   \* nil
Broken    == -1  \* a nil pointer in an interface that is not nil
Simulated == -2  \* what the clients of NewFake are made from

\* The configs that Inits make, each known by the number of the call, and those
\* that are handed to WithRestConfig, the last of which has no Host.
NoHost   == MaxInits + MaxGiven + 1
Made     == 1..MaxInits
HandedIn == (MaxInits + 1)..NoHost
Config   == 1..NoHost
Field    == Config \cup {None, Broken, Simulated}

\* What a config is made from: the one handed in, the server named, the
\* kubeconfig or context named, the kubeconfig found, or the files of a pod.
Sources == {"given", "server", "named", "default", "pod"}

Namespaces == {"", "default", "kubeconfig", "pod"}

NamespaceOf(source) ==
    CASE source \in {"given", "server"}  -> "default"
      [] source \in {"named", "default"} -> "kubeconfig"
      [] source = "pod"                  -> "pod"

VARIABLES
    fake,             \* the client was made by NewFake
    server,           \* WithServer was called
    named,            \* WithConfigPath or WithContextName was called
    Interface, dynamicClient, apiExtClient, metadataClient,
    cachedDiscovery,  \* the backend, by the config it was made from
    sfDiscovery,      \* the wrapper, by the backend it wraps
    sfDiscoveryOnce,  \* "fresh", "running" or "done"
    wrappers,         \* history: how many wrappers were made
    restConfig,
    defaultNamespace,
    ipc,              \* where the goroutine that runs Init is
    config,           \* Init's local config
    inits,            \* calls of Init so far
    ready,            \* the last one succeeded
    origin,           \* history: the source each config was made from
    opens,            \* history: how many Inits succeeded with each config
    handed,           \* history: a config was handed in since the last Init
    swapped,          \* history: a config was handed in since the Init whose
                      \* backend the first discovery call found or will find
    pc,               \* where each goroutine is in its discovery call
    used              \* history: what its last discovery call went to

options  == <<fake, server, named>>
clients  == <<Interface, dynamicClient, apiExtClient, metadataClient>>
settings == <<restConfig, defaultNamespace>>
wrapping == <<sfDiscovery, sfDiscoveryOnce, wrappers>>
progress == <<ipc, config, inits, ready, origin, opens>>
handing  == <<handed, swapped>>
calls    == <<pc, used>>
vars == <<options, clients, settings, cachedDiscovery, wrapping, progress, handing, calls>>

AfterConfig == {"interface", "dynamic", "apiExt", "metadata", "backend", "commit"}
InitPC == {"idle", "config"} \cup AfterConfig
CallPC == {"idle", "once", "body", "go"}

\* What a discovery call goes to: a wrapper (which one, and the backend in it),
\* the backend without a wrapper, the discovery client of Interface, or nothing;
\* and the config of the client beside it, if the client was ready then.
Use == [how : {"never", "wrapper", "backend", "interface", "nothing"},
        of : Field, id : Nat, beside : Field]
Unused == [how |-> "never", of |-> None, id |-> 0, beside |-> None]

-----------------------------------------------------------------------------
Init ==
    /\ fake \in BOOLEAN
    /\ server = FALSE
    /\ named = FALSE
    /\ restConfig = None
    /\ Interface = IF fake THEN Simulated ELSE None
    /\ dynamicClient = Interface
    /\ metadataClient = Interface
    /\ apiExtClient = None
    /\ cachedDiscovery = None
    /\ sfDiscovery = None
    /\ sfDiscoveryOnce = "fresh"
    /\ wrappers = 0
    /\ defaultNamespace = IF fake THEN "default" ELSE ""
    /\ ipc = "idle"
    /\ config = None
    /\ inits = 0
    /\ ready = fake
    /\ origin = [c \in Config |-> "given"]
    /\ opens = [c \in Config |-> 0]
    /\ handed = FALSE
    /\ swapped = FALSE
    /\ pc = [p \in Procs |-> "idle"]
    /\ used = [p \in Procs |-> Unused]

-----------------------------------------------------------------------------
(* The With options and Client.Init. One goroutine calls them, while nobody *)
(* is in a discovery call: before it hands the client to others, after an   *)
(* Init that failed, or on a client in use that is quiet.                   *)

Quiet == \A p \in Procs : pc[p] = "idle"

MaySetUp == ipc = "idle" /\ ~fake /\ Quiet

WithServer ==
    /\ MaySetUp
    /\ server' = TRUE
    /\ UNCHANGED <<fake, named, clients, settings, cachedDiscovery,
                   wrapping, progress, handing, calls>>

\* WithConfigPath or WithContextName.
WithNamedConfig ==
    /\ MaySetUp
    /\ named' = TRUE
    /\ UNCHANGED <<fake, server, clients, settings, cachedDiscovery,
                   wrapping, progress, handing, calls>>

\* Any config, or nil, at any time: the clients there are keep the config that
\* they were made from. (To hand in the config that is there changes nothing.)
WithRestConfig ==
    /\ MaySetUp
    /\ \E c \in (HandedIn \cup {None}) \ {restConfig} : restConfig' = c
    /\ handed' = TRUE
    /\ swapped' = TRUE
    /\ UNCHANGED <<options, clients, defaultNamespace, cachedDiscovery,
                   wrapping, progress, calls>>

InitCall ==
    /\ MaySetUp
    /\ inits < MaxInits
    /\ inits' = inits + 1
    /\ ready' = FALSE
    /\ ipc' = "config"
    /\ handed' = FALSE
    /\ UNCHANGED <<options, clients, settings, cachedDiscovery, wrapping, calls,
                   config, origin, opens, swapped>>

\* Init returns an error, with what it has assigned so far.
Fail ==
    /\ ipc' = "idle"
    /\ config' = None
    /\ UNCHANGED <<inits, ready, origin, opens, options, restConfig, wrapping, handing, calls>>

\* Config c is the one to use, with namespace ns.
Take(c, ns) ==
    /\ config' = c
    /\ defaultNamespace' = ns
    /\ ipc' = "interface"
    /\ UNCHANGED <<options, clients, restConfig, cachedDiscovery, wrapping, handing, calls,
                   inits, ready, opens>>

\* The config that is there, handed in or left by an earlier Init, is used
\* before any other, with a namespace that need not be the one it came with.
Reuse ==
    /\ restConfig \notin {None, NoHost}
    /\ Take(restConfig, "default")
    /\ UNCHANGED origin

\* This call makes a config, from a source.
Make(source) ==
    /\ Take(inits, NamespaceOf(source))
    /\ origin' = [origin EXCEPT ![inits] = source]

\* getOutOfClusterConfig: the kubeconfig named, or the one found.
OutOfCluster == IF named THEN "named" ELSE "default"

\* Mutant of ChooseConfig: the server named goes before the config there.
ChooseServerFirst ==
    /\ ipc = "config"
    /\ \/ ~server /\ Reuse
       \/ server /\ Make("server")
       \/ restConfig = None /\ ~server /\ \E source \in {OutOfCluster, "pod"} : Make(source)

\* Mutant of ChooseConfig: the config is kept although Init may still fail.
ChooseAndKeep ==
    /\ ipc = "config"
    /\ \/ Reuse
       \/ /\ restConfig = None
          /\ \E source \in IF server THEN {"server"} ELSE {OutOfCluster, "pod"} :
               /\ origin' = [origin EXCEPT ![inits] = source]
               /\ defaultNamespace' = NamespaceOf(source)
          /\ config' = inits /\ restConfig' = inits
          /\ ipc' = "interface"
          /\ UNCHANGED <<options, clients, cachedDiscovery, wrapping, handing, calls,
                         inits, ready, opens>>

\* Without a config and a server, the kubeconfig is used if it can be loaded,
\* and else the files of a pod if they are there and can be: all of which is up
\* to the environment.
ChooseConfig ==
    /\ ipc = "config"
    /\ \/ Reuse
       \/ restConfig = None /\ server /\ Make("server")
       \/ restConfig = None /\ ~server /\ \E source \in {OutOfCluster, "pod"} : Make(source)

NoConfig ==
    /\ ipc = "config"
    /\ restConfig = NoHost \/ (restConfig = None /\ ~server)
    /\ Fail
    /\ UNCHANGED <<clients, defaultNamespace, cachedDiscovery>>

\* The next step of Init is to.
Proceed(to) ==
    /\ ipc' = to
    /\ UNCHANGED <<options, settings, wrapping, handing, calls,
                   config, inits, ready, origin, opens>>

\* kubernetes.NewForConfig and dynamic.NewForConfig return pointers: on an error
\* the interface is left holding a nil pointer.
MakeInterface ==
    /\ ipc = "interface"
    /\ \/ Interface' = config /\ Proceed("dynamic")
       \/ Interface' = Broken /\ Fail /\ UNCHANGED defaultNamespace
    /\ UNCHANGED <<dynamicClient, apiExtClient, metadataClient, cachedDiscovery>>

MakeDynamic ==
    /\ ipc = "dynamic"
    /\ \/ dynamicClient' = config /\ Proceed("apiExt")
       \/ dynamicClient' = Broken /\ Fail /\ UNCHANGED defaultNamespace
    /\ UNCHANGED <<Interface, apiExtClient, metadataClient, cachedDiscovery>>

\* Mutant of MakeApiExt: the error is not checked.
MakeApiExtUnchecked ==
    /\ ipc = "apiExt"
    /\ apiExtClient' \in {config, Broken} /\ Proceed("metadata")
    /\ UNCHANGED <<Interface, dynamicClient, metadataClient, cachedDiscovery>>

MakeApiExt ==
    /\ ipc = "apiExt"
    /\ \/ apiExtClient' = config /\ Proceed("metadata")
       \/ apiExtClient' = Broken /\ Fail /\ UNCHANGED defaultNamespace
    /\ UNCHANGED <<Interface, dynamicClient, metadataClient, cachedDiscovery>>

MakeMetadata ==
    /\ ipc = "metadata"
    /\ \/ metadataClient' = config /\ Proceed("backend")
       \/ metadataClient' = None /\ Fail /\ UNCHANGED defaultNamespace
    /\ UNCHANGED <<Interface, dynamicClient, apiExtClient, cachedDiscovery>>

\* Mutant of MakeBackend: the error is not checked.
MakeBackendUnchecked ==
    /\ ipc = "backend"
    /\ cachedDiscovery' \in {config, Broken, cachedDiscovery} /\ Proceed("commit")
    /\ UNCHANGED clients

\* The disk cache, whose constructor returns a pointer, or the memory cache,
\* which is assigned only after its error has been checked.
MakeBackend ==
    /\ ipc = "backend"
    /\ \/ cachedDiscovery' = config /\ Proceed("commit")
       \/ cachedDiscovery' \in {Broken, cachedDiscovery} /\ Fail /\ UNCHANGED defaultNamespace
    /\ UNCHANGED clients

Commit ==
    /\ ipc = "commit"
    /\ restConfig' = config
    /\ ready' = TRUE
    /\ opens' = [opens EXCEPT ![config] = @ + 1]
    /\ swapped' = (swapped /\ sfDiscoveryOnce # "fresh")
    /\ ipc' = "idle"
    /\ config' = None
    /\ UNCHANGED <<options, clients, defaultNamespace, cachedDiscovery,
                   wrapping, calls, inits, origin, handed>>

InitStep ==
    \/ WithServer \/ WithNamedConfig \/ WithRestConfig
    \/ InitCall \/ ChooseConfig \/ NoConfig \/ MakeInterface \/ MakeDynamic
    \/ MakeApiExt \/ MakeMetadata \/ MakeBackend \/ Commit

-----------------------------------------------------------------------------
(* A discovery call: initSFDiscovery, then the path the call takes.        *)

Goto(p, from, to) ==
    /\ pc[p] = from
    /\ pc' = [pc EXCEPT ![p] = to]

CallBegin(p) ==
    /\ ipc = "idle"
    /\ ready \/ EarlyUse
    /\ Goto(p, "idle", "once")
    /\ UNCHANGED <<options, clients, settings, cachedDiscovery, wrapping, progress, handing, used>>

\* Mutant of OnceEnter: a flag, set by the first caller and read by the others,
\* in place of the sync.Once that makes them wait.
OnceEnterFlag(p) ==
    /\ \/ sfDiscoveryOnce = "fresh" /\ Goto(p, "once", "body") /\ sfDiscoveryOnce' = "running"
       \/ sfDiscoveryOnce # "fresh" /\ Goto(p, "once", "go") /\ UNCHANGED sfDiscoveryOnce
    /\ UNCHANGED <<options, clients, settings, cachedDiscovery,
                   sfDiscovery, wrappers, progress, handing, used>>

\* sync.Once.Do: the first caller runs the function, the others wait for its end.
OnceEnter(p) ==
    /\ \/ sfDiscoveryOnce = "fresh" /\ Goto(p, "once", "body") /\ sfDiscoveryOnce' = "running"
       \/ sfDiscoveryOnce = "done" /\ Goto(p, "once", "go") /\ UNCHANGED sfDiscoveryOnce
    /\ UNCHANGED <<options, clients, settings, cachedDiscovery,
                   sfDiscovery, wrappers, progress, handing, used>>

\* Mutant of OnceBody: without a backend the function does not return.
OnceBodyStuck(p) ==
    /\ cachedDiscovery # None
    /\ Goto(p, "body", "go")
    /\ sfDiscovery' = cachedDiscovery /\ wrappers' = wrappers + 1
    /\ sfDiscoveryOnce' = "done"
    /\ UNCHANGED <<options, clients, settings, cachedDiscovery, progress, handing, used>>

\* A backend that is a nil pointer is not a nil interface: it is wrapped.
OnceBody(p) ==
    /\ Goto(p, "body", "go")
    /\ IF cachedDiscovery # None
       THEN sfDiscovery' = cachedDiscovery /\ wrappers' = wrappers + 1
       ELSE UNCHANGED <<sfDiscovery, wrappers>>
    /\ sfDiscoveryOnce' = "done"
    /\ UNCHANGED <<options, clients, settings, cachedDiscovery, progress, handing, used>>

\* Without a wrapper the lookups fall back to Interface's discovery client, an
\* invalidation does nothing, and ToDiscoveryClient and ToRESTMapper hand out
\* the backend itself. (A lookup that finds no Interface either panics.)
Go(p) ==
    /\ Goto(p, "go", "idle")
    /\ \E how \in IF sfDiscovery # None THEN {"wrapper"} ELSE {"interface", "nothing", "backend"} :
         /\ how = "interface" => Interface \notin {None, Broken}
         /\ used' = [used EXCEPT ![p] =
             [how |-> how,
              of |-> CASE how = "wrapper" -> sfDiscovery
                       [] how = "backend" -> cachedDiscovery
                       [] how = "interface" -> Interface
                       [] how = "nothing" -> None,
              id |-> IF how = "wrapper" THEN wrappers ELSE 0,
              beside |-> IF ready THEN Interface ELSE None]]
    /\ UNCHANGED <<options, clients, settings, cachedDiscovery, wrapping, progress, handing>>

CallStep(p) == CallBegin(p) \/ OnceEnter(p) \/ OnceBody(p) \/ Go(p)

Next == InitStep \/ \E p \in Procs : CallStep(p)

Spec == Init /\ [][Next]_vars

\* A goroutine that has begun a call goes on with it, once it can.
Fairness == \A p \in Procs : WF_vars(OnceEnter(p) \/ OnceBody(p) \/ Go(p))

FairSpec == Spec /\ Fairness

-----------------------------------------------------------------------------
\* Every variable has its type (fields of Client, client.go:82-114).
TypeOK ==
    /\ fake \in BOOLEAN /\ server \in BOOLEAN /\ named \in BOOLEAN
    /\ Interface \in Field /\ dynamicClient \in Field
    /\ apiExtClient \in Field /\ metadataClient \in Field
    /\ cachedDiscovery \in Field /\ sfDiscovery \in Field
    /\ sfDiscoveryOnce \in {"fresh", "running", "done"} /\ wrappers \in Nat
    /\ restConfig \in Config \cup {None} /\ config \in Config \cup {None}
    /\ defaultNamespace \in Namespaces
    /\ origin \in [Config -> Sources] /\ opens \in [Config -> Nat]
    /\ ipc \in InitPC /\ inits \in 0..MaxInits /\ ready \in BOOLEAN
    /\ handed \in BOOLEAN /\ swapped \in BOOLEAN
    /\ pc \in [Procs -> CallPC] /\ used \in [Procs -> Use]

\* All discovery calls of a client that is ready go through one and the same
\* wrapper. Its backend was made from the config that the clients beside it were
\* made from, also after Init was called again on a client in use, unless the
\* caller has handed in another config since the Init that made the backend: the
\* wrapper does not follow the clients to that one (client.go:101-104, 546-554).
EveryPathWrapped ==
    \A p \in Procs :
        used[p].beside # None /\ ~fake =>
            /\ used[p].how = "wrapper" /\ used[p].id = 1
            /\ ~swapped => used[p].of = used[p].beside

\* Every client and the backend of a client that is ready were made from one
\* config, although an Init that failed left others behind, and it is the one
\* that the client reports unless another was handed in since (client.go:301-343).
ReadyMeansWhole ==
    ready /\ ~fake =>
        /\ Interface \in Config
        /\ dynamicClient = Interface /\ apiExtClient = Interface
        /\ metadataClient = Interface /\ cachedDiscovery = Interface
        /\ ~handed => restConfig = Interface

\* The namespace that goes with config c, which Inits have succeeded with n times
\* before: its own the first time.
OwnNamespace(c, n) == IF n = 0 THEN NamespaceOf(origin[c]) ELSE "default"

\* The default namespace of a client that is ready is that of the source its
\* config was made from, although Inits may have failed before, with other
\* sources. An Init that opens the client for the same config again replaces it
\* by "default" (client.go:224-230, 288).
NamespaceMatchesConfig ==
    ready /\ ~fake => defaultNamespace = OwnNamespace(Interface, opens[Interface] - 1)

\* Init never takes a client away from the config that is there, handed in or of
\* an earlier Init, whatever server, kubeconfig or context is named and whether it
\* succeeds or fails. Without one it reports the config it has made only when it
\* succeeds. So once an Init has succeeded, none but the caller, by WithRestConfig,
\* moves the client to another cluster (client.go:223-230, 343).
ConfigStays ==
    [][ipc # "idle" => restConfig' = restConfig \/ (restConfig = None /\ ready')]_vars

\* Every discovery call goes past the sync.Once, on real and on fake clients,
\* whoever is first and whether there is a backend or not (client.go:546-554).
CallsGetThrough == \A p \in Procs : pc[p] # "idle" ~> pc[p] = "idle"

-----------------------------------------------------------------------------
(* What a real client promises, once it is used only when it is ready. *)

Kept  == restConfig
Bound == IF fake THEN None ELSE sfDiscovery
Parts == IF ready /\ ~fake
         THEN {Interface, dynamicClient, apiExtClient, metadataClient, cachedDiscovery}
         ELSE {}

\* A call that did not go through the first wrapper went astray.
ReachedBy(use) ==
    IF use.how = "never" THEN None
    ELSE IF use.how = "wrapper" /\ use.id = 1 THEN use.of ELSE Broken
Reached == [p \in Procs |-> IF fake THEN None ELSE ReachedBy(used[p])]

One == INSTANCE OneClient WITH
    Configs <- Config, Nobody <- None,
    kept <- Kept, parts <- Parts, bound <- Bound, reached <- Reached

\* To the goroutines that share it the client is one: an Init opens it with all of
\* its parts made from the config it keeps, and keeps that until the caller hands
\* in another; an Init called again closes it first; and the calls go to the
\* config that it was open for when the first of them came, or do not take place
\* (client.go:122-125, 200-347, 546-554).
IsOneClient == One!Spec

-----------------------------------------------------------------------------
(* The inductive invariant. *)

\* How far Init is: what it has made is of its config, which is the one there or
\* one that it has made (client.go:223-343).
Building ==
    /\ ipc # "idle" => ~ready /\ Quiet /\ ~handed
    /\ ipc \in AfterConfig =>
         /\ config \in Config /\ config \in {restConfig, inits}
         /\ restConfig # None => config = restConfig
    /\ ipc \in AfterConfig \ {"interface"} => Interface = config
    /\ ipc \in {"apiExt", "metadata", "backend", "commit"} => dynamicClient = config
    /\ ipc \in {"metadata", "backend", "commit"} => apiExtClient = config
    /\ ipc \in {"backend", "commit"} => metadataClient = config
    /\ ipc = "commit" => cachedDiscovery = config
    /\ ReadyMeansWhole
    /\ ipc = "config" => inits > 0
    /\ fake => ready /\ ipc = "idle" /\ cachedDiscovery = None

\* The config there was handed in or has opened the client before, and one that
\* Init makes has not (client.go:223-278, 343).
Naming ==
    /\ ipc \in AfterConfig => defaultNamespace = OwnNamespace(config, opens[config])
    /\ NamespaceMatchesConfig
    /\ restConfig \in HandedIn \cup {None} \/ opens[restConfig] > 0
    /\ \A c \in Made : opens[c] > 0 => c < inits \/ (c = inits /\ ipc = "idle")
    /\ \A c \in HandedIn : origin[c] = "given"

InitProgress == Building /\ Naming

\* How far the lazy construction of the wrapper is, and that it is of the config
\* there as long as the caller has not handed in another (client.go:546-554).
WrapProgress ==
    /\ ~ready => Quiet
    /\ handed => swapped
    /\ sfDiscoveryOnce # "done" =>
         /\ sfDiscovery = None /\ wrappers = 0
         /\ \A p \in Procs : pc[p] # "go" /\ used[p] = Unused
    /\ sfDiscoveryOnce = "running" <=> \E p \in Procs : pc[p] = "body"
    /\ \A p, q \in Procs : pc[p] = "body" /\ pc[q] = "body" => p = q
    /\ sfDiscoveryOnce = "done" /\ ~fake =>
         /\ sfDiscovery \in Config /\ wrappers = 1
         /\ ~swapped => sfDiscovery = restConfig

\* The inductive invariant of a client that is used only when it is ready.
ClientInv == TypeOK /\ InitProgress /\ WrapProgress /\ EveryPathWrapped
=============================================================================
