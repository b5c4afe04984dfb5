-------------------------- MODULE ClientInitProofs --------------------------
(***************************************************************************)
(* Proofs about ClientInit, for every number of goroutines and of calls of *)
(* Init: a client that is used only once Init has succeeded reaches the    *)
(* cluster through one wrapper, around a backend of that Init.             *)
(***************************************************************************)
EXTENDS ClientInit, TLAPS

\* The configs are numbers other than None, Broken and Simulated.
LEMMA ConfigFacts ==
    /\ None \notin Config /\ Broken \notin Config /\ Simulated \notin Config
    /\ None # Broken /\ None # Simulated
    /\ Config \subseteq Field /\ None \in Field /\ Broken \in Field /\ Simulated \in Field
    /\ HandedIn \subseteq Config /\ Made \subseteq Config
    /\ \A c \in Config : c \in HandedIn \/ c \in Made
    /\ \A c \in HandedIn : c \notin Made /\ c # None
    /\ NoHost \in HandedIn
    /\ 0 \in 0..MaxInits /\ 0..MaxInits \subseteq Nat /\ Made \subseteq Nat
    /\ \A i \in 0..MaxInits : i < MaxInits => i + 1 \in 0..MaxInits
    /\ \A i \in 0..MaxInits : i > 0 => i \in Made
  BY InitConstantsOK DEF NoHost, Made, HandedIn, None, Broken, Simulated, Config, Field

\* What holds of the variables initially.
LEMMA InitClientInv == ASSUME Init PROVE ClientInv
<1> USE ConfigFacts, InitConstantsOK
<1>1. TypeOK
  <2>1. Interface \in Field /\ dynamicClient \in Field /\ metadataClient \in Field
    BY DEF Init
  <2>2. Unused \in Use
    BY DEF Use, Unused
  <2>3. origin \in [Config -> Sources] /\ opens \in [Config -> Nat]
    BY DEF Init, Sources
  <2>4. pc \in [Procs -> CallPC] /\ used \in [Procs -> Use]
    BY <2>2 DEF Init, CallPC
  <2>5. QED
    BY <2>1, <2>3, <2>4 DEF Init, TypeOK, Namespaces, InitPC
<1>2. InitProgress
  <2>1. ipc = "idle" /\ ready = fake /\ restConfig = None /\ cachedDiscovery = None /\ ~(ready /\ ~fake)
    BY DEF Init
  <2>2. \A c \in Config : opens[c] = 0 /\ origin[c] = "given"
    BY DEF Init
  <2>3. ReadyMeansWhole
    BY <2>1 DEF ReadyMeansWhole
  <2>4. NamespaceMatchesConfig
    BY <2>1 DEF NamespaceMatchesConfig
  <2>5. \A c \in Made : ~(opens[c] > 0)
    BY <2>2
  <2>6. \A c \in HandedIn : origin[c] = "given"
    BY <2>2
  <2>7. QED
    BY <2>1, <2>3, <2>4, <2>5, <2>6 DEF InitProgress, Building, Naming, AfterConfig
<1>3. WrapProgress
  BY DEF Init, WrapProgress, Quiet
<1>4. EveryPathWrapped
  BY DEF Init, EveryPathWrapped, Unused
<1>5. QED
  BY <1>1, <1>2, <1>3, <1>4 DEF ClientInv

-----------------------------------------------------------------------------
(* The options and the steps of Init.                                      *)

\* Every source has a namespace.
LEMMA NamespaceTypes == \A source \in Sources : NamespaceOf(source) \in Namespaces
  BY DEF Sources, Namespaces, NamespaceOf

\* They keep the types.
LEMMA InitStepTypes == ASSUME TypeOK, InitProgress, InitStep PROVE TypeOK'
<1> USE ConfigFacts, NamespaceTypes DEF TypeOK, MaySetUp, InitPC, AfterConfig, InitProgress, Building,
    options, clients, settings, wrapping, progress, handing, calls
<1>1. CASE WithServer
  BY <1>1 DEF WithServer
<1>2. CASE WithNamedConfig
  BY <1>2 DEF WithNamedConfig
<1>3. CASE WithRestConfig
  BY <1>3 DEF WithRestConfig
<1>4. CASE InitCall
  BY <1>4 DEF InitCall
<1>5. CASE ChooseConfig
  <2>1. inits \in Config
    BY <1>5 DEF ChooseConfig
  <2>2. config' \in Config /\ defaultNamespace' \in Namespaces
    BY <1>5, <2>1 DEF ChooseConfig, Reuse, Make, Take, OutOfCluster, Sources, Namespaces
  <2>3. origin' \in [Config -> Sources]
    BY <1>5, <2>1 DEF ChooseConfig, Reuse, Make, OutOfCluster, Sources
  <2>4. QED
    BY <1>5, <2>2, <2>3 DEF ChooseConfig, Reuse, Make, Take
<1>6. CASE NoConfig
  BY <1>6 DEF NoConfig, Fail
<1>7. CASE MakeInterface
  BY <1>7 DEF MakeInterface, Proceed, Fail
<1>8. CASE MakeDynamic
  BY <1>8 DEF MakeDynamic, Proceed, Fail
<1>9. CASE MakeApiExt
  BY <1>9 DEF MakeApiExt, Proceed, Fail
<1>10. CASE MakeMetadata
  BY <1>10 DEF MakeMetadata, Proceed, Fail
<1>11. CASE MakeBackend
  BY <1>11 DEF MakeBackend, Proceed, Fail
<1>12. CASE Commit
  BY <1>12 DEF Commit
<1>13. QED
  BY <1>1, <1>2, <1>3, <1>4, <1>5, <1>6, <1>7, <1>8,
     <1>9, <1>10, <1>11, <1>12 DEF InitStep

\* What they leave as it is, and when they take place.
LEMMA InitStepFrame ==
    ASSUME TypeOK, InitProgress, InitStep
    PROVE  UNCHANGED <<fake, wrapping, calls>> /\ ~fake /\ Quiet
<1> USE DEF TypeOK, InitProgress, Building, MaySetUp,
    options, clients, settings, wrapping, progress, handing, calls
<1>1. CASE WithServer
  BY <1>1 DEF WithServer
<1>2. CASE WithNamedConfig
  BY <1>2 DEF WithNamedConfig
<1>3. CASE WithRestConfig
  BY <1>3 DEF WithRestConfig
<1>4. CASE InitCall
  BY <1>4 DEF InitCall
<1>5. CASE ChooseConfig
  BY <1>5 DEF ChooseConfig, Reuse, Make, Take, OutOfCluster
<1>6. CASE NoConfig
  BY <1>6 DEF NoConfig, Fail
<1>7. CASE MakeInterface
  BY <1>7 DEF MakeInterface, Proceed, Fail, AfterConfig
<1>8. CASE MakeDynamic
  BY <1>8 DEF MakeDynamic, Proceed, Fail, AfterConfig
<1>9. CASE MakeApiExt
  BY <1>9 DEF MakeApiExt, Proceed, Fail, AfterConfig
<1>10. CASE MakeMetadata
  BY <1>10 DEF MakeMetadata, Proceed, Fail, AfterConfig
<1>11. CASE MakeBackend
  BY <1>11 DEF MakeBackend, Proceed, Fail, AfterConfig
<1>12. CASE Commit
  BY <1>12 DEF Commit, AfterConfig
<1>13. QED
  BY <1>1, <1>2, <1>3, <1>4, <1>5, <1>6, <1>7, <1>8,
     <1>9, <1>10, <1>11, <1>12 DEF InitStep

\* They keep what is said of Init: each client is made from the config chosen,
\* a failure leaves the client not ready, and the config is reported at the end.
LEMMA InitStepBuilds == ASSUME TypeOK, Building, InitStep PROVE Building'
<1> USE ConfigFacts
        DEF TypeOK, Building, MaySetUp, Quiet, InitPC, AfterConfig, ReadyMeansWhole,
    options, clients, settings, wrapping, progress, handing, calls
<1>1. CASE WithServer
  BY <1>1 DEF WithServer
<1>2. CASE WithNamedConfig
  BY <1>2 DEF WithNamedConfig
<1>3. CASE WithRestConfig
  BY <1>3 DEF WithRestConfig
<1>4. CASE InitCall
  BY <1>4 DEF InitCall
<1>5. CASE ChooseConfig
  BY <1>5 DEF ChooseConfig, Reuse, Make, Take, OutOfCluster
<1>6. CASE NoConfig
  BY <1>6 DEF NoConfig, Fail
<1>7. CASE MakeInterface
  BY <1>7 DEF MakeInterface, Proceed, Fail
<1>8. CASE MakeDynamic
  BY <1>8 DEF MakeDynamic, Proceed, Fail
<1>9. CASE MakeApiExt
  BY <1>9 DEF MakeApiExt, Proceed, Fail
<1>10. CASE MakeMetadata
  BY <1>10 DEF MakeMetadata, Proceed, Fail
<1>11. CASE MakeBackend
  BY <1>11 DEF MakeBackend, Proceed, Fail
<1>12. CASE Commit
  BY <1>12 DEF Commit
<1>13. QED
  BY <1>1, <1>2, <1>3, <1>4, <1>5, <1>6, <1>7, <1>8,
     <1>9, <1>10, <1>11, <1>12 DEF InitStep

\* What a step of Init that assigns no config and ends no Init well leaves true of
\* the namespace.
LEMMA NamingStays ==
    ASSUME TypeOK, Building, Naming, ipc # "idle",
           UNCHANGED <<fake, restConfig, inits, ready, origin, opens>>,
           \/ ipc' = "idle"
           \/ ipc \in AfterConfig /\ UNCHANGED <<config, defaultNamespace>>
    PROVE  Naming'
<1>1. ~ready'
  BY DEF Building
<1>2. NamespaceMatchesConfig'
  BY <1>1 DEF NamespaceMatchesConfig
<1>3. ipc' \in AfterConfig => defaultNamespace' = OwnNamespace(config, opens[config])'
  BY DEF Naming, OwnNamespace, AfterConfig
<1>4. \A c \in Made : opens[c] > 0 => c < inits
  BY DEF Naming
<1>5. QED
  BY <1>2, <1>3, <1>4 DEF Naming

\* And the namespace is that of the config's source, if the config is new.
LEMMA InitStepNames == ASSUME TypeOK, Building, Naming, InitStep PROVE Naming'
<1> USE DEF MaySetUp, AfterConfig,
    options, clients, settings, wrapping, progress, handing, calls
<1>1. CASE WithServer
  BY <1>1 DEF WithServer, Naming, NamespaceMatchesConfig, OwnNamespace
<1>2. CASE WithNamedConfig
  BY <1>2 DEF WithNamedConfig, Naming, NamespaceMatchesConfig, OwnNamespace
<1>3. CASE WithRestConfig
  BY <1>3 DEF WithRestConfig, Naming, NamespaceMatchesConfig, OwnNamespace
<1>4. CASE InitCall
  BY <1>4, ConfigFacts DEF InitCall, TypeOK, Naming, NamespaceMatchesConfig
<1>5. CASE ChooseConfig
  <2>1. /\ ipc = "config" /\ ~ready /\ inits \in Made
        /\ UNCHANGED <<fake, restConfig, inits, ready, opens>> /\ ipc' = "interface"
    BY <1>5, ConfigFacts DEF ChooseConfig, Reuse, Make, Take, Building, TypeOK
  <2>2. \A c \in Made : opens[c] > 0 => c < inits
    BY <2>1 DEF Naming
  <2>3. opens[inits] = 0
    BY <2>1, <2>2, ConfigFacts DEF TypeOK
  <2>4. CASE Reuse
    <3>1. config' = restConfig /\ defaultNamespace' = "default" /\ UNCHANGED origin
      BY <2>4 DEF Reuse, Take
    <3>2. CASE restConfig \in HandedIn
      <4>1. origin[restConfig] = "given"
        BY <3>2 DEF Naming
      <4>2. QED
        BY <2>1, <2>2, <3>1, <4>1 DEF Naming, NamespaceMatchesConfig, OwnNamespace, NamespaceOf
    <3>3. CASE opens[restConfig] > 0
      BY <2>1, <2>2, <3>1, <3>3 DEF Naming, NamespaceMatchesConfig, OwnNamespace
    <3>4. QED
      BY <2>4, <3>2, <3>3 DEF Reuse, Naming
  <2>5. ASSUME NEW source \in Sources, Make(source) PROVE Naming'
    <3>1. /\ config' = inits /\ defaultNamespace' = NamespaceOf(source)
          /\ origin' = [origin EXCEPT ![inits] = source]
      BY <2>5 DEF Make, Take
    <3>2. origin'[inits] = source
      BY <2>1, <3>1, ConfigFacts DEF TypeOK
    <3>3. \A c \in HandedIn : origin'[c] = origin[c]
      BY <2>1, <3>1, ConfigFacts DEF TypeOK
    <3>4. defaultNamespace' = OwnNamespace(config, opens[config])'
      BY <2>1, <2>3, <3>1, <3>2 DEF OwnNamespace
    <3>5. QED
      BY <2>1, <2>2, <3>3, <3>4 DEF Naming, NamespaceMatchesConfig
  <2>6. QED
    BY <1>5, <2>4, <2>5 DEF ChooseConfig, OutOfCluster, Sources
<1>6. CASE NoConfig
  BY <1>6, NamingStays DEF NoConfig, Fail
<1>7. CASE MakeInterface
  BY <1>7, NamingStays DEF MakeInterface, Proceed, Fail
<1>8. CASE MakeDynamic
  BY <1>8, NamingStays DEF MakeDynamic, Proceed, Fail
<1>9. CASE MakeApiExt
  BY <1>9, NamingStays DEF MakeApiExt, Proceed, Fail
<1>10. CASE MakeMetadata
  BY <1>10, NamingStays DEF MakeMetadata, Proceed, Fail
<1>11. CASE MakeBackend
  BY <1>11, NamingStays DEF MakeBackend, Proceed, Fail
<1>12. CASE Commit
  <2>1. /\ config \in Config /\ config \in {restConfig, inits} /\ Interface = config
        /\ inits \in Nat /\ opens \in [Config -> Nat]
        /\ defaultNamespace = OwnNamespace(config, opens[config])
    BY <1>12, ConfigFacts DEF Commit, Building, Naming, TypeOK
  <2>2. /\ UNCHANGED <<fake, inits, origin, defaultNamespace, Interface>>
        /\ restConfig' = config /\ ipc' = "idle"
        /\ opens' = [opens EXCEPT ![config] = @ + 1]
    BY <1>12 DEF Commit
  <2>3. opens'[config] - 1 = opens[config] /\ opens'[config] > 0
    BY <2>1, <2>2
  <2>4. \A c \in Config \ {config} : opens'[c] = opens[c]
    BY <2>1, <2>2
  <2>5. NamespaceMatchesConfig'
    BY <2>1, <2>2, <2>3 DEF NamespaceMatchesConfig, OwnNamespace
  <2>6. \A c \in Made : opens[c] > 0 => c < inits
    BY <1>12 DEF Commit, Naming
  <2>7. config \in Made => config = inits \/ config < inits
    <3>1. CASE config = restConfig /\ config \in Made
      BY <2>1, <2>6, <3>1, ConfigFacts DEF Naming
    <3>2. QED
      BY <2>1, <3>1
  <2>8. \A c \in Made : opens'[c] > 0 => c < inits' \/ (c = inits' /\ ipc' = "idle")
    BY <2>2, <2>4, <2>6, <2>7, ConfigFacts
  <2>9. \A c \in HandedIn : origin'[c] = "given"
    BY <2>2 DEF Naming
  <2>10. QED
    BY <2>2, <2>3, <2>5, <2>8, <2>9 DEF Naming
<1>13. QED
  BY <1>1, <1>2, <1>3, <1>4, <1>5, <1>6, <1>7, <1>8,
     <1>9, <1>10, <1>11, <1>12 DEF InitStep

\* Both together.
LEMMA InitStepProgress == ASSUME TypeOK, InitProgress, InitStep PROVE InitProgress'
  BY InitStepBuilds, InitStepNames DEF InitProgress

\* What they do to the config there and to the history of handing in: only the
\* caller replaces a config, and says so.
LEMMA InitStepKeeps ==
    ASSUME TypeOK, InitProgress, InitStep
    PROVE  /\ \/ UNCHANGED <<restConfig, swapped>>
              \/ swapped'
              \/ /\ Commit /\ restConfig' = config /\ restConfig \in {None, config}
                 /\ ~handed
                 /\ swapped' = (swapped /\ sfDiscoveryOnce # "fresh")
           /\ handed' => swapped' \/ UNCHANGED <<handed, swapped>>
<1> USE ConfigFacts DEF TypeOK, InitProgress, Building, MaySetUp, AfterConfig,
    options, clients, settings, wrapping, progress, handing, calls
<1>1. CASE WithServer
  BY <1>1 DEF WithServer
<1>2. CASE WithNamedConfig
  BY <1>2 DEF WithNamedConfig
<1>3. CASE WithRestConfig
  BY <1>3 DEF WithRestConfig
<1>4. CASE InitCall
  BY <1>4 DEF InitCall
<1>5. CASE ChooseConfig
  BY <1>5 DEF ChooseConfig, Reuse, Make, Take, OutOfCluster
<1>6. CASE NoConfig
  BY <1>6 DEF NoConfig, Fail
<1>7. CASE MakeInterface
  BY <1>7 DEF MakeInterface, Proceed, Fail
<1>8. CASE MakeDynamic
  BY <1>8 DEF MakeDynamic, Proceed, Fail
<1>9. CASE MakeApiExt
  BY <1>9 DEF MakeApiExt, Proceed, Fail
<1>10. CASE MakeMetadata
  BY <1>10 DEF MakeMetadata, Proceed, Fail
<1>11. CASE MakeBackend
  BY <1>11 DEF MakeBackend, Proceed, Fail
<1>12. CASE Commit
  BY <1>12 DEF Commit
<1>13. QED
  BY <1>1, <1>2, <1>3, <1>4, <1>5, <1>6, <1>7, <1>8,
     <1>9, <1>10, <1>11, <1>12 DEF InitStep

\* While Init runs they keep a config that is there.
LEMMA InitStepRuns ==
    ASSUME TypeOK, InitProgress, InitStep, ipc # "idle"
    PROVE  restConfig' = restConfig \/ (restConfig = None /\ ready')
<1> USE DEF TypeOK, InitProgress, Building, MaySetUp, AfterConfig,
    options, clients, settings, wrapping, progress, handing, calls
<1>1. CASE WithServer
  BY <1>1 DEF WithServer
<1>2. CASE WithNamedConfig
  BY <1>2 DEF WithNamedConfig
<1>3. CASE WithRestConfig
  BY <1>3 DEF WithRestConfig
<1>4. CASE InitCall
  BY <1>4 DEF InitCall
<1>5. CASE ChooseConfig
  BY <1>5 DEF ChooseConfig, Reuse, Make, Take, OutOfCluster
<1>6. CASE NoConfig
  BY <1>6 DEF NoConfig, Fail
<1>7. CASE MakeInterface
  BY <1>7 DEF MakeInterface, Proceed, Fail
<1>8. CASE MakeDynamic
  BY <1>8 DEF MakeDynamic, Proceed, Fail
<1>9. CASE MakeApiExt
  BY <1>9 DEF MakeApiExt, Proceed, Fail
<1>10. CASE MakeMetadata
  BY <1>10 DEF MakeMetadata, Proceed, Fail
<1>11. CASE MakeBackend
  BY <1>11 DEF MakeBackend, Proceed, Fail
<1>12. CASE Commit
  BY <1>12 DEF Commit
<1>13. QED
  BY <1>1, <1>2, <1>3, <1>4, <1>5, <1>6, <1>7, <1>8,
     <1>9, <1>10, <1>11, <1>12 DEF InitStep

\* So they keep what is said of the wrapper and of the calls.
LEMMA InitStepWraps ==
    ASSUME ClientInv, InitStep
    PROVE  WrapProgress' /\ EveryPathWrapped'
<1>1. /\ UNCHANGED <<fake, sfDiscovery, sfDiscoveryOnce, wrappers, pc, used>> /\ Quiet
  BY InitStepFrame DEF ClientInv, wrapping, calls
<1>2. /\ sfDiscoveryOnce \in {"fresh", "done"}
      /\ sfDiscoveryOnce = "fresh" => \A p \in Procs : used[p] = Unused
  BY <1>1 DEF ClientInv, TypeOK, WrapProgress, Quiet
<1>3. handed' => swapped'
  BY InitStepKeeps DEF ClientInv, WrapProgress
<1>4. ASSUME sfDiscoveryOnce = "done", ~swapped' PROVE ~swapped /\ (~fake => sfDiscovery = restConfig')
  <2>1. ~swapped
    BY <1>4, InitStepKeeps DEF ClientInv, TypeOK
  <2>2. ~fake => sfDiscovery = restConfig /\ restConfig # None
    BY <1>4, <2>1, ConfigFacts DEF ClientInv, WrapProgress
  <2>3. QED
    BY <1>4, <2>1, <2>2, InitStepKeeps DEF ClientInv
<1>5. WrapProgress'
  BY <1>1, <1>2, <1>3, <1>4 DEF ClientInv, WrapProgress, Quiet
<1>6. EveryPathWrapped'
  BY <1>1, <1>2, <1>4, ConfigFacts DEF ClientInv, EveryPathWrapped, Unused
<1>7. QED
  BY <1>5, <1>6

-----------------------------------------------------------------------------
(* The steps of a discovery call.                                          *)

\* They keep the types.
LEMMA CallStepTypes ==
    ASSUME TypeOK, NEW p \in Procs, CallStep(p)
    PROVE  TypeOK'
<1> USE ConfigFacts, InitConstantsOK DEF TypeOK, Goto, CallPC,
    options, clients, settings, wrapping, progress, handing, calls
<1>1. CASE CallBegin(p)
  BY <1>1 DEF CallBegin, Use
<1>2. CASE OnceEnter(p)
  BY <1>2 DEF OnceEnter, Use
<1>3. CASE OnceBody(p)
  BY <1>3 DEF OnceBody, Use
<1>4. CASE Go(p)
  BY <1>4 DEF Go, Use
<1>5. QED
  BY <1>1, <1>2, <1>3, <1>4 DEF CallStep

\* They leave Init alone, and take place only when it does not run.
LEMMA CallStepProgress ==
    ASSUME TypeOK, InitProgress, WrapProgress, ~EarlyUse, NEW p \in Procs, CallStep(p)
    PROVE  InitProgress' /\ ready
<1>1. ready /\ ipc = "idle"
  BY DEF CallStep, CallBegin, OnceEnter, OnceBody, Go, Goto, WrapProgress, Quiet,
         InitProgress, Building
<1>2. UNCHANGED <<options, clients, settings, cachedDiscovery, progress, handing>>
  BY DEF CallStep, CallBegin, OnceEnter, OnceBody, Go
<1> USE DEF InitProgress, options, clients, settings, progress, handing
<1>3. Building'
  BY <1>1, <1>2 DEF Building, ReadyMeansWhole, AfterConfig
<1>4. Naming'
  BY <1>1, <1>2 DEF Naming, NamespaceMatchesConfig, OwnNamespace, AfterConfig
<1>5. QED
  BY <1>1, <1>3, <1>4

\* They build the wrapper once: only one of them is in the function of the Once,
\* and the others see its result.
LEMMA CallStepWraps ==
    ASSUME ClientInv, ~EarlyUse, NEW p \in Procs, CallStep(p)
    PROVE  WrapProgress'
<1>1. ready
  BY CallStepProgress DEF ClientInv
<1> USE <1>1, ConfigFacts DEF ClientInv, TypeOK, WrapProgress, Goto,
    options, clients, settings, wrapping, progress, handing, calls
<1>2. CASE CallBegin(p)
  BY <1>2 DEF CallBegin, InitProgress, Building, ReadyMeansWhole, Unused
<1>3. CASE OnceEnter(p)
  BY <1>3 DEF OnceEnter, InitProgress, Building, ReadyMeansWhole, Unused
<1>4. CASE OnceBody(p)
  BY <1>4 DEF OnceBody, InitProgress, Building, ReadyMeansWhole, Unused
<1>5. CASE Go(p)
  BY <1>5 DEF Go, InitProgress, Building, ReadyMeansWhole, Unused
<1>6. QED
  BY <1>2, <1>3, <1>4, <1>5 DEF CallStep

\* They go where the wrapper is.
LEMMA CallStepPaths ==
    ASSUME ClientInv, ~EarlyUse, NEW p \in Procs, CallStep(p)
    PROVE  EveryPathWrapped'
<1>1. ready
  BY CallStepProgress DEF ClientInv
<1> USE <1>1, ConfigFacts DEF ClientInv, TypeOK, WrapProgress, EveryPathWrapped, Goto,
    options, clients, settings, wrapping, progress, handing, calls
<1>2. CASE CallBegin(p)
  BY <1>2 DEF CallBegin, InitProgress, Building, ReadyMeansWhole, Unused
<1>3. CASE OnceEnter(p)
  BY <1>3 DEF OnceEnter, InitProgress, Building, ReadyMeansWhole, Unused
<1>4. CASE OnceBody(p)
  BY <1>4 DEF OnceBody, InitProgress, Building, ReadyMeansWhole, Unused
<1>5. CASE Go(p)
  <2>1. UNCHANGED fake /\ pc[p] = "go"
    BY <1>5 DEF Go
  <2>2. sfDiscoveryOnce = "done"
    BY <2>1
  <2>3. CASE fake
    BY <2>1, <2>3
  <2>4. CASE ~fake
    <3>1. sfDiscovery \in Config /\ wrappers = 1
      BY <2>2, <2>4
    <3>2. ready /\ Interface \in Config /\ (~swapped => sfDiscovery = Interface)
      BY <1>1, <2>2, <2>4 DEF InitProgress, Building, ReadyMeansWhole
    <3>3. used' = [used EXCEPT ![p] =
            [how |-> "wrapper", of |-> sfDiscovery, id |-> 1, beside |-> Interface]]
      BY <3>1, <3>2, <1>5 DEF Go
    <3>4. UNCHANGED swapped
      BY <1>5 DEF Go
    <3>5. QED
      BY <3>2, <3>3, <3>4, <2>1, <2>4
  <2>5. QED
    BY <2>3, <2>4
<1>6. QED
  BY <1>2, <1>3, <1>4, <1>5 DEF CallStep

-----------------------------------------------------------------------------
\* The invariant holds of a client that is used only when it is ready.
THEOREM ClientInvHolds == ASSUME ~EarlyUse PROVE Spec => []ClientInv
<1>1. Init => ClientInv
  BY InitClientInv
<1>2. ClientInv /\ [Next]_vars => ClientInv'
  <2> SUFFICES ASSUME ClientInv, [Next]_vars PROVE ClientInv'
    OBVIOUS
  <2>1. CASE InitStep
    BY <2>1, InitStepTypes, InitStepProgress, InitStepWraps DEF ClientInv
  <2>2. ASSUME NEW p \in Procs, CallStep(p) PROVE ClientInv'
    BY <2>2, CallStepTypes, CallStepProgress, CallStepWraps, CallStepPaths DEF ClientInv
  <2>3. CASE UNCHANGED vars
    BY <2>3 DEF vars, options, clients, settings, wrapping, progress, handing, calls, ClientInv, TypeOK,
                InitProgress, Building, Naming, WrapProgress, EveryPathWrapped, Quiet, ReadyMeansWhole,
                NamespaceMatchesConfig, OwnNamespace
  <2>4. QED
    BY <2>1, <2>2, <2>3 DEF Next
<1>3. QED
  BY <1>1, <1>2, PTL DEF Spec

\* Every discovery call on a client that is ready goes through the one wrapper,
\* around a backend of the config its clients have, unless the caller has handed
\* in another since that backend was made (client.go:546-554).
THEOREM AllCallsWrapped == ASSUME ~EarlyUse PROVE Spec => []EveryPathWrapped
<1>1. ClientInv => EveryPathWrapped
  BY DEF ClientInv
<1>2. QED
  BY <1>1, ClientInvHolds, PTL

\* After any number of Inits that failed half-way, or were called again, a client
\* that is ready was made of one config throughout (client.go:232-343).
THEOREM ReadyClientIsWhole == ASSUME ~EarlyUse PROVE Spec => []ReadyMeansWhole
<1>1. ClientInv => ReadyMeansWhole
  BY DEF ClientInv, InitProgress, Building
<1>2. QED
  BY <1>1, ClientInvHolds, PTL

\* It has the namespace of that config's source, until an Init opens the client
\* for the same config again (client.go:224-230, 288).
THEOREM NamespaceIsOfConfig == ASSUME ~EarlyUse PROVE Spec => []NamespaceMatchesConfig
<1>1. ClientInv => NamespaceMatchesConfig
  BY DEF ClientInv, InitProgress, Naming
<1>2. QED
  BY <1>1, ClientInvHolds, PTL

\* No step of an Init replaces a config that is there, whatever options are set
\* (client.go:223-230, 343).
THEOREM ClientStays == ASSUME ~EarlyUse PROVE Spec => ConfigStays
<1>1. ClientInv /\ [Next]_vars
      => [ipc # "idle" => restConfig' = restConfig \/ (restConfig = None /\ ready')]_vars
  <2> SUFFICES ASSUME ClientInv, Next, ipc # "idle"
               PROVE  restConfig' = restConfig \/ (restConfig = None /\ ready')
    OBVIOUS
  <2>1. CASE InitStep
    BY <2>1, InitStepRuns DEF ClientInv
  <2>2. ASSUME NEW p \in Procs, CallStep(p) PROVE restConfig' = restConfig
    BY <2>2 DEF CallStep, CallBegin, OnceEnter, OnceBody, Go, settings
  <2>3. QED
    BY <2>1, <2>2 DEF Next
<1>2. QED
  BY <1>1, ClientInvHolds, PTL DEF Spec, ConfigStays

-----------------------------------------------------------------------------
(* The promise to the goroutines (OneClient).                              *)

LEMMA InitOne == ASSUME Init PROVE One!Init
<1>1. restConfig = None /\ sfDiscovery = None /\ (ready => fake) /\ \A p \in Procs : used[p] = Unused
  BY DEF Init
<1>2. Kept = None /\ Parts = {} /\ Bound = None
  BY <1>1 DEF Kept, Parts, Bound
<1>3. ReachedBy(Unused) = None
  BY DEF ReachedBy, Unused
<1>4. Reached = [p \in Procs |-> None]
  BY <1>1, <1>3, Zenon DEF Reached
<1>5. QED
  BY <1>2, <1>4 DEF One!Init

\* An open client is made of one config.
LEMMA OpenIsWhole ==
    ASSUME ClientInv, ready, ~fake
    PROVE  Parts = {Interface} /\ Interface \in Config
  BY DEF Parts, ClientInv, InitProgress, Building, ReadyMeansWhole

\* What a step of Init does to readiness: a call ends it, and only the last step
\* brings it back.
LEMMA InitStepOpens ==
    ASSUME ClientInv, InitStep
    PROVE  \/ UNCHANGED ready /\ (ready => UNCHANGED <<clients, cachedDiscovery>>)
              /\ (UNCHANGED restConfig \/ WithRestConfig)
           \/ UNCHANGED restConfig /\ ~ready'
           \/ Commit
<1> USE DEF ClientInv, TypeOK, InitProgress, Building, options, clients, settings, wrapping, progress, handing, calls
<1>1. CASE WithServer
  BY <1>1 DEF WithServer, MaySetUp
<1>2. CASE WithNamedConfig
  BY <1>2 DEF WithNamedConfig, MaySetUp
<1>3. CASE WithRestConfig
  BY <1>3 DEF WithRestConfig, MaySetUp
<1>4. CASE InitCall
  BY <1>4 DEF InitCall, MaySetUp
<1>5. CASE ChooseConfig
  BY <1>5 DEF ChooseConfig, Reuse, Make, Take, OutOfCluster
<1>6. CASE NoConfig
  BY <1>6 DEF NoConfig, Fail
<1>7. CASE MakeInterface
  BY <1>7 DEF MakeInterface, Proceed, Fail
<1>8. CASE MakeDynamic
  BY <1>8 DEF MakeDynamic, Proceed, Fail
<1>9. CASE MakeApiExt
  BY <1>9 DEF MakeApiExt, Proceed, Fail
<1>10. CASE MakeMetadata
  BY <1>10 DEF MakeMetadata, Proceed, Fail
<1>11. CASE MakeBackend
  BY <1>11 DEF MakeBackend, Proceed, Fail
<1>12. CASE Commit
  BY <1>12
<1>13. QED
  BY <1>1, <1>2, <1>3, <1>4, <1>5, <1>6, <1>7, <1>8,
     <1>9, <1>10, <1>11, <1>12 DEF InitStep

LEMMA InitStepOne ==
    ASSUME ClientInv, ClientInv', InitStep
    PROVE  One!Next \/ UNCHANGED <<Kept, Parts, Bound, Reached>>
<1>1. UNCHANGED <<fake, sfDiscovery, used>> /\ ~fake
  BY InitStepFrame DEF ClientInv, wrapping, calls
<1>2. UNCHANGED <<Bound, Reached>>
  BY <1>1 DEF Bound, Reached, ReachedBy
<1>3. CASE /\ UNCHANGED ready /\ (ready => UNCHANGED <<clients, cachedDiscovery>>)
           /\ (UNCHANGED restConfig \/ WithRestConfig)
  <2>1. UNCHANGED Parts
    BY <1>1, <1>3 DEF Parts, clients
  <2>2. CASE UNCHANGED restConfig
    BY <1>2, <2>1, <2>2 DEF Kept
  <2>3. CASE WithRestConfig
    <3>1. restConfig' \in Config \cup {None}
      BY <2>3, ConfigFacts DEF WithRestConfig
    <3>2. One!Hand(restConfig')
      BY <1>2, <2>1 DEF One!Hand, Kept
    <3>3. QED
      BY <3>1, <3>2 DEF One!Next
  <2>4. QED
    BY <1>3, <2>2, <2>3
<1>4. CASE UNCHANGED restConfig /\ ~ready'
  <2>1. Parts' = {} /\ UNCHANGED Kept
    BY <1>4 DEF Parts, Kept
  <2>2. QED
    BY <1>2, <2>1 DEF One!Next, One!Close
<1>5. CASE Commit
  <2>1. /\ ~ready /\ ready' /\ restConfig' = config /\ config \in Config
        /\ restConfig \in {None, config}
    BY <1>5 DEF Commit, ClientInv, InitProgress, Building, AfterConfig
  <2>2. /\ UNCHANGED <<clients, cachedDiscovery>>
        /\ Interface = config /\ dynamicClient = config /\ apiExtClient = config
        /\ metadataClient = config /\ cachedDiscovery = config
    BY <1>5 DEF Commit, ClientInv, InitProgress, Building, AfterConfig
  <2>3. Parts = {} /\ Parts' = {config}
    BY <1>1, <2>1, <2>2 DEF Parts, clients
  <2>4. One!Open(config)
    BY <1>2, <2>1, <2>3 DEF One!Open, Kept
  <2>5. QED
    BY <2>1, <2>4 DEF One!Next
<1>6. QED
  BY <1>3, <1>4, <1>5, InitStepOpens

LEMMA CallStepOne ==
    ASSUME ClientInv, ClientInv', ~EarlyUse, NEW p \in Procs, CallStep(p)
    PROVE  One!Next \/ UNCHANGED <<Kept, Parts, Bound, Reached>>
<1> USE DEF options, clients, settings, wrapping, progress, handing, calls
<1>1. ready
  BY CallStepProgress DEF ClientInv
<1>2. UNCHANGED <<fake, Kept, Parts>>
  BY DEF CallStep, CallBegin, OnceEnter, OnceBody, Go, Kept, Parts
<1>3. CASE fake
  BY <1>2, <1>3 DEF Bound, Reached
<1>4. CASE (CallBegin(p) \/ OnceEnter(p)) /\ ~fake
  BY <1>2, <1>4 DEF CallBegin, OnceEnter, Bound, Reached, ReachedBy
<1>5. CASE OnceBody(p) /\ ~fake
  <2>1. Parts = {Interface} /\ Interface \in Config /\ cachedDiscovery = Interface
    BY <1>1, <1>5, OpenIsWhole DEF ClientInv, InitProgress, Building, ReadyMeansWhole
  <2>2. sfDiscovery = None
    BY <1>5 DEF OnceBody, Goto, ClientInv, WrapProgress
  <2>3. sfDiscovery' = Interface /\ UNCHANGED used
    BY <1>5, <2>1, ConfigFacts DEF OnceBody
  <2>4. Bound = None /\ Bound' \in Parts /\ UNCHANGED Reached
    BY <1>2, <1>5, <2>1, <2>2, <2>3 DEF Bound, Reached, ReachedBy
  <2>5. QED
    BY <1>2, <2>4 DEF One!Next, One!Bind
<1>6. CASE Go(p) /\ ~fake
  <2>1. Parts # {} /\ UNCHANGED Bound
    BY <1>1, <1>6, OpenIsWhole DEF Go, Bound
  <2>2. sfDiscovery \in Config /\ wrappers = 1 /\ sfDiscovery # None
    BY <1>6, ConfigFacts DEF Go, Goto, ClientInv, WrapProgress
  <2>3. used' = [used EXCEPT ![p] =
          [how |-> "wrapper", of |-> sfDiscovery, id |-> 1, beside |-> Interface]]
    BY <1>1, <1>6, <2>2 DEF Go
  <2>4. /\ used'[p] = [how |-> "wrapper", of |-> sfDiscovery, id |-> 1, beside |-> Interface]
        /\ \A q \in Procs \ {p} : used'[q] = used[q]
    BY <2>3 DEF ClientInv, TypeOK
  <2>5. Reached'[p] = Bound /\ \A q \in Procs \ {p} : Reached'[q] = Reached[q]
    BY <1>2, <1>6, <2>4 DEF Reached, ReachedBy, Bound
  <2>6. Reached' = [Reached EXCEPT ![p] = Bound]
    BY <2>5 DEF Reached
  <2>7. Bound # None
    BY <1>6, <2>2 DEF Bound
  <2>8. QED
    BY <1>2, <2>1, <2>6, <2>7 DEF One!Next, One!Call
<1>7. QED
  BY <1>3, <1>4, <1>5, <1>6 DEF CallStep

\* To the goroutines that share it, a client that is used only when it is ready is
\* one client: an Init opens it whole for the config it keeps, the caller alone
\* hands in another, and all calls go to the config it was open for when the
\* first of them came (client.go:122-125, 200-347, 546-554).
THEOREM ClientIsOne == ASSUME ~EarlyUse PROVE Spec => IsOneClient
<1>1. Init => One!Init
  BY InitOne
<1>2. ClientInv /\ ClientInv' /\ [Next]_vars => [One!Next]_<<Kept, Parts, Bound, Reached>>
  <2> SUFFICES ASSUME ClientInv, ClientInv', [Next]_vars
               PROVE  One!Next \/ UNCHANGED <<Kept, Parts, Bound, Reached>>
    OBVIOUS
  <2>1. CASE InitStep
    BY <2>1, InitStepOne
  <2>2. ASSUME NEW p \in Procs, CallStep(p)
        PROVE  One!Next \/ UNCHANGED <<Kept, Parts, Bound, Reached>>
    BY <2>2, CallStepOne
  <2>3. CASE UNCHANGED vars
    BY <2>3 DEF vars, options, clients, settings, wrapping, progress, handing, calls,
                Kept, Parts, Bound, Reached, ReachedBy
  <2>4. QED
    BY <2>1, <2>2, <2>3 DEF Next
<1>3. QED
  BY <1>1, <1>2, ClientInvHolds, PTL DEF Spec, IsOneClient, One!Spec
=============================================================================
