--------------------------- MODULE MetricsProofs ---------------------------
(***************************************************************************)
(* Proofs about Metrics, for every number of clients and storages, every   *)
(* prefix and every set of extra labels.                                   *)
(***************************************************************************)
EXTENDS Metrics, TLAPS

\* Client c's vector for a template, as it registers it.
VecOf(c, t) == [storage |-> setup[c].storage, name |-> Name(t, Prefix(setup[c])),
                keys |-> setup[c].labels \cup Keys(t)]

\* The name of a metric tells the prefix and the template apart.
LEMMA NameIsInjective ==
    ASSUME NEW t, NEW p, NEW u, NEW q, Name(t, p) = Name(u, q)
    PROVE  t = u /\ p = q
  BY DEF Name

\* The vector of a client has its type.
LEMMA VecTypes ==
    ASSUME setup \in Setups, NEW c \in Clients, NEW t \in {Latency, Result}
    PROVE  VecOf(c, t) \in Vec
<1>1. setup[c] \in Setup
  BY SetupsOK
<1>2. t \in Templates /\ Keys(t) \subseteq Keys(Result) \cup Keys(Latency)
  BY DEF Templates
<1>3. Prefix(setup[c]) \in Prefixes \cup {Default}
  BY <1>1 DEF Prefix, Setup
<1>4. Name(t, Prefix(setup[c])) \in Names
  BY <1>2, <1>3 DEF Names
<1>5. QED
  BY <1>1, <1>2, <1>4 DEF VecOf, Vec, Setup

\* What the registration of a vector may do.
LEMMA EnrolCases ==
    ASSUME NEW c, NEW t, NEW from, NEW to, Enrol(c, t, from, to)
    PROVE  /\ UNCHANGED <<setup, backend, samples>>
           /\ pc[c] = from
           /\ \/ /\ pc' = [pc EXCEPT ![c] = to] /\ vecs' = vecs
                 /\ \E v \in vecs : v.storage = setup[c].storage /\ v.name = Name(t, Prefix(setup[c]))
              \/ /\ pc' = [pc EXCEPT ![c] = to] /\ vecs' = vecs \cup {VecOf(c, t)}
              \/ /\ pc' = [pc EXCEPT ![c] = "panic"] /\ vecs' = vecs
                 /\ \E v \in vecs : v.name = Name(t, Prefix(setup[c])) /\ v.storage # setup[c].storage
  BY DEF Enrol, Step, VecOf

-----------------------------------------------------------------------------
\* Steps other than the registration of a vector change neither the vectors nor,
\* if they are requests, the Inits.
LEMMA OtherSteps ==
    ASSUME NEW c \in Clients, InitCall(c) \/ Install(c) \/ Increment(c) \/ Observe(c)
    PROVE  /\ UNCHANGED <<setup, vecs>>
           /\ \/ InitCall(c) /\ backend' = backend
              \/ Install(c)
              \/ UNCHANGED <<pc, backend>>
  BY DEF InitCall, Install, Increment, Observe, Emit

\* The types are kept.
LEMMA TypesKept == ASSUME TypeOK, [Next]_vars PROVE TypeOK'
<1>1. CASE UNCHANGED vars
  BY <1>1 DEF vars, TypeOK
<1>2. ASSUME NEW c \in Clients, RegisterHistogram(c) PROVE TypeOK'
  <2>1. VecOf(c, Latency) \in Vec
    BY VecTypes DEF TypeOK
  <2>2. QED
    BY <1>2, <2>1, EnrolCases DEF RegisterHistogram, TypeOK, InitPC
<1>3. ASSUME NEW c \in Clients, RegisterCounter(c) PROVE TypeOK'
  <2>1. VecOf(c, Result) \in Vec
    BY VecTypes DEF TypeOK
  <2>2. QED
    BY <1>3, <2>1, EnrolCases DEF RegisterCounter, TypeOK, InitPC
<1>4. ASSUME NEW c \in Clients, InitCall(c) \/ Install(c) \/ Increment(c) \/ Observe(c) PROVE TypeOK'
  <2>1. pc' \in [Clients -> InitPC]
    BY <1>4, OtherSteps DEF TypeOK, InitPC, InitCall, Install, Step
  <2>2. setup[c] \in Setup
    BY SetupsOK DEF TypeOK
  <2>3. backend' \in Setup \cup {NoBackend}
    BY <1>4, <2>2, OtherSteps DEF TypeOK, Install
  <2>4. QED
    BY <1>4, <2>1, <2>3, OtherSteps DEF TypeOK
<1>5. QED
  BY <1>1, <1>2, <1>3, <1>4 DEF Next

\* What Enrolled says is kept: a vector is added only for a client that
\* registers it, and none is removed.
LEMMA EnrolledKept == ASSUME TypeOK, Enrolled, [Next]_vars PROVE Enrolled'
<1> USE DEF TypeOK
<1>1. CASE UNCHANGED vars
  BY <1>1 DEF vars, Enrolled
<1>2. ASSUME NEW c \in Clients, RegisterHistogram(c) PROVE Enrolled'
  <2>1. Enrol(c, Latency, "histogram", "counter")
    BY <1>2 DEF RegisterHistogram
  <2>2. UNCHANGED <<setup, backend>> /\ vecs \subseteq vecs' /\ vecs' \subseteq vecs \cup {VecOf(c, Latency)}
    BY <2>1, EnrolCases
  <2>3. \A d \in Clients : pc'[d] \in {"install", "ready"} => pc[d] \in {"install", "ready"}
    BY <2>1, EnrolCases
  <2>4. QED
    BY <2>2, <2>3 DEF Enrolled, VecOf
<1>3. ASSUME NEW c \in Clients, RegisterCounter(c) PROVE Enrolled'
  <2>1. Enrol(c, Result, "counter", "install")
    BY <1>3 DEF RegisterCounter
  <2>2. UNCHANGED <<setup, backend>> /\ vecs \subseteq vecs' /\ vecs' \subseteq vecs \cup {VecOf(c, Result)}
    BY <2>1, EnrolCases
  <2>3. \A d \in Clients : d # c /\ pc'[d] \in {"install", "ready"} => pc[d] \in {"install", "ready"}
    BY <2>1, EnrolCases
  <2>4. pc'[c] \in {"install", "ready"} =>
          \E v \in vecs' : v.storage = setup[c].storage /\ v.name = Name(Result, Prefix(setup[c]))
    <3>1. CASE vecs' = vecs \cup {VecOf(c, Result)}
      <4>1. VecOf(c, Result) \in vecs'
        BY <3>1
      <4>2. VecOf(c, Result).storage = setup[c].storage /\ VecOf(c, Result).name = Name(Result, Prefix(setup[c]))
        BY DEF VecOf
      <4>3. QED
        BY <4>1, <4>2
    <3>2. CASE vecs' = vecs /\ pc' = [pc EXCEPT ![c] = "panic"]
      BY <3>2
    <3>3. QED
      BY <2>1, <3>1, <3>2, EnrolCases
  <2>5. \A d \in Clients : pc'[d] \in {"install", "ready"} =>
          \E v \in vecs' : v.storage = setup[d].storage /\ v.name = Name(Result, Prefix(setup[d]))
    BY <2>2, <2>3, <2>4 DEF Enrolled
  <2>6. \A v \in vecs' : \E d \in Clients, t \in {Latency, Result} : v = VecOf(d, t)
    BY <2>2 DEF Enrolled, VecOf
  <2>7. QED
    BY <2>2, <2>5, <2>6 DEF Enrolled, VecOf
<1>4. ASSUME NEW c \in Clients, InitCall(c) \/ Install(c) \/ Increment(c) \/ Observe(c) PROVE Enrolled'
  <2>1. UNCHANGED <<setup, vecs>>
    BY <1>4, OtherSteps
  <2>2. CASE InitCall(c)
    BY <2>1, <2>2 DEF InitCall, Step, Enrolled
  <2>3. CASE Install(c)
    BY <2>1, <2>3 DEF Install, Step, Enrolled
  <2>4. CASE UNCHANGED <<pc, backend>>
    BY <2>1, <2>4 DEF Enrolled
  <2>5. QED
    BY <1>4, <2>2, <2>3, <2>4, OtherSteps
<1>5. QED
  BY <1>1, <1>2, <1>3, <1>4 DEF Next

-----------------------------------------------------------------------------
\* No step changes how the clients are set up.
LEMMA SetupKept ==
    ASSUME [Next]_vars, Compatible(setup)'
    PROVE  Compatible(setup)
<1>1. setup' = setup
  BY DEF Next, vars, InitCall, RegisterHistogram, RegisterCounter, Enrol, Install, Increment, Observe, Emit
<1> QED
  BY <1>1 DEF Compatible

\* Among compatible clients no registration panics: whoever has registered the
\* name shares the storage.
LEMMA CoexistKept ==
    ASSUME TypeOK, Enrolled, InitsCoexist, [Next]_vars
    PROVE  InitsCoexist'
<1> SUFFICES ASSUME Compatible(setup)' PROVE InitsCoexist'
  BY DEF InitsCoexist
<1>0. Compatible(setup)
  BY SetupKept
<1> USE <1>0 DEF TypeOK, InitsCoexist
<1>1. CASE UNCHANGED vars
  BY <1>1 DEF vars
<1>2. ASSUME NEW c \in Clients, NEW t \in {Latency, Result}, NEW from, NEW to, to # "panic", Enrol(c, t, from, to)
      PROVE  InitsCoexist'
  <2>1. ASSUME NEW v \in vecs, v.name = Name(t, Prefix(setup[c])) PROVE v.storage = setup[c].storage
    <3>1. PICK d \in Clients, u \in {Latency, Result} : v = VecOf(d, u)
      BY DEF Enrolled, VecOf
    <3>2. Prefix(setup[d]) = Prefix(setup[c])
      BY <2>1, <3>1, NameIsInjective DEF VecOf
    <3>3. QED
      BY <3>1, <3>2 DEF Compatible, VecOf
  <2>2. pc' = [pc EXCEPT ![c] = to]
    BY <1>2, <2>1, EnrolCases
  <2>3. QED
    BY <1>2, <2>2
<1>3. ASSUME NEW c \in Clients, InitCall(c) \/ Install(c) \/ Increment(c) \/ Observe(c) PROVE InitsCoexist'
  BY <1>3, OtherSteps DEF InitCall, Install, Step
<1>4. QED
  BY <1>1, <1>2, <1>3 DEF Next, RegisterHistogram, RegisterCounter

\* Among compatible clients the counter of the backend has the labels of the
\* backend's samples, whoever registered it.
LEMMA CountedKept ==
    ASSUME TypeOK, Enrolled, ResultsCounted, [Next]_vars
    PROVE  ResultsCounted'
<1> SUFFICES ASSUME Compatible(setup)' PROVE ResultsCounted'
  BY DEF ResultsCounted
<1>0. Compatible(setup)
  BY SetupKept
<1> USE <1>0
<1>1. CASE UNCHANGED samples
  BY <1>1 DEF ResultsCounted
<1>2. ASSUME NEW c \in Clients, Observe(c) PROVE ResultsCounted'
  <2>1. \A s \in samples' : s \in samples \/ s.metric = Latency
    BY <1>2 DEF Observe, Emit
  <2>2. QED
    BY <2>1 DEF ResultsCounted, Latency, Result
<1>3. ASSUME NEW c \in Clients, Increment(c) PROVE ResultsCounted'
  <2> DEFINE keys == backend.labels \cup Keys(Result)
             mine == {v \in vecs : v.storage = backend.storage /\ v.name = Name(Result, Prefix(backend))}
  <2>1. backend # NoBackend
    BY <1>3 DEF Increment
  <2>2. PICK b \in Clients : backend = setup[b]
    BY <2>1 DEF Enrolled
  <2>3. mine # {}
    BY <2>1 DEF Enrolled
  <2>4. ASSUME NEW v \in mine PROVE v.keys = keys
    <3>1. PICK d \in Clients, u \in {Latency, Result} : v = VecOf(d, u)
      BY DEF Enrolled, VecOf
    <3>2. u = Result /\ Prefix(setup[d]) = Prefix(setup[b])
      BY <2>2, <3>1, NameIsInjective DEF VecOf
    <3>3. setup[d].labels = setup[b].labels
      BY <3>2 DEF Compatible
    <3>4. QED
      BY <2>2, <3>1, <3>2, <3>3 DEF VecOf
  <2>5. \E v \in mine : v.keys = keys
    BY <2>3, <2>4
  <2>6. \A s \in samples' : s \in samples \/ s.outcome = "counted"
    BY <1>3, <2>3, <2>5 DEF Increment, Emit
  <2>7. QED
    BY <2>6 DEF ResultsCounted
<1>4. QED
  BY <1>1, <1>2, <1>3, EnrolCases
  DEF Next, vars, InitCall, RegisterHistogram, RegisterCounter, Install

-----------------------------------------------------------------------------
\* Whatever the setups, a vector has been registered by a client that has come
\* that far, and client-go's backend finds its counter.
THEOREM CountersEnrolled == Spec => []MetricsInv
<1>1. Init => MetricsInv
  BY DEF Init, MetricsInv, TypeOK, Enrolled, InitPC
<1>2. MetricsInv /\ [Next]_vars => MetricsInv'
  BY TypesKept, EnrolledKept DEF MetricsInv
<1>3. QED
  BY <1>1, <1>2, PTL DEF Spec

\* The inductive invariant of both theorems below.
CoexistInv == TypeOK /\ Enrolled /\ InitsCoexist /\ ResultsCounted

LEMMA Coexist == Spec => []CoexistInv
<1>1. Init => CoexistInv
  BY DEF Init, CoexistInv, TypeOK, Enrolled, InitPC, InitsCoexist, ResultsCounted
<1>2. CoexistInv /\ [Next]_vars => CoexistInv'
  BY TypesKept, EnrolledKept, CoexistKept, CountedKept DEF CoexistInv
<1>3. QED
  BY <1>1, <1>2, PTL DEF Spec

\* Whatever the setups and however the steps of the clients interleave: if those
\* with one prefix share storage and labels, no Init panics
\* (default_metric_storage.go:26-41).
THEOREM CompatibleClients == Spec => []InitsCoexist
<1>1. CoexistInv => InitsCoexist
  BY DEF CoexistInv
<1>2. QED
  BY <1>1, Coexist, PTL

\* With such setups every request result is counted (metrics.go:140-151).
THEOREM NoResultIsLost == Spec => []ResultsCounted
<1>1. CoexistInv => ResultsCounted
  BY DEF CoexistInv
<1>2. QED
  BY <1>1, Coexist, PTL

-----------------------------------------------------------------------------
(* One fate for all results.                                             *)

\* What becomes of a result, now that client-go has a backend.
Fate ==
    IF \E v \in vecs : /\ v.storage = backend.storage
                       /\ v.name = Name(Result, Prefix(backend))
                       /\ v.keys = backend.labels \cup Keys(Result)
    THEN "counted" ELSE "panic"

\* The inductive invariant for it: a name is registered once, with one set of
\* labels, and what became of each result would become of the next.
FateInv ==
    /\ \A v, w \in vecs : v.name = w.name => v = w
    /\ \A s \in samples : s.metric = Result =>
         /\ backend # NoBackend
         /\ s.name = Name(Result, Prefix(backend))
         /\ s.keys = backend.labels \cup Keys(Result)
         /\ s.outcome = Fate

\* A registration adds no second vector of a name.
LEMMA NamesStayUnique ==
    ASSUME \A v, w \in vecs : v.name = w.name => v = w, [Next]_vars
    PROVE  \A v, w \in vecs' : v.name = w.name => v = w
<1>1. CASE UNCHANGED vecs
  BY <1>1
<1>2. ASSUME NEW c \in Clients, NEW t, NEW from, NEW to, Enrol(c, t, from, to)
      PROVE  \A v, w \in vecs' : v.name = w.name => v = w
  <2>1. CASE vecs' = vecs
    BY <2>1
  <2>2. CASE vecs' # vecs
    <3>1. /\ {v \in vecs : v.name = Name(t, Prefix(setup[c]))} = {}
          /\ vecs' = vecs \cup {VecOf(c, t)}
      BY <1>2, <2>2 DEF Enrol, VecOf
    <3>2. VecOf(c, t).name = Name(t, Prefix(setup[c]))
      BY DEF VecOf
    <3>3. QED
      BY <3>1, <3>2
  <2>3. QED
    BY <2>1, <2>2
<1>3. QED
  BY <1>1, <1>2, OtherSteps DEF Next, vars, RegisterHistogram, RegisterCounter

\* Vectors stay, and once client-go has a backend it keeps it.
LEMMA BackendStays ==
    ASSUME [Next]_vars
    PROVE  vecs \subseteq vecs' /\ (backend # NoBackend => backend' = backend)
<1>1. CASE UNCHANGED vars
  BY <1>1 DEF vars
<1>2. ASSUME NEW c \in Clients, RegisterHistogram(c) \/ RegisterCounter(c)
      PROVE  vecs \subseteq vecs' /\ backend' = backend
  BY <1>2, EnrolCases DEF RegisterHistogram, RegisterCounter
<1>3. ASSUME NEW c \in Clients, InitCall(c) \/ Install(c) \/ Increment(c) \/ Observe(c)
      PROVE  vecs' = vecs /\ (backend # NoBackend => backend' = backend)
  BY <1>3, OtherSteps DEF Install
<1>4. QED
  BY <1>1, <1>2, <1>3 DEF Next

\* So what becomes of a result stays the same: the counter is registered before
\* the backend is there, and no other can take its name.
LEMMA FateStays ==
    ASSUME TypeOK, Enrolled, FateInv, backend # NoBackend, [Next]_vars
    PROVE  Fate' = Fate
<1> DEFINE Is(v) == /\ v.storage = backend.storage
                    /\ v.name = Name(Result, Prefix(backend))
                    /\ v.keys = backend.labels \cup Keys(Result)
<1>1. backend' = backend /\ vecs \subseteq vecs'
  BY BackendStays
<1>2. PICK counter \in vecs : counter.name = Name(Result, Prefix(backend))
  BY DEF Enrolled
<1>3. \A v, w \in vecs' : v.name = w.name => v = w
  BY NamesStayUnique DEF FateInv
<1>4. \A v \in vecs' : v.name = Name(Result, Prefix(backend)) => v = counter
  BY <1>1, <1>2, <1>3
<1>5. (\E v \in vecs' : Is(v)) <=> (\E v \in vecs : Is(v))
  BY <1>1, <1>2, <1>4
<1>6. Fate = IF \E v \in vecs : Is(v) THEN "counted" ELSE "panic"
  BY DEF Fate
<1>7. Fate' = IF \E v \in vecs' : Is(v) THEN "counted" ELSE "panic"
  BY <1>1 DEF Fate
<1>8. QED
  BY <1>5, <1>6, <1>7

LEMMA FateKept ==
    ASSUME TypeOK, Enrolled, FateInv, [Next]_vars
    PROVE  FateInv'
<1>1. \A v, w \in vecs' : v.name = w.name => v = w
  BY NamesStayUnique DEF FateInv
<1>2. ASSUME NEW s \in samples, s.metric = Result
      PROVE  /\ backend' # NoBackend
             /\ s.name = Name(Result, Prefix(backend'))
             /\ s.keys = backend'.labels \cup Keys(Result)
             /\ s.outcome = Fate'
  BY <1>2, BackendStays, FateStays DEF FateInv
<1>3. CASE UNCHANGED samples
  BY <1>1, <1>2, <1>3 DEF FateInv
<1>4. ASSUME NEW c \in Clients, Observe(c) PROVE FateInv'
  <2>1. \A s \in samples' : s \in samples \/ s.metric = Latency
    BY <1>4 DEF Observe, Emit
  <2>2. QED
    BY <1>1, <1>2, <2>1 DEF FateInv, Latency, Result
<1>5. ASSUME NEW c \in Clients, Increment(c) PROVE FateInv'
  <2> DEFINE name == Name(Result, Prefix(backend))
             keys == backend.labels \cup Keys(Result)
             mine == {v \in vecs : v.storage = backend.storage /\ v.name = name}
             outcome == CASE mine = {} -> "dropped"
                          [] \E v \in mine : v.keys = keys -> "counted"
                          [] OTHER -> "panic"
             sample == [client |-> c, metric |-> Result, name |-> name, keys |-> keys,
                        outcome |-> outcome]
  <2>1. backend # NoBackend /\ UNCHANGED <<backend, vecs>>
    BY <1>5 DEF Increment, Emit
  <2>2. samples' = samples \cup {sample}
    BY <1>5 DEF Increment, Emit
  <2>3. mine # {}
    BY <2>1 DEF Enrolled
  <2>4. outcome = Fate
    <3>1. outcome = IF \E v \in mine : v.keys = keys THEN "counted" ELSE "panic"
      BY <2>3
    <3>2. (\E v \in mine : v.keys = keys) <=>
          \E v \in vecs : v.storage = backend.storage /\ v.name = name /\ v.keys = keys
      OBVIOUS
    <3>3. QED
      BY <3>1, <3>2 DEF Fate
  <2>5. Fate' = Fate
    BY <2>1, FateStays
  <2>6. \A s \in samples' : s \in samples \/ s = sample
    BY <2>2
  <2>7. QED
    BY <1>1, <1>2, <2>1, <2>4, <2>5, <2>6 DEF FateInv
<1>6. QED
  BY <1>3, <1>4, <1>5, EnrolCases
  DEF Next, vars, InitCall, RegisterHistogram, RegisterCounter, Install

\* Whatever the setups of the clients, and whichever of them was first: all results
\* of the process go to one counter and share one outcome, counted or panic
\* (client.go:323-327, default_metric_storage.go:26-51).
THEOREM ResultsAreAlike == Spec => []ResultsShareFate
<1>1. Init => FateInv
  BY DEF Init, FateInv
<1>2. MetricsInv /\ FateInv /\ [Next]_vars => FateInv'
  BY FateKept DEF MetricsInv
<1>3. FateInv => ResultsShareFate
  BY DEF FateInv, ResultsShareFate, Fate
<1>4. QED
  BY <1>1, <1>2, <1>3, CountersEnrolled, PTL DEF Spec
=============================================================================
