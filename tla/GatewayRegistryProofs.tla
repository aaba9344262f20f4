----------------------- MODULE GatewayRegistryProofs -----------------------
(*************************************************************************)
(* Proofs about GatewayRegistry for any requests, any number of          *)
(* published registries and any number of failures: the types, that      *)
(* persisted changes stay, and that a watcher at rest serves what the    *)
(* file names.                                                           *)
(*************************************************************************)
EXTENDS GatewayRegistry, TLAPS

\* As long as nothing was overtaken, what is served holds every change that was
\* persisted and every one that is about to be.
ServesChanges == ~raced /\ Serving => persisted \cup Pending \subseteq Held(loaded)

KeptInv == TypeOK /\ PersistedKeptUnlessRaced /\ ServesChanges

\* A fault leaves a number of faults.
LEMMA FaultType ==
  ASSUME faults \in 0..MaxFaults, Fault \/ NoFault PROVE faults' \in 0..MaxFaults
  BY CountsAssumption DEF Fault, NoFault

\* No bucket opened is a bucket.
LEMMA UnopenedType == Unopened \in [Requests -> Bucket]
  BY CountsAssumption, BucketsAssumption
  DEF Unopened, Empty, CloudRegistry, Bucket

\* What is loaded of a request's bucket is a bucket.
LEMMA OpenedType ==
  ASSUME TypeOK, NEW r \in Requests
  PROVE  InBucket[r] \in Buckets /\ loaded[InBucket[r]] \in Bucket /\ opened[r] \in Bucket
  BY BucketsAssumption DEF TypeOK, Registry

\* The types hold of the initial state.
LEMMA TypeInit == Init => TypeOK
  <1>1. Empty \in Registry /\ 0 \in 0..MaxPublished /\ MaxFaults \in 0..MaxFaults
    BY CountsAssumption DEF Empty, CloudRegistry, Registry, Bucket
  <1>. QED
    BY <1>1, UnopenedType DEF Init, TypeOK, Phases

\* Every step keeps the types.
LEMMA TypeNext == TypeOK /\ [Next]_vars => TypeOK'
  <1>. SUFFICES ASSUME TypeOK, [Next]_vars PROVE TypeOK'
    OBVIOUS
  <1>a. ASSUME Fault \/ NoFault PROVE faults' \in 0..MaxFaults
    BY <1>a, FaultType DEF TypeOK
  <1>e. Empty \in Registry
    BY CountsAssumption DEF Empty, CloudRegistry, Registry, Bucket
  <1>1. CASE Publish
    <2>1. published' \in 0..MaxPublished
      BY <1>1, CountsAssumption DEF Publish, TypeOK
    <2>2. file' \in Registry
      BY <1>1, <2>1 DEF Publish, CloudRegistry, Registry, Bucket
    <2>. QED
      BY <1>1, <2>1, <2>2 DEF Publish, watch, handlers, TypeOK
  <1>2. CASE Start
    BY <1>2 DEF Start, handlers, TypeOK, Phases
  <1>3. CASE Connect \/ Poll
    BY <1>3 DEF Connect, Poll, BeginLoad, handlers, TypeOK, Phases
  <1>4. CASE Loaded \/ Reloaded
    BY <1>4 DEF Loaded, Reloaded, EndLoad, handlers, TypeOK, Phases
  <1>5. CASE ReadCid
    <2>1. lastCid' # NoCid
      BY <1>5, NoCidAssumption DEF ReadCid, TypeOK
    <2>. QED
      BY <1>5, <2>1 DEF ReadCid, handlers, TypeOK, Phases
  <1>6. CASE StartFails \/ Crash
    <2>1. faults' \in 0..MaxFaults
      BY <1>6, <1>a DEF StartFails, Crash
    <2>. QED
      BY <1>6, <1>e, <2>1, UnopenedType DEF StartFails, Crash, Gone, TypeOK, Phases
  <1>7. CASE ReloadFails
    <2>1. faults' \in 0..MaxFaults
      BY <1>7, <1>a DEF ReloadFails
    <2>. QED
      BY <1>7, <2>1 DEF ReloadFails, handlers, TypeOK, Phases
  <1>8. ASSUME NEW r \in Requests, Change(r) PROVE TypeOK'
    <2>1. loaded' \in Registry
      BY <1>8, OpenedType DEF Change, TypeOK, Registry, Bucket
    <2>. QED
      BY <1>8, <2>1 DEF Change, watch, TypeOK
  <1>11. ASSUME NEW r \in Requests, Open(r) PROVE TypeOK'
    <2>1. opened' \in [Requests -> Bucket]
      BY <1>11, OpenedType DEF Open, TypeOK
    <2>. QED
      BY <1>11, <2>1 DEF Open, watch, TypeOK
  <1>12. ASSUME NEW r \in Requests, Flush(r) PROVE TypeOK'
    <2>1. loaded' \in Registry
      BY <1>12, OpenedType DEF Flush, TypeOK, Registry, Bucket
    <2>2. opened' \in [Requests -> Bucket]
      BY <1>12, UnopenedType DEF Flush, TypeOK
    <2>. QED
      BY <1>12, <2>1, <2>2 DEF Flush, watch, TypeOK
  <1>13. ASSUME NEW r \in Requests, HandlerFails(r) PROVE TypeOK'
    <2>1. faults' \in 0..MaxFaults
      BY <1>13, <1>a DEF HandlerFails
    <2>2. opened' \in [Requests -> Bucket]
      BY <1>13, UnopenedType DEF HandlerFails, TypeOK
    <2>. QED
      BY <1>13, <2>1, <2>2 DEF HandlerFails, watch, TypeOK
  <1>9. ASSUME NEW r \in Requests, Persist(r) PROVE TypeOK'
    <2>1. faults' \in 0..MaxFaults
      BY <1>9, <1>a DEF Persist
    <2>2. file' \in Registry /\ persisted' \subseteq Requests
      BY <1>9 DEF Persist, TypeOK
    <2>. QED
      BY <1>9, <2>1, <2>2 DEF Persist, watch, TypeOK
  <1>10. CASE UNCHANGED vars
    BY <1>10 DEF vars, TypeOK
  <1>. QED
    BY <1>1, <1>2, <1>3, <1>4, <1>5, <1>6, <1>7, <1>8, <1>9, <1>10, <1>11, <1>12, <1>13
    DEF Next, Gateway

\* The gateway's state is always well typed.
THEOREM TypeCorrect == Spec => []TypeOK
  BY TypeInit, TypeNext, PTL DEF Spec

\* Every step keeps the persisted changes in the file and in what is served.
LEMMA KeptNext ==
  ASSUME TypeOK, PersistedKeptUnlessRaced, ServesChanges, [Next]_vars
  PROVE  PersistedKeptUnlessRaced' /\ ServesChanges'
  <1>. USE DEF PersistedKeptUnlessRaced, ServesChanges, Serving, Pending
  <1>1. CASE Publish
    BY <1>1 DEF Publish, watch, handlers
  <1>2. CASE Start
    BY <1>2 DEF Start, handlers
  <1>3. CASE Connect \/ Poll
    BY <1>3 DEF Connect, Poll, BeginLoad, handlers
  <1>4. CASE Loaded \/ Reloaded
    BY <1>4 DEF Loaded, Reloaded, EndLoad, handlers
  <1>5. CASE ReadCid
    BY <1>5 DEF ReadCid, handlers
  <1>6. CASE StartFails \/ Crash
    BY <1>6 DEF StartFails, Crash, Gone
  <1>7. CASE ReloadFails
    BY <1>7 DEF ReloadFails, handlers
  <1>8. ASSUME NEW r \in Requests, Change(r)
        PROVE  PersistedKeptUnlessRaced' /\ ServesChanges'
    <2>1. Held(loaded) \cup {r} \subseteq Held(loaded')
      BY <1>8, OpenedType DEF Change, Held, TypeOK, Registry, Bucket
    <2>2. \A q \in Requests : req'[q] = "changed" => req[q] = "changed" \/ q = r
      BY <1>8 DEF Change, TypeOK
    <2>. QED
      BY <1>8, <2>1, <2>2 DEF Change, watch
  <1>11. ASSUME NEW r \in Requests, Open(r)
        PROVE  PersistedKeptUnlessRaced' /\ ServesChanges'
    <2>1. \A q \in Requests : req'[q] = "changed" => req[q] = "changed"
      BY <1>11 DEF Open, TypeOK
    <2>. QED
      BY <1>11, <2>1 DEF Open, watch
  <1>12. ASSUME NEW r \in Requests, Flush(r)
        PROVE  PersistedKeptUnlessRaced' /\ ServesChanges'
    <2>1. opened[r] = loaded[InBucket[r]] => Held(loaded) \cup {r} \subseteq Held(loaded')
      BY <1>12, OpenedType DEF Flush, Held, TypeOK, Registry, Bucket
    <2>2. \A q \in Requests : req'[q] = "changed" => req[q] = "changed" \/ q = r
      BY <1>12 DEF Flush, TypeOK
    <2>. QED
      BY <1>12, <2>1, <2>2 DEF Flush, watch
  <1>13. ASSUME NEW r \in Requests, HandlerFails(r)
        PROVE  PersistedKeptUnlessRaced' /\ ServesChanges'
    <2>1. \A q \in Requests : req'[q] = "changed" => req[q] = "changed"
      BY <1>13 DEF HandlerFails, TypeOK
    <2>. QED
      BY <1>13, <2>1 DEF HandlerFails, watch
  <1>9. ASSUME NEW r \in Requests, Persist(r)
        PROVE  PersistedKeptUnlessRaced' /\ ServesChanges'
    <2>1. \A q \in Requests : req'[q] = "changed" => req[q] = "changed"
      BY <1>9 DEF Persist, TypeOK
    <2>2. CASE file' = loaded /\ persisted' = persisted \cup {r}
      BY <1>9, <2>1, <2>2 DEF Persist, watch
    <2>3. CASE UNCHANGED <<file, persisted>>
      BY <1>9, <2>1, <2>3 DEF Persist, watch
    <2>. QED
      BY <1>9, <2>2, <2>3 DEF Persist
  <1>10. CASE UNCHANGED vars
    BY <1>10 DEF vars
  <1>. QED
    BY <1>1, <1>2, <1>3, <1>4, <1>5, <1>6, <1>7, <1>8, <1>9, <1>10, <1>11, <1>12, <1>13
    DEF Next, Gateway

\* However many requests, failures, crashes and restarts: a persisted change is in
\* registry.cid until fula-pinning writes it, as long as nothing was overtaken.
THEOREM PersistedIsKept == Spec => []PersistedKeptUnlessRaced
  <1>1. Init => KeptInv
    BY TypeInit DEF Init, KeptInv, PersistedKeptUnlessRaced, ServesChanges, Serving
  <1>2. KeptInv /\ [Next]_vars => KeptInv'
    BY TypeNext, KeptNext DEF KeptInv
  <1>3. KeptInv => PersistedKeptUnlessRaced
    BY DEF KeptInv
  <1>. QED
    BY <1>1, <1>2, <1>3, PTL DEF Spec

----------------------------------------------------------------------------
(* What the watcher believes, and what is served                           *)

\* As long as nothing was overtaken, the registry that is served is of the cloud's
\* registry that the last load read, and that one is what last_cid names.
CidTells ==
    ~raced => /\ pc = "read" => SameCloud(loaded, reading)
              /\ pc \in {"sleep", "reload"} => SameCloud(loaded, lastCid)

\* Every step keeps last_cid true of what is served.
LEMMA CidNext ==
  ASSUME TypeOK, CidTells, [Next]_vars PROVE CidTells'
  <1>. USE DEF CidTells, SameCloud
  <1>1. CASE Publish
    BY <1>1 DEF Publish, watch, handlers
  <1>2. CASE Start
    BY <1>2 DEF Start, handlers
  <1>3. CASE Connect \/ Poll
    BY <1>3 DEF Connect, Poll, BeginLoad, handlers
  <1>4. CASE Loaded \/ Reloaded
    BY <1>4 DEF Loaded, Reloaded, EndLoad, handlers
  <1>5. CASE ReadCid
    BY <1>5 DEF ReadCid, handlers
  <1>6. CASE StartFails \/ Crash
    BY <1>6 DEF StartFails, Crash, Gone
  <1>7. CASE ReloadFails
    BY <1>7 DEF ReloadFails, handlers
  <1>8. ASSUME NEW r \in Requests, Change(r) PROVE CidTells'
    <2>1. \A b \in Buckets : loaded'[b].cloud = loaded[b].cloud
      BY <1>8, OpenedType DEF Change, TypeOK, Registry, Bucket
    <2>. QED
      BY <1>8, <2>1 DEF Change, watch
  <1>11. ASSUME NEW r \in Requests, Open(r) PROVE CidTells'
    BY <1>11 DEF Open, watch
  <1>12. ASSUME NEW r \in Requests, Flush(r) PROVE CidTells'
    <2>1. opened[r] = loaded[InBucket[r]] =>
            \A b \in Buckets : loaded'[b].cloud = loaded[b].cloud
      BY <1>12, OpenedType DEF Flush, TypeOK, Registry, Bucket
    <2>. QED
      BY <1>12, <2>1 DEF Flush, watch
  <1>13. ASSUME NEW r \in Requests, HandlerFails(r) PROVE CidTells'
    BY <1>13 DEF HandlerFails, watch
  <1>9. ASSUME NEW r \in Requests, Persist(r) PROVE CidTells'
    BY <1>9 DEF Persist, watch
  <1>10. CASE UNCHANGED vars
    BY <1>10 DEF vars
  <1>. QED
    BY <1>1, <1>2, <1>3, <1>4, <1>5, <1>6, <1>7, <1>8, <1>9, <1>10, <1>11, <1>12, <1>13
    DEF Next, Gateway

\* However many registries are published and however many loads fail: a watcher at
\* rest over the CID in the file serves the registry it names.
THEOREM RestIsCurrent == Spec => []QuietIsCurrent
  <1>. DEFINE I == TypeOK /\ CidTells
  <1>1. Init => I
    BY TypeInit DEF Init, CidTells
  <1>2. I /\ [Next]_vars => I'
    BY TypeNext, CidNext
  <1>3. I => QuietIsCurrent
    BY DEF CidTells, QuietIsCurrent, SameCloud
  <1>. QED
    BY <1>1, <1>2, <1>3, PTL DEF Spec
=============================================================================
