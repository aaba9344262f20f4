-------------------------- MODULE GatewayRegistry --------------------------
(***************************************************************************)
(* The bucket registry of the local S3 gateway (docker/fula-gateway): the  *)
(* start of the server (state.rs, server.rs), the task that watches        *)
(* registry.cid (state.rs), and the handlers that change buckets and       *)
(* persist the registry into the same file (handlers/).  fula-pinning also *)
(* writes that file; here it is what PinPromise says of it: it publishes   *)
(* registries in the order they were registered, each any number of times. *)
(*                                                                         *)
(* A registry is, for each bucket, what the cloud had registered when it   *)
(* was made and the local requests whose changes it holds.  A CID names    *)
(* its content, so two CIDs are equal when the registries are, and         *)
(* registry.cid is modelled by the registry its CID names.                 *)
(*                                                                         *)
(* BucketManager is a library (fula-core): load_registry is taken to read  *)
(* the file, fetch the block and then replace what it had loaded;          *)
(* open_bucket_for_user to hand out the bucket as it is loaded then;       *)
(* flush to put what was opened, with the change, in the place of the      *)
(* bucket as it is loaded now; persist_registry to write what is loaded,   *)
(* in one step.                                                            *)
(***************************************************************************)
EXTENDS Naturals

CONSTANTS
    Buckets,
    Requests,      \* requests that change a bucket
    InBucket,      \* InBucket[r] is the bucket request r changes
    NoCid,         \* last_cid before the watcher has read the file
    MaxPublished,  \* bound: registries the cloud registers
    MaxFaults      \* bound: failed loads, failed writes, failed handlers, crashes

ASSUME CountsAssumption == MaxPublished \in Nat /\ MaxFaults \in Nat
ASSUME BucketsAssumption == InBucket \in [Requests -> Buckets]

Bucket   == [cloud : 0..MaxPublished, local : SUBSET Requests]
Registry == [Buckets -> Bucket]
\* The registry the cloud registered as its n-th: with no local change.  No file, or one
\* with no CID, is the empty one, of no cloud's: load_registry returns an empty registry.
CloudRegistry(n) == [b \in Buckets |-> [cloud |-> n, local |-> {}]]
Empty == CloudRegistry(0)
Unopened == [r \in Requests |-> Empty[InBucket[r]]]
ASSUME NoCidAssumption == NoCid \notin Registry

VARIABLES
    file,       \* registry.cid
    published,  \* the newest registry fula-pinning has published
    pc,         \* where the gateway is: see Phases
    reading,    \* what load_registry read from the file
    loaded,     \* the registry in memory, which every request is served from
    lastCid,    \* last_cid of the watcher
    req,        \* where each request's handler is
    opened,     \* the bucket as each request's handler opened it
    persisted,  \* requests answered after their persist_registry succeeded,
                \* since fula-pinning last wrote the file
    raced,      \* a load or a flush put back what something else had overtaken
    faults      \* failures still allowed

vars == <<file, published, pc, reading, loaded, lastCid, req, opened, persisted, raced,
          faults>>
watch == <<pc, reading, lastCid>>
handlers == <<req, opened>>

\* "ipfs": wait_for_ipfs; "start": the load of a starting gateway; "read": about
\* to read last_cid; "sleep" and "reload": the loop of the watcher.
Phases  == {"down", "ipfs", "start", "read", "sleep", "reload"}
Serving == pc \in {"read", "sleep", "reload"}
Pending == {r \in Requests : req[r] = "changed"}
\* The requests whose changes a registry holds: each in the bucket it changes.
Held(reg) == {r \in Requests : r \in reg[InBucket[r]].local}

Fault   == faults > 0 /\ faults' = faults - 1
NoFault == UNCHANGED faults

Init ==
    /\ file = Empty /\ published = 0
    /\ pc = "down" /\ reading = Empty /\ loaded = Empty /\ lastCid = NoCid
    /\ req = [r \in Requests |-> "new"]
    /\ opened = Unopened
    /\ persisted = {} /\ raced = FALSE
    /\ faults = MaxFaults

----------------------------------------------------------------------------
(* fula-pinning                                                            *)

\* writeRegistryCID: every full pass writes the newest registry again.
Publish ==
    \E n \in published..MaxPublished :
        /\ n > 0
        /\ published' = n
        /\ file' = CloudRegistry(n)
        /\ persisted' = {}
        /\ UNCHANGED <<watch, loaded, handlers, raced, faults>>

----------------------------------------------------------------------------
(* Start and stop                                                          *)

\* The container starts and the gateway waits for kubo.
Start ==
    /\ pc = "down"
    /\ pc' = "ipfs"
    /\ UNCHANGED <<file, published, reading, loaded, lastCid, handlers, persisted, raced, faults>>

\* load_registry reads the file.
BeginLoad(phase) ==
    /\ pc' = phase
    /\ reading' = file
    /\ UNCHANGED <<file, published, loaded, lastCid, handlers, persisted, raced, faults>>

Connect == pc = "ipfs" /\ BeginLoad("start")

\* A load ends: what it read replaces the registry in memory.  It is overtaken if the file
\* has been written since, or if it drops a change that waits to be persisted; one that is
\* not, of a file fula-pinning wrote last, makes good what earlier races spoiled.
EndLoad ==
    /\ pc' = "read"
    /\ loaded' = reading
    /\ raced' = (file # reading \/ Pending # {} \/ (raced /\ persisted # {}))
    /\ UNCHANGED <<file, published, reading, lastCid, handlers, persisted, faults>>

Loaded == pc = "start" /\ EndLoad

\* The process is gone, and with it what it had in memory.
Gone ==
    /\ pc' = "down"
    /\ loaded' = Empty
    /\ lastCid' = NoCid
    /\ req' = [r \in Requests |-> IF req[r] \in {"open", "changed"} THEN "dropped" ELSE req[r]]
    /\ opened' = Unopened
    /\ UNCHANGED <<file, published, reading, persisted, raced>>

\* Mutant of StartFails: the gateway starts with an empty registry.
StartFails_Empty ==
    /\ pc = "start"
    /\ Fault
    /\ pc' = "read"
    /\ loaded' = Empty
    /\ UNCHANGED <<file, published, reading, lastCid, handlers, persisted, raced>>

\* The load at startup fails: the gateway refuses to start.
StartFails == pc = "start" /\ Fault /\ Gone

Crash == pc \notin {"down", "start"} /\ Fault /\ Gone

----------------------------------------------------------------------------
(* spawn_cid_watcher                                                       *)

\* last_cid = read_cid_file, when the task starts and after a reload.
ReadCid ==
    /\ pc = "read"
    /\ pc' = "sleep"
    /\ lastCid' = file
    /\ raced' = (raced \/ file # reading)
    /\ UNCHANGED <<file, published, reading, loaded, handlers, persisted, faults>>

\* The 30 second poll finds another CID.
Poll == pc = "sleep" /\ file # lastCid /\ BeginLoad("reload")

Reloaded == pc = "reload" /\ EndLoad

\* Mutant of ReloadFails: the CID counts as seen although its load failed.
ReloadFails_Seen ==
    /\ pc = "reload"
    /\ Fault
    /\ pc' = "sleep"
    /\ lastCid' = file
    /\ UNCHANGED <<file, published, reading, loaded, handlers, persisted, raced>>

\* A failed reload keeps last_cid, so that the next poll tries again.
ReloadFails ==
    /\ pc = "reload"
    /\ Fault
    /\ pc' = "sleep"
    /\ UNCHANGED <<file, published, reading, loaded, lastCid, handlers, persisted, raced>>

----------------------------------------------------------------------------
(* The handlers that change a bucket.  Each await lets everything else run *)

\* create_bucket, delete_bucket: the registry is changed within one await.
Change(r) ==
    /\ Serving
    /\ req[r] = "new"
    /\ req' = [req EXCEPT ![r] = "changed"]
    /\ loaded' = [loaded EXCEPT ![InBucket[r]].local = @ \cup {r}]
    /\ UNCHANGED <<file, published, watch, opened, persisted, raced, faults>>

\* put, delete, copy and complete open the bucket as it is loaded now.
Open(r) ==
    /\ Serving
    /\ req[r] = "new"
    /\ req' = [req EXCEPT ![r] = "open"]
    /\ opened' = [opened EXCEPT ![r] = loaded[InBucket[r]]]
    /\ UNCHANGED <<file, published, watch, loaded, persisted, raced, faults>>

\* The changed bucket is flushed: it takes the place of the bucket as it is loaded by
\* now, which a reload or another handler may have replaced since.
Flush(r) ==
    /\ Serving
    /\ req[r] = "open"
    /\ req' = [req EXCEPT ![r] = "changed"]
    /\ loaded' = [loaded EXCEPT ![InBucket[r]] = [opened[r] EXCEPT !.local = @ \cup {r}]]
    /\ raced' = (raced \/ opened[r] # loaded[InBucket[r]])
    /\ opened' = [opened EXCEPT ![r] = Unopened[r]]
    /\ UNCHANGED <<file, published, watch, persisted, faults>>

\* An await fails and the handler answers with the error, or the client is gone and the
\* handler is dropped: a bucket that was changed stays so.
HandlerFails(r) ==
    /\ Serving
    /\ req[r] \in {"open", "changed"}
    /\ Fault
    /\ req' = [req EXCEPT ![r] = "dropped"]
    /\ opened' = [opened EXCEPT ![r] = Unopened[r]]
    /\ UNCHANGED <<file, published, watch, loaded, persisted, raced>>

\* persist_registry; if it fails the client is answered all the same.
Persist(r) ==
    /\ Serving
    /\ req[r] = "changed"
    /\ req' = [req EXCEPT ![r] = "answered"]
    /\ \/ /\ NoFault
          /\ file' = loaded
          /\ persisted' = persisted \cup {r}
       \/ /\ Fault
          /\ UNCHANGED <<file, persisted>>
    /\ UNCHANGED <<published, watch, loaded, opened, raced>>

----------------------------------------------------------------------------
Gateway == Start \/ Connect \/ Loaded \/ ReadCid \/ Poll \/ Reloaded

Next ==
    \/ Publish \/ Gateway \/ StartFails \/ ReloadFails \/ Crash
    \/ \E r \in Requests :
          Change(r) \/ Open(r) \/ Flush(r) \/ HandlerFails(r) \/ Persist(r)

Spec == Init /\ [][Next]_vars

\* The container is restarted, the watcher's task and the handlers run, and
\* kubo answers.  Nothing makes fula-pinning publish or a client write.
FairSpec ==
    /\ Spec
    /\ WF_vars(Gateway)
    /\ \A r \in Requests : WF_vars(Flush(r)) /\ WF_vars(Persist(r))

----------------------------------------------------------------------------
(* Properties                                                              *)

\* The types, and that the watcher never compares with a CID it has not read.
TypeOK ==
    /\ file \in Registry /\ reading \in Registry /\ loaded \in Registry
    /\ published \in 0..MaxPublished
    /\ pc \in Phases
    /\ lastCid \in Registry \cup {NoCid}
    /\ pc \in {"sleep", "reload"} => lastCid # NoCid
    /\ req \in [Requests -> {"new", "open", "changed", "answered", "dropped"}]
    /\ opened \in [Requests -> Bucket]
    /\ persisted \subseteq Requests
    /\ raced \in BOOLEAN
    /\ faults \in 0..MaxFaults

\* A change that was persisted stays in registry.cid until fula-pinning writes
\* the file, through crashes, failed loads and restarts, reloads of the gateway's
\* own writes, other handlers' writes to the same bucket and to others, and
\* handlers that fail half-way, as long as nothing has been overtaken: neither a
\* load by a write of the file or by a change that waits for its persist_registry,
\* nor an opened bucket by a reload or by another handler's flush.  The refusal to
\* start without a registry (state.rs:63-69) is what keeps an empty registry from
\* being persisted over it.
PersistedKeptUnlessRaced == ~raced => persisted \subseteq Held(file)

\* Both serve the cloud's same registry, whatever local changes each holds.
SameCloud(reg, other) == \A b \in Buckets : reg[b].cloud = other[b].cloud

\* A watcher that finds nothing to reload serves what the file names: no failed
\* reload, crash or change of a bucket leaves it asleep over an older registry,
\* as long as nothing has been overtaken (spawn_cid_watcher, state.rs).
QuietIsCurrent ==
    pc = "sleep" /\ lastCid = file => raced \/ SameCloud(loaded, file)

\* The gateway ends up serving what fula-pinning last published into the file,
\* whatever loads failed and however often it crashed, as long as nothing has
\* been overtaken.
FollowsUnlessRaced == <>[](~raced => SameCloud(loaded, file))
=============================================================================
