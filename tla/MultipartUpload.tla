-------------------------- MODULE MultipartUpload --------------------------
(***************************************************************************)
(* Multipart uploads of the local S3 gateway: the table of open uploads    *)
(* (multipart_manager.rs) and the handlers that create one, add a part,    *)
(* complete it into an object and abort it (handlers/multipart.rs).  Each  *)
(* handler is cut where it awaits kubo; between two awaits it holds the    *)
(* table's entry or nothing.                                               *)
(*                                                                         *)
(* A part is named by the request that carries it.  The paths are keys of  *)
(* one bucket, which exists; a bucket deleted meanwhile is one of the      *)
(* failures of a complete.  The bucket is in the registry the gateway has  *)
(* loaded and in the one registry.cid names; BucketManager, a library, is  *)
(* taken as in GatewayRegistry, which also models what fula-pinning writes *)
(* into that file: here only the gateway does.                             *)
(***************************************************************************)
EXTENDS Naturals

CONSTANTS
    Uploads,     \* upload ids; each is issued once
    Paths,       \* the keys of the bucket
    Parts,       \* upload_part requests
    Numbers,     \* part numbers, within 1..10000
    NoPath, NoPart, NoUpload,
    NoReload,    \* no reload of the registry is under way
    MaxFaults    \* bound: failed calls to kubo and restarts

ASSUME AbsentAssumption ==
    NoPath \notin Paths /\ NoPart \notin Parts /\ NoUpload \notin Uploads
Bucket == [Paths -> Uploads \cup {NoUpload}]
ASSUME ReloadAssumption == NoReload \notin Bucket
ASSUME FaultsAssumption == MaxFaults \in Nat

VARIABLES
    open,      \* the uploads in the table
    path,      \* the path an upload was created for
    parts,     \* an upload's parts; once it has left the table, those it left with
    call,      \* where each upload_part handler is, and for which upload and number
    complete,  \* where an upload's complete handler is
    aborted,   \* the uploads whose abort was answered 204
    object,    \* in the loaded registry, the upload each path's object was made from
    durable,   \* the same in the registry that registry.cid names
    opened,    \* the bucket as each complete handler opened it
    reload,    \* what a reload of the registry has read, or NoReload
    promised,  \* numbers answered 200 for an upload when its complete came
    faults     \* failures still allowed

registry == <<object, durable, opened, reload>>
vars == <<open, path, parts, call, complete, aborted, object, durable, opened, reload,
          promised, faults>>

\* The steps of a complete before its object is in the bucket, and after it.
Sealed == {"linking", "opened"}
Shown  == {"flushed", "unanswered", "answered"}

NoParts   == [n \in Numbers |-> NoPart]
NoObjects == [p \in Paths |-> NoUpload]
Held(u)  == {n \in Numbers : parts[u][n] # NoPart}
Answered(u) == {call[r].number : r \in {q \in Parts : call[q].at = "answered"
                                                     /\ call[q].upload = u}}

Fault   == faults > 0 /\ faults' = faults - 1
NoFault == UNCHANGED faults

Init ==
    /\ open = {}
    /\ path = [u \in Uploads |-> NoPath]
    /\ parts = [u \in Uploads |-> NoParts]
    /\ call \in [Parts -> {[at |-> "new", upload |-> u, number |-> n] :
                              u \in Uploads, n \in Numbers}]
    /\ complete = [u \in Uploads |-> "none"]
    /\ aborted = {}
    /\ object = NoObjects
    /\ durable = NoObjects
    /\ opened = [u \in Uploads |-> NoObjects]
    /\ reload = NoReload
    /\ promised = [u \in Uploads |-> {}]
    /\ faults = MaxFaults

----------------------------------------------------------------------------
\* create_multipart_upload
Create(u, p) ==
    /\ path[u] = NoPath
    /\ open' = open \cup {u}
    /\ path' = [path EXCEPT ![u] = p]
    /\ UNCHANGED <<parts, call, complete, aborted, registry, promised, faults>>

\* upload_part up to put_block: the upload is looked up (and copied).
BeginPart(r, p) ==
    /\ call[r].at = "new"
    /\ call[r].upload \in open
    /\ path[call[r].upload] = p
    /\ call' = [call EXCEPT ![r] = [@ EXCEPT !.at = "storing"]]
    /\ UNCHANGED <<open, path, parts, complete, aborted, registry, promised, faults>>

\* Mutant of EndPart: the part is put into the copy of the upload that was looked
\* up before put_block, and the copy is put back into the table.
EndPart_WriteBack(r) ==
    LET u == call[r].upload IN
    /\ call[r].at = "storing"
    /\ NoFault
    /\ call' = [call EXCEPT ![r] = [@ EXCEPT !.at = "answered"]]
    /\ open' = open \cup {u}
    /\ \E known \in SUBSET Held(u) :
          parts' = [parts EXCEPT ![u] =
              [n \in Numbers |-> IF n = call[r].number THEN r
                                 ELSE IF n \in known THEN parts[u][n] ELSE NoPart]]
    /\ UNCHANGED <<path, complete, aborted, registry, promised>>

\* upload_part after put_block: add_part finds the upload or not, and the answer
\* is 200 either way.
EndPart(r) ==
    LET u == call[r].upload IN
    /\ call[r].at = "storing"
    /\ \/ /\ NoFault
          /\ call' = [call EXCEPT ![r] = [@ EXCEPT !.at = "answered"]]
          /\ parts' = IF u \in open
                      THEN [parts EXCEPT ![u][call[r].number] = r] ELSE parts
       \/ /\ Fault
          /\ call' = [call EXCEPT ![r] = [@ EXCEPT !.at = "failed"]]
          /\ UNCHANGED parts
    /\ UNCHANGED <<open, path, complete, aborted, registry, promised>>

\* Mutant of Complete: the upload is looked up and leaves the table later.
Complete_ByGet(u, p) ==
    /\ u \in open
    /\ complete' = [complete EXCEPT ![u] =
          IF path[u] = p /\ Held(u) # {} THEN "linking" ELSE "refused"]
    /\ promised' = [promised EXCEPT ![u] = Answered(u)]
    /\ UNCHANGED <<open, path, parts, call, aborted, registry, faults>>

\* complete_multipart_upload up to put_ipld: the upload is taken out of the table
\* before its path and its parts are looked at.
Complete(u, p) ==
    /\ u \in open
    /\ open' = open \ {u}
    /\ complete' = [complete EXCEPT ![u] =
          IF path[u] = p /\ Held(u) # {} THEN "linking" ELSE "refused"]
    /\ promised' = [promised EXCEPT ![u] = Answered(u)]
    /\ UNCHANGED <<path, parts, call, aborted, registry, faults>>

\* An await of complete fails: the client gets the error, the upload is gone.
CompleteFails(u) ==
    /\ complete[u] \in Sealed
    /\ Fault
    /\ complete' = [complete EXCEPT ![u] = "failed"]
    /\ opened' = [opened EXCEPT ![u] = NoObjects]
    /\ UNCHANGED <<open, path, parts, call, aborted, object, durable, reload, promised>>

\* put_ipld has linked the parts, and the bucket is opened as it is loaded now.
OpenBucket(u) ==
    /\ complete[u] = "linking"
    /\ complete' = [complete EXCEPT ![u] = "opened"]
    /\ opened' = [opened EXCEPT ![u] = object]
    /\ NoFault
    /\ UNCHANGED <<open, path, parts, call, aborted, object, durable, reload, promised>>

\* put_object changes the opened bucket, and the flush puts that in the place of the
\* bucket as it is loaded by now.
Flush(u) ==
    /\ complete[u] = "opened"
    /\ complete' = [complete EXCEPT ![u] = "flushed"]
    /\ object' = [opened[u] EXCEPT ![path[u]] = u]
    /\ opened' = [opened EXCEPT ![u] = NoObjects]
    /\ NoFault
    /\ UNCHANGED <<open, path, parts, call, aborted, durable, reload, promised>>

\* persist_registry; if it fails the client is answered 200 all the same.
Persist(u) ==
    /\ complete[u] = "flushed"
    /\ complete' = [complete EXCEPT ![u] = "answered"]
    /\ \/ NoFault /\ durable' = object
       \/ Fault /\ UNCHANGED durable
    /\ UNCHANGED <<open, path, parts, call, aborted, object, opened, reload, promised>>

\* abort_multipart_upload: taken out of the table, then the path is compared.
Abort(u, p) ==
    /\ u \in open
    /\ open' = open \ {u}
    /\ aborted' = IF path[u] = p THEN aborted \cup {u} ELSE aborted
    /\ UNCHANGED <<path, parts, call, complete, registry, promised, faults>>

\* The watcher of registry.cid finds another CID, of the gateway's own write, reads the
\* registry it names, and later puts it in the place of the loaded one, if it could.
BeginReload ==
    /\ reload = NoReload
    /\ reload' = durable
    /\ UNCHANGED <<open, path, parts, call, complete, aborted, object, durable, opened,
                   promised, faults>>

EndReload ==
    /\ reload # NoReload
    /\ reload' = NoReload
    /\ \/ NoFault /\ object' = reload
       \/ Fault /\ UNCHANGED object
    /\ UNCHANGED <<open, path, parts, call, complete, aborted, durable, opened, promised>>

\* The gateway restarts: the table was in memory only, and the registry that
\* registry.cid names is loaded.
Restart ==
    /\ Fault
    /\ open' = {}
    /\ complete' = [u \in Uploads |->
          CASE complete[u] \in Sealed -> "failed"
            [] complete[u] = "flushed" -> "unanswered"
            [] OTHER -> complete[u]]
    /\ call' = [r \in Parts |->
          IF call[r].at = "storing" THEN [call[r] EXCEPT !.at = "failed"] ELSE call[r]]
    /\ object' = durable
    /\ opened' = [u \in Uploads |-> NoObjects]
    /\ reload' = NoReload
    /\ UNCHANGED <<path, parts, aborted, durable, promised>>

----------------------------------------------------------------------------
Next ==
    \/ \E u \in Uploads, p \in Paths : Create(u, p) \/ Complete(u, p) \/ Abort(u, p)
    \/ \E r \in Parts, p \in Paths : BeginPart(r, p)
    \/ \E r \in Parts : EndPart(r)
    \/ \E u \in Uploads : OpenBucket(u) \/ Flush(u) \/ Persist(u) \/ CompleteFails(u)
    \/ BeginReload \/ EndReload \/ Restart

Spec == Init /\ [][Next]_vars

----------------------------------------------------------------------------
(* Properties                                                              *)

\* The types, and that an upload in the table has been neither completed nor
\* aborted.
TypeOK ==
    /\ open \subseteq {u \in Uploads : path[u] # NoPath /\ complete[u] = "none"}
    /\ open \cap aborted = {}
    /\ path \in [Uploads -> Paths \cup {NoPath}]
    /\ parts \in [Uploads -> [Numbers -> Parts \cup {NoPart}]]
    /\ call \in [Parts -> [at : {"new", "storing", "answered", "failed"},
                           upload : Uploads, number : Numbers]]
    /\ complete \in [Uploads -> {"none", "refused"} \cup Sealed \cup Shown \cup {"failed"}]
    /\ aborted \subseteq Uploads
    /\ object \in Bucket /\ durable \in Bucket
    /\ opened \in [Uploads -> Bucket]
    /\ reload \in Bucket \cup {NoReload}
    /\ promised \in [Uploads -> SUBSET Numbers]
    /\ faults \in 0..MaxFaults

\* A completed object holds a part for every number the client had been answered
\* 200 for when it asked for the completion, however the parts' calls to kubo
\* overlapped with each other and with the completion.
CompletedIsWhole ==
    \A u \in Uploads :
        complete[u] \in Sealed \cup Shown => promised[u] \subseteq Held(u)

\* An upload whose abort was answered 204 never becomes an object, also when a
\* complete of it came first and was waiting for kubo at the time.
AbortedNeverAppears == \A u \in aborted, p \in Paths : object[p] # u

\* Where an upload is, as its client sees it.
Stage(u) == IF complete[u] \in Sealed THEN "sealed"
            ELSE IF complete[u] \in Shown THEN "shown"
            ELSE IF u \in open THEN "open"
            ELSE IF path[u] = NoPath THEN "none" ELSE "ended"

\* The upload's object is the one at its path, registry.cid has it, and so have all who
\* are about to put a bucket or a registry back: no handler opened the bucket without it,
\* no reload has read the registry without it.
Settled(u) ==
    LET p == path[u] IN
    /\ complete[u] = "answered"
    /\ object[p] = u /\ durable[p] = u
    /\ \A v \in Uploads : complete[v] = "opened" => opened[v][p] = u
    /\ reload # NoReload => reload[p] = u

\* The gateway keeps its promise on uploads, whatever parts, aborts, reloads, restarts
\* and other completes overlap with a complete: what appears at a path is exactly what
\* the upload held when its complete took it out of the table; an object that goes again
\* (a persist_registry failed before a restart, a reload or another complete put back an
\* older bucket) leaves an earlier one, or none, never another; and one that is settled
\* goes only for a later upload to its path.
Promise == INSTANCE UploadPromise WITH
    stage <- [u \in Uploads |-> Stage(u)], target <- path, content <- parts,
    object <- [p \in Paths |-> IF object[p] = NoUpload THEN NoParts ELSE parts[object[p]]],
    settled <- {u \in Uploads : Settled(u)}

KeepsUploadPromise == Promise!Spec
=============================================================================
