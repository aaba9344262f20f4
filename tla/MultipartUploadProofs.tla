----------------------- MODULE MultipartUploadProofs -----------------------
(*************************************************************************)
(* Proofs about MultipartUpload for any uploads, paths, part requests    *)
(* and part numbers, and any number of failures: the types, what         *)
(* completed and aborted uploads become, and that the handlers implement *)
(* UploadPromise.                                                        *)
(*************************************************************************)
EXTENDS MultipartUpload, TLAPS

\* An upload nobody has created has not been used by anybody.
Fresh ==
    /\ \A u \in Uploads : path[u] = NoPath => complete[u] = "none" /\ u \notin aborted
    /\ \A r \in Parts : call[r].at # "new" => path[call[r].upload] # NoPath

\* While an upload is open, every number answered 200 has a part.
AnsweredHeld == \A u \in open : Answered(u) \subseteq Held(u)

\* All that a bucket holds at its paths are uploads to them that have been shown.
Shows(b, c, q) ==
    \A p \in Paths : b[p] # NoUpload => c[b[p]] \in Shown /\ q[b[p]] = p

\* Every copy of the bucket, loaded, in the file or in flight, shows completed uploads
\* only, and an aborted one is not completed.
CompletedOnly ==
    /\ Shows(object, complete, path) /\ Shows(durable, complete, path)
    /\ \A u \in Uploads : Shows(opened[u], complete, path)
    /\ reload # NoReload => Shows(reload, complete, path)
    /\ \A u \in aborted : complete[u] = "none"

UploadInv ==
    TypeOK /\ Fresh /\ AnsweredHeld /\ CompletedOnly /\ CompletedIsWhole

\* A fault leaves a number of faults.
LEMMA FaultType ==
  ASSUME faults \in 0..MaxFaults, Fault \/ NoFault PROVE faults' \in 0..MaxFaults
  BY FaultsAssumption DEF Fault, NoFault

\* A handler that moves on keeps its upload and its number.
LEMMA CallMoves ==
  ASSUME TypeOK, NEW r \in Parts, NEW a \in {"new", "storing", "answered", "failed"},
         call' = [call EXCEPT ![r] = [@ EXCEPT !.at = a]]
  PROVE  /\ call' \in [Parts -> [at : {"new", "storing", "answered", "failed"},
                                 upload : Uploads, number : Numbers]]
         /\ \A q \in Parts : /\ call'[q].upload = call[q].upload
                             /\ call'[q].number = call[q].number
                             /\ call'[q].at = IF q = r THEN a ELSE call[q].at
  <1>1. call[r] \in [at : {"new", "storing", "answered", "failed"},
                     upload : Uploads, number : Numbers]
    BY DEF TypeOK
  <1>. DEFINE moved == [call[r] EXCEPT !.at = a]
  <1>2. /\ moved \in [at : {"new", "storing", "answered", "failed"},
                      upload : Uploads, number : Numbers]
        /\ moved.at = a /\ moved.upload = call[r].upload /\ moved.number = call[r].number
    BY <1>1
  <1>. HIDE DEF moved
  <1>3. call' = [call EXCEPT ![r] = moved]
    BY DEF moved
  <1>4. call \in [Parts -> [at : {"new", "storing", "answered", "failed"},
                            upload : Uploads, number : Numbers]]
    BY DEF TypeOK
  <1>5. \A q \in Parts : call'[q] = IF q = r THEN moved ELSE call[q]
    BY <1>3, <1>4
  <1>6. call' \in [Parts -> [at : {"new", "storing", "answered", "failed"},
                             upload : Uploads, number : Numbers]]
    BY <1>2, <1>3, <1>4
  <1>. QED
    BY <1>2, <1>5, <1>6

Completes == {"none", "refused"} \cup Sealed \cup Shown \cup {"failed"}

\* A bucket with no objects.
LEMMA NoObjectsType == NoObjects \in Bucket
  BY DEF NoObjects, Bucket

\* The types and what is known of unused uploads hold of the initial state.
LEMMA TypeInit == Init => TypeOK /\ Fresh
  <1>1. MaxFaults \in 0..MaxFaults
    BY FaultsAssumption
  <1>. QED
    BY <1>1, NoObjectsType DEF Init, TypeOK, Fresh, NoParts

\* Every step keeps the types and what is known of unused uploads.
LEMMA TypeNext == ASSUME TypeOK, Fresh, [Next]_vars PROVE TypeOK' /\ Fresh'
  <1>a. ASSUME Fault \/ NoFault PROVE faults' \in 0..MaxFaults
    BY <1>a, FaultType DEF TypeOK
  <1>1. ASSUME NEW u \in Uploads, NEW p \in Paths, Create(u, p) PROVE TypeOK' /\ Fresh'
    <2>1. p # NoPath
      BY AbsentAssumption
    <2>2. \A v \in Uploads : path'[v] = IF v = u THEN p ELSE path[v]
      BY <1>1 DEF Create, TypeOK
    <2>3. complete[u] = "none" /\ u \notin aborted
      BY <1>1 DEF Create, Fresh
    <2>4. path' \in [Uploads -> Paths \cup {NoPath}]
      BY <1>1 DEF Create, TypeOK
    <2>5. open' \subseteq {v \in Uploads : path'[v] # NoPath /\ complete'[v] = "none"}
      BY <1>1, <2>1, <2>2, <2>3 DEF Create, TypeOK
    <2>6. open' \cap aborted' = {}
      BY <1>1, <2>3 DEF Create, TypeOK
    <2>7. TypeOK'
      BY <1>1, <2>4, <2>5, <2>6 DEF Create, registry, TypeOK
    <2>8. \A r \in Parts : call'[r].at # "new" => path'[call'[r].upload] # NoPath
      BY <1>1, <2>1, <2>2 DEF Create, registry, TypeOK, Fresh
    <2>. QED
      BY <1>1, <2>1, <2>2, <2>7, <2>8 DEF Create, registry, Fresh
  <1>2. ASSUME NEW u \in Uploads, NEW p \in Paths, Complete(u, p) PROVE TypeOK' /\ Fresh'
    <2>1. Answered(u) \in SUBSET Numbers
      BY DEF Answered, TypeOK
    <2>2. promised' \in [Uploads -> SUBSET Numbers]
      BY <1>2, <2>1 DEF Complete, TypeOK
    <2>3. PICK c \in {"linking", "refused"} : complete' = [complete EXCEPT ![u] = c]
      BY <1>2, Zenon DEF Complete
    <2>4. complete' \in [Uploads -> Completes]
      BY <2>3 DEF TypeOK, Completes, Sealed
    <2>5. \A v \in Uploads : v # u => complete'[v] = complete[v]
      BY <2>3 DEF TypeOK
    <2>6. path[u] # NoPath
      BY <1>2 DEF Complete, TypeOK
    <2>7. open' \subseteq {v \in Uploads : path'[v] # NoPath /\ complete'[v] = "none"}
      BY <1>2, <2>5 DEF Complete, TypeOK
    <2>8. TypeOK'
      BY <1>2, <2>2, <2>4, <2>7 DEF Complete, registry, TypeOK, Completes
    <2>. QED
      BY <1>2, <2>5, <2>6, <2>8 DEF Complete, Fresh
  <1>3. ASSUME NEW u \in Uploads, NEW p \in Paths, Abort(u, p) PROVE TypeOK' /\ Fresh'
    BY <1>3 DEF Abort, registry, TypeOK, Fresh
  <1>4. ASSUME NEW r \in Parts, NEW p \in Paths, BeginPart(r, p) PROVE TypeOK' /\ Fresh'
    <2>1. call' = [call EXCEPT ![r] = [@ EXCEPT !.at = "storing"]]
      BY <1>4 DEF BeginPart
    <2>2. call' \in [Parts -> [at : {"new", "storing", "answered", "failed"},
                               upload : Uploads, number : Numbers]]
      BY <2>1, CallMoves
    <2>3. \A q \in Parts : /\ call'[q].upload = call[q].upload
                           /\ call'[q].at = IF q = r THEN "storing" ELSE call[q].at
      BY <2>1, CallMoves
    <2>4. path[call[r].upload] # NoPath
      BY <1>4 DEF BeginPart, TypeOK
    <2>5. TypeOK'
      BY <1>4, <2>2 DEF BeginPart, registry, TypeOK
    <2>. QED
      BY <1>4, <2>3, <2>4, <2>5 DEF BeginPart, Fresh
  <1>5. ASSUME NEW r \in Parts, EndPart(r) PROVE TypeOK' /\ Fresh'
    <2>1. faults' \in 0..MaxFaults
      BY <1>5, <1>a DEF EndPart
    <2>2. parts' \in [Uploads -> [Numbers -> Parts \cup {NoPart}]]
      <3>1. call[r].upload \in Uploads /\ call[r].number \in Numbers
        BY DEF TypeOK
      <3>2. parts[call[r].upload] \in [Numbers -> Parts \cup {NoPart}]
        BY <3>1 DEF TypeOK
      <3>3. [parts[call[r].upload] EXCEPT ![call[r].number] = r]
               \in [Numbers -> Parts \cup {NoPart}]
        BY <3>2
      <3>4. [parts EXCEPT ![call[r].upload][call[r].number] = r]
               \in [Uploads -> [Numbers -> Parts \cup {NoPart}]]
        BY <3>1, <3>3 DEF TypeOK
      <3>. QED
        BY <1>5, <3>4 DEF EndPart, TypeOK
    <2>3. /\ call' \in [Parts -> [at : {"new", "storing", "answered", "failed"},
                                  upload : Uploads, number : Numbers]]
          /\ \A q \in Parts : /\ call'[q].upload = call[q].upload
                              /\ q # r => call'[q].at = call[q].at
      <3>1. CASE call' = [call EXCEPT ![r] = [@ EXCEPT !.at = "answered"]]
        BY <3>1, CallMoves
      <3>2. CASE call' = [call EXCEPT ![r] = [@ EXCEPT !.at = "failed"]]
        BY <3>2, CallMoves
      <3>. QED
        BY <1>5, <3>1, <3>2 DEF EndPart
    <2>4. UNCHANGED <<open, path, complete, aborted, object, durable, opened, reload, promised>>
      BY <1>5 DEF EndPart, registry
    <2>5. TypeOK'
      BY <2>1, <2>2, <2>3, <2>4 DEF TypeOK
    <2>6. call[r].at # "new"
      BY <1>5 DEF EndPart
    <2>. QED
      BY <2>3, <2>4, <2>5, <2>6 DEF Fresh
  <1>b. ASSUME NEW u \in Uploads, complete[u] # "none", NEW c \in Completes \ {"none"},
               complete' = [complete EXCEPT ![u] = c],
               opened' \in [Uploads -> Bucket], object' \in Bucket, durable' \in Bucket,
               faults' \in 0..MaxFaults,
               UNCHANGED <<open, path, parts, call, aborted, reload, promised>>
        PROVE  TypeOK' /\ Fresh'
    <2>1. \A v \in Uploads : complete'[v] = IF v = u THEN c ELSE complete[v]
      BY <1>b DEF TypeOK
    <2>2. complete' \in [Uploads -> Completes]
      BY <1>b DEF TypeOK, Completes
    <2>3. open' \subseteq {v \in Uploads : path'[v] # NoPath /\ complete'[v] = "none"}
      BY <1>b, <2>1 DEF TypeOK
    <2>4. TypeOK'
      BY <1>b, <2>2, <2>3 DEF TypeOK, Completes
    <2>. QED
      BY <1>b, <2>1, <2>4 DEF Fresh
  <1>6. ASSUME NEW u \in Uploads, OpenBucket(u) \/ Flush(u) \/ Persist(u)
                                 \/ CompleteFails(u)
        PROVE  TypeOK' /\ Fresh'
    <2>1. faults' \in 0..MaxFaults
      BY <1>6, <1>a DEF OpenBucket, Flush, Persist, CompleteFails
    <2>2. opened' \in [Uploads -> Bucket] /\ object' \in Bucket /\ durable' \in Bucket
      <3>1. CASE Flush(u)
        <4>1. path[u] \in Paths /\ opened[u] \in Bucket
          BY <3>1 DEF Flush, TypeOK, Fresh
        <4>2. object' \in Bucket
          BY <3>1, <4>1 DEF Flush, Bucket
        <4>. QED
          BY <3>1, <4>2, NoObjectsType DEF Flush, TypeOK
      <3>. QED
        BY <1>6, <3>1, NoObjectsType DEF OpenBucket, Persist, CompleteFails, TypeOK
    <2>3. PICK c \in {"opened", "flushed", "answered", "failed"} :
            complete' = [complete EXCEPT ![u] = c]
      BY <1>6 DEF OpenBucket, Flush, Persist, CompleteFails
    <2>4. c \in Completes \ {"none"}
      BY DEF Completes, Sealed, Shown
    <2>5. complete[u] # "none"
      BY <1>6 DEF OpenBucket, Flush, Persist, CompleteFails, Sealed
    <2>6. UNCHANGED <<open, path, parts, call, aborted, reload, promised>>
      BY <1>6 DEF OpenBucket, Flush, Persist, CompleteFails
    <2>. QED
      BY <1>b, <2>1, <2>2, <2>3, <2>4, <2>5, <2>6
  <1>9. CASE BeginReload \/ EndReload
    <2>1. faults' \in 0..MaxFaults
      BY <1>9, <1>a DEF BeginReload, EndReload, NoFault
    <2>. QED
      BY <1>9, <2>1 DEF BeginReload, EndReload, TypeOK, Fresh
  <1>7. CASE Restart
    <2>1. /\ UNCHANGED <<path, parts, aborted, durable, promised>> /\ open' = {}
          /\ object' = durable /\ reload' = NoReload
          /\ opened' = [u \in Uploads |-> NoObjects]
      BY <1>7 DEF Restart
    <2>2. faults' \in 0..MaxFaults
      BY <1>7, <1>a DEF Restart
    <2>3. \A u \in Uploads :
             \/ complete'[u] = complete[u]
             \/ complete[u] \in Sealed /\ complete'[u] = "failed"
             \/ complete[u] = "flushed" /\ complete'[u] = "unanswered"
      BY <1>7 DEF Restart, Sealed
    <2>4. complete' \in [Uploads -> Completes]
      <3>1. \A u \in Uploads : complete'[u] \in Completes
        BY <2>3 DEF TypeOK, Completes, Shown
      <3>2. complete' = [u \in Uploads |-> complete'[u]]
        BY <1>7 DEF Restart
      <3>. QED
        BY <3>1, <3>2
    <2>5. /\ call' \in [Parts -> [at : {"new", "storing", "answered", "failed"},
                                  upload : Uploads, number : Numbers]]
          /\ \A r \in Parts : /\ call'[r].upload = call[r].upload
                              /\ call'[r].at # "new" => call[r].at # "new"
      <3>1. ASSUME NEW r \in Parts
            PROVE  /\ call'[r] \in [at : {"new", "storing", "answered", "failed"},
                                    upload : Uploads, number : Numbers]
                   /\ call'[r].upload = call[r].upload
                   /\ call'[r].at # "new" => call[r].at # "new"
        <4>1. call[r] \in [at : {"new", "storing", "answered", "failed"},
                           upload : Uploads, number : Numbers]
          BY DEF TypeOK
        <4>2. call'[r] = IF call[r].at = "storing"
                         THEN [call[r] EXCEPT !.at = "failed"] ELSE call[r]
          BY <1>7 DEF Restart
        <4>. QED
          BY <4>1, <4>2
      <3>2. call' = [r \in Parts |-> call'[r]]
        BY <1>7 DEF Restart
      <3>. QED
        BY <3>1, <3>2
    <2>6. TypeOK'
      BY <2>1, <2>2, <2>4, <2>5, NoObjectsType DEF TypeOK, Completes
    <2>. QED
      BY <2>1, <2>3, <2>5, <2>6 DEF Fresh, Sealed
  <1>8. CASE UNCHANGED vars
    BY <1>8 DEF vars, TypeOK, Fresh
  <1>. QED
    BY <1>1, <1>2, <1>3, <1>4, <1>5, <1>6, <1>7, <1>8, <1>9 DEF Next

\* upload_part only ever adds to the numbers an upload holds a part for.
LEMMA GrowsHeld ==
  ASSUME TypeOK, NEW r \in Parts, EndPart(r)
  PROVE  \A v \in Uploads : Held(v) \subseteq Held(v)'
  <1>. DEFINE u == call[r].upload
              n == call[r].number
  <1>1. u \in Uploads /\ n \in Numbers /\ r # NoPart
    BY AbsentAssumption DEF TypeOK
  <1>2. parts' = parts \/ parts' = [parts EXCEPT ![u][n] = r]
    BY Zenon DEF EndPart
  <1>. HIDE DEF u, n
  <1>3. ASSUME NEW v \in Uploads, NEW m \in Numbers, parts[v][m] # NoPart
        PROVE  parts'[v][m] # NoPart
    <2>1. parts[v] \in [Numbers -> Parts \cup {NoPart}]
      BY DEF TypeOK
    <2>2. CASE parts' = [parts EXCEPT ![u][n] = r]
      <3>1. parts'[v] = IF v = u THEN [parts[v] EXCEPT ![n] = r] ELSE parts[v]
        BY <2>2 DEF TypeOK
      <3>. QED
        BY <1>1, <1>3, <2>1, <3>1
    <2>. QED
      BY <1>2, <1>3, <2>2
  <1>. QED
    BY <1>3 DEF Held

\* Every step keeps a part for each number answered while the upload is open: a
\* part is only ever put into an open upload, and never taken out.
LEMMA AnsweredHeldNext ==
  ASSUME TypeOK, Fresh, AnsweredHeld, [Next]_vars PROVE AnsweredHeld'
  <1>1. ASSUME NEW u \in Uploads, NEW p \in Paths, Create(u, p) PROVE AnsweredHeld'
    <2>1. path[u] = NoPath /\ open' = open \cup {u} /\ UNCHANGED <<parts, call>>
      BY <1>1 DEF Create
    <2>2. Answered(u) = {}
      BY <2>1 DEF Answered, Fresh
    <2>3. \A v \in Uploads : Answered(v)' = Answered(v) /\ Held(v)' = Held(v)
      BY <2>1 DEF Answered, Held
    <2>. QED
      BY <2>1, <2>2, <2>3 DEF AnsweredHeld, TypeOK
  <1>2. ASSUME NEW u \in Uploads, NEW p \in Paths, Complete(u, p) \/ Abort(u, p)
        PROVE AnsweredHeld'
    <2>1. open' \subseteq open /\ UNCHANGED <<parts, call>>
      BY <1>2 DEF Complete, Abort
    <2>. QED
      BY <2>1 DEF AnsweredHeld, Answered, Held
  <1>3. ASSUME NEW r \in Parts, NEW p \in Paths, BeginPart(r, p) PROVE AnsweredHeld'
    <2>1. call' = [call EXCEPT ![r] = [@ EXCEPT !.at = "storing"]] /\ UNCHANGED <<open, parts>>
      BY <1>3 DEF BeginPart
    <2>2. \A q \in Parts : /\ call'[q].upload = call[q].upload
                           /\ call'[q].number = call[q].number
                           /\ call'[q].at = IF q = r THEN "storing" ELSE call[q].at
      BY <2>1, CallMoves
    <2>3. \A v \in Uploads : Answered(v)' \subseteq Answered(v)
      BY <2>2 DEF Answered
    <2>4. \A v \in Uploads : Held(v)' = Held(v)
      BY <2>1 DEF Held
    <2>. QED
      BY <2>1, <2>3, <2>4 DEF AnsweredHeld, TypeOK
  <1>4. ASSUME NEW r \in Parts, EndPart(r) PROVE AnsweredHeld'
    <2>a. call[r].upload \in Uploads /\ call[r].number \in Numbers
      BY DEF TypeOK
    <2>b. PICK u \in Uploads, n \in Numbers : u = call[r].upload /\ n = call[r].number
      BY <2>a, Zenon
    <2>1. open' = open
      BY <1>4 DEF EndPart
    <2>2. \A v \in Uploads : Held(v) \subseteq Held(v)'
      BY <1>4, GrowsHeld
    <2>3. CASE call' = [call EXCEPT ![r] = [@ EXCEPT !.at = "failed"]]
      <3>1. \A q \in Parts : /\ call'[q].upload = call[q].upload
                             /\ call'[q].number = call[q].number
                             /\ call'[q].at = IF q = r THEN "failed" ELSE call[q].at
        BY <2>3, CallMoves
      <3>2. \A v \in Uploads : Answered(v)' \subseteq Answered(v)
        BY <3>1 DEF Answered
      <3>. QED
        BY <2>1, <2>2, <3>2 DEF AnsweredHeld, TypeOK
    <2>4. CASE /\ call' = [call EXCEPT ![r] = [@ EXCEPT !.at = "answered"]]
               /\ parts' = IF u \in open THEN [parts EXCEPT ![u][n] = r] ELSE parts
      <3>1. \A q \in Parts : /\ call'[q].upload = call[q].upload
                             /\ call'[q].number = call[q].number
                             /\ call'[q].at = IF q = r THEN "answered" ELSE call[q].at
        BY <2>4, CallMoves
      <3>2. \A v \in Uploads : v # u => Answered(v)' \subseteq Answered(v)
        BY <2>b, <3>1 DEF Answered
      <3>3. Answered(u)' \subseteq Answered(u) \cup {n}
        BY <2>b, <3>1 DEF Answered
      <3>4. ASSUME u \in open PROVE n \in Held(u)'
        <4>1. r # NoPart
          BY AbsentAssumption
        <4>2. parts[u] \in [Numbers -> Parts \cup {NoPart}]
          BY <2>1 DEF TypeOK
        <4>3. parts'[u] = [parts[u] EXCEPT ![n] = r]
          BY <2>1, <2>4, <3>4 DEF TypeOK
        <4>4. parts'[u][n] = r
          BY <2>1, <4>2, <4>3
        <4>. QED
          BY <4>1, <4>4 DEF Held
      <3>5. \A v \in open : v \in Uploads
        BY DEF TypeOK
      <3>. QED
        BY <2>1, <2>2, <3>2, <3>3, <3>4, <3>5 DEF AnsweredHeld
    <2>. QED
      BY <1>4, <2>b, <2>3, <2>4 DEF EndPart
  <1>5. CASE \/ \E u \in Uploads : OpenBucket(u) \/ Flush(u) \/ Persist(u) \/ CompleteFails(u)
             \/ BeginReload \/ EndReload \/ UNCHANGED vars
    <2>1. UNCHANGED <<open, parts, call>>
      BY <1>5 DEF OpenBucket, Flush, Persist, CompleteFails, BeginReload, EndReload, vars
    <2>. QED
      BY <2>1 DEF AnsweredHeld, Answered, Held
  <1>6. CASE Restart
    BY <1>6 DEF Restart, AnsweredHeld
  <1>. QED
    BY <1>1, <1>2, <1>3, <1>4, <1>5, <1>6 DEF Next

\* What a complete does next, seen from all uploads: one that was shown stays shown, at
\* its path.
LEMMA ShownStays ==
  ASSUME TypeOK, Fresh, [Next]_vars, NEW u \in Uploads, complete[u] \in Shown
  PROVE  complete'[u] \in Shown /\ path'[u] = path[u]
  <1>. USE DEF Shown
  <1>1. ASSUME NEW v \in Uploads, NEW p \in Paths, Create(v, p) \/ Complete(v, p) \/ Abort(v, p)
        PROVE  complete'[u] \in Shown /\ path'[u] = path[u]
    BY <1>1 DEF Create, Complete, Abort, TypeOK, Fresh
  <1>2. ASSUME NEW v \in Uploads, \/ OpenBucket(v) \/ Flush(v) \/ Persist(v)
                                 \/ CompleteFails(v)
        PROVE  complete'[u] \in Shown /\ path'[u] = path[u]
    BY <1>2 DEF OpenBucket, Flush, Persist, CompleteFails, Sealed, TypeOK
  <1>3. CASE \/ \E r \in Parts, p \in Paths : BeginPart(r, p)
             \/ \E r \in Parts : EndPart(r)
             \/ BeginReload \/ EndReload \/ UNCHANGED vars
    BY <1>3 DEF BeginPart, EndPart, BeginReload, EndReload, vars
  <1>4. CASE Restart
    BY <1>4 DEF Restart, Sealed
  <1>. QED
    BY <1>1, <1>2, <1>3, <1>4 DEF Next

\* A bucket that shows completed uploads still does after any step.
LEMMA ShowsStays ==
  ASSUME TypeOK, Fresh, [Next]_vars, NEW b \in Bucket, Shows(b, complete, path)
  PROVE  Shows(b, complete', path')
  <1>. SUFFICES ASSUME NEW p \in Paths, b[p] # NoUpload
                PROVE  complete'[b[p]] \in Shown /\ path'[b[p]] = p
    BY DEF Shows
  <1>1. b[p] \in Uploads /\ complete[b[p]] \in Shown /\ path[b[p]] = p
    BY DEF Shows, Bucket
  <1>. QED
    BY <1>1, ShownStays

\* The bucket that a flush puts back shows completed uploads, its own now among them.
LEMMA FlushShows ==
  ASSUME TypeOK, Fresh, CompletedOnly, NEW u \in Uploads, Flush(u), [Next]_vars
  PROVE  Shows(object', complete', path')
  <1>1. opened[u] \in Bucket /\ complete'[u] = "flushed" /\ path' = path
    BY DEF Flush, TypeOK
  <1>2. Shows(opened[u], complete', path')
    BY <1>1, ShowsStays DEF CompletedOnly
  <1>3. \A p \in Paths : object'[p] = IF p = path[u] THEN u ELSE opened[u][p]
    BY <1>1 DEF Flush, Bucket
  <1>. QED
    BY <1>1, <1>2, <1>3 DEF Shows, Shown

\* Every step keeps the buckets those of completed uploads: complete and abort each need
\* the upload in the table, and take it out.
LEMMA CompletedOnlyNext ==
  ASSUME TypeOK, Fresh, CompletedOnly, [Next]_vars PROVE CompletedOnly'
  <1>0. Shows(NoObjects, complete', path')
    BY DEF Shows, NoObjects
  <1>1. /\ Shows(object, complete', path') /\ Shows(durable, complete', path')
        /\ \A u \in Uploads : Shows(opened[u], complete', path')
        /\ reload # NoReload => Shows(reload, complete', path')
    BY ShowsStays DEF CompletedOnly, TypeOK
  <1>2. Shows(object', complete', path')
    <2>1. CASE EndReload \/ Restart
      BY <1>1, <2>1 DEF EndReload, Restart
    <2>2. \/ object' = object \/ EndReload \/ Restart \/ \E u \in Uploads : Flush(u)
      BY DEF Next, Create, Complete, Abort, BeginPart, EndPart, OpenBucket, Persist,
             CompleteFails, BeginReload, registry, vars
    <2>. QED
      BY <1>1, <2>1, <2>2, FlushShows
  <1>3. Shows(durable', complete', path')
    <2>1. durable' \in {object, durable}
      BY DEF Next, Create, Complete, Abort, BeginPart, EndPart, OpenBucket, Persist, Flush,
             CompleteFails, BeginReload, EndReload, Restart, registry, vars
    <2>. QED
      BY <1>1, <2>1
  <1>4. reload' # NoReload => Shows(reload', complete', path')
    <2>1. reload' \in {reload, durable, NoReload}
      BY DEF Next, Create, Complete, Abort, BeginPart, EndPart, OpenBucket, Persist, Flush,
             CompleteFails, BeginReload, EndReload, Restart, registry, vars
    <2>. QED
      BY <1>1, <2>1
  <1>5. \A u \in Uploads : Shows(opened'[u], complete', path')
    <2>1. ASSUME NEW v \in Uploads, OpenBucket(v) \/ Flush(v) \/ CompleteFails(v)
          PROVE  \A u \in Uploads : opened'[u] \in {opened[u], object, NoObjects}
      BY <2>1 DEF OpenBucket, Flush, CompleteFails, TypeOK
    <2>2. CASE Restart
      BY <1>0, <2>2 DEF Restart
    <2>3. \/ \E v \in Uploads : OpenBucket(v) \/ Flush(v) \/ CompleteFails(v)
          \/ Restart \/ opened' = opened
      BY DEF Next, Create, Complete, Abort, BeginPart, EndPart, Persist,
             BeginReload, EndReload, registry, vars
    <2>. QED
      BY <1>0, <1>1, <2>1, <2>2, <2>3
  <1>6. \A u \in aborted' : complete'[u] = "none"
    <2>1. ASSUME NEW u \in Uploads, NEW p \in Paths, Create(u, p) \/ Complete(u, p) \/ Abort(u, p)
          PROVE  \A v \in aborted' : complete'[v] = "none"
      BY <2>1 DEF Create, Complete, Abort, CompletedOnly, TypeOK
    <2>2. ASSUME NEW u \in Uploads, \/ OpenBucket(u) \/ Flush(u) \/ Persist(u)
                                   \/ CompleteFails(u)
          PROVE  \A v \in aborted' : complete'[v] = "none"
      BY <2>2 DEF OpenBucket, Flush, Persist, CompleteFails, Sealed, CompletedOnly, TypeOK
    <2>3. CASE \/ \E r \in Parts, p \in Paths : BeginPart(r, p)
               \/ \E r \in Parts : EndPart(r)
               \/ BeginReload \/ EndReload \/ UNCHANGED vars
      BY <2>3 DEF BeginPart, EndPart, BeginReload, EndReload, vars, CompletedOnly
    <2>4. CASE Restart
      BY <2>4 DEF Restart, Sealed, CompletedOnly, TypeOK
    <2>. QED
      BY <2>1, <2>2, <2>3, <2>4 DEF Next
  <1>. QED
    BY <1>2, <1>3, <1>4, <1>5, <1>6 DEF CompletedOnly

\* Every step keeps completed uploads whole: at its complete an upload is open and
\* holds what was answered, and afterwards it loses nothing.
LEMMA CompletedIsWholeNext ==
  ASSUME TypeOK, AnsweredHeld, CompletedIsWhole, [Next]_vars PROVE CompletedIsWhole'
  <1>1. ASSUME NEW u \in Uploads, NEW p \in Paths, Create(u, p) \/ Abort(u, p)
        PROVE CompletedIsWhole'
    BY <1>1 DEF Create, Abort, CompletedIsWhole, Held
  <1>2. ASSUME NEW u \in Uploads, NEW p \in Paths, Complete(u, p) PROVE CompletedIsWhole'
    <2>1. Answered(u) \subseteq Held(u)
      BY <1>2 DEF Complete, AnsweredHeld
    <2>2. \A v \in Uploads : Held(v)' = Held(v)
      BY <1>2 DEF Complete, Held
    <2>3. promised'[u] = Answered(u)
      BY <1>2 DEF Complete, TypeOK
    <2>4. \A v \in Uploads : v # u => complete'[v] = complete[v] /\ promised'[v] = promised[v]
      BY <1>2 DEF Complete, TypeOK
    <2>. QED
      BY <2>1, <2>2, <2>3, <2>4 DEF CompletedIsWhole
  <1>3. ASSUME NEW r \in Parts, NEW p \in Paths, BeginPart(r, p) PROVE CompletedIsWhole'
    BY <1>3 DEF BeginPart, CompletedIsWhole, Held
  <1>4. ASSUME NEW r \in Parts, EndPart(r) PROVE CompletedIsWhole'
    <2>1. \A v \in Uploads : Held(v) \subseteq Held(v)'
      BY <1>4, GrowsHeld
    <2>2. UNCHANGED <<complete, promised>>
      BY <1>4 DEF EndPart
    <2>. QED
      BY <2>1, <2>2 DEF CompletedIsWhole
  <1>5. ASSUME NEW u \in Uploads, \/ OpenBucket(u) \/ Flush(u) \/ Persist(u)
                                 \/ CompleteFails(u)
        PROVE CompletedIsWhole'
    <2>1. complete[u] \in Sealed \cup Shown /\ UNCHANGED <<parts, promised>>
      BY <1>5 DEF OpenBucket, Flush, Persist, CompleteFails, Sealed, Shown
    <2>2. \A v \in Uploads : v # u => complete'[v] = complete[v]
      BY <1>5 DEF OpenBucket, Flush, Persist, CompleteFails, TypeOK
    <2>3. \A v \in Uploads : Held(v)' = Held(v)
      BY <2>1 DEF Held
    <2>. QED
      BY <2>1, <2>2, <2>3 DEF CompletedIsWhole
  <1>8. CASE BeginReload \/ EndReload
    BY <1>8 DEF BeginReload, EndReload, CompletedIsWhole, Held
  <1>6. CASE Restart
    <2>1. \A u \in Uploads :
             complete'[u] \in Sealed \cup Shown => complete[u] \in Sealed \cup Shown
      BY <1>6 DEF Restart, Sealed, Shown
    <2>2. \A v \in Uploads : Held(v)' = Held(v)
      BY <1>6 DEF Restart, Held
    <2>. QED
      BY <1>6, <2>1, <2>2 DEF Restart, CompletedIsWhole
  <1>7. CASE UNCHANGED vars
    BY <1>7 DEF vars, CompletedIsWhole, Held
  <1>. QED
    BY <1>1, <1>2, <1>3, <1>4, <1>5, <1>6, <1>7, <1>8 DEF Next

\* The invariant holds of the initial state.
LEMMA InvInit == Init => UploadInv
  <1>1. Init => AnsweredHeld /\ CompletedOnly /\ CompletedIsWhole
    BY AbsentAssumption
    DEF Init, AnsweredHeld, CompletedOnly, CompletedIsWhole, Shows, NoObjects, Sealed, Shown
  <1>. QED
    BY <1>1, TypeInit DEF UploadInv

\* Every step keeps the invariant.
LEMMA InvNext == UploadInv /\ [Next]_vars => UploadInv'
  BY TypeNext, AnsweredHeldNext, CompletedOnlyNext, CompletedIsWholeNext DEF UploadInv

\* A completed object holds a part for every number answered when its completion
\* was asked for, for any number of uploads, parts and failures.
THEOREM CompletedObjectsAreWhole == Spec => []CompletedIsWhole
  <1>1. UploadInv => CompletedIsWhole
    BY DEF UploadInv
  <1>. QED
    BY InvInit, InvNext, <1>1, PTL DEF Spec

\* An aborted upload is never assembled into an object, whatever completes it.
THEOREM AbortedUploadsVanish == Spec => []AbortedNeverAppears
  <1>1. UploadInv => AbortedNeverAppears
    <2>. SUFFICES ASSUME UploadInv, NEW u \in aborted, NEW p \in Paths, object[p] = u
                  PROVE  FALSE
      BY DEF AbortedNeverAppears
    <2>1. u \in Uploads /\ complete[u] = "none" /\ Shows(object, complete, path)
      BY DEF UploadInv, TypeOK, CompletedOnly
    <2>. QED
      BY <2>1, AbsentAssumption DEF Shows, Shown
  <1>. QED
    BY InvInit, InvNext, <1>1, PTL DEF Spec

\* The state of the uploads is always well typed.
THEOREM TypeCorrect == Spec => []TypeOK
  <1>1. TypeOK /\ Fresh /\ [Next]_vars => TypeOK' /\ Fresh'
    BY TypeNext
  <1>. QED
    BY TypeInit, <1>1, PTL DEF Spec
----------------------------------------------------------------------------
(* The promise on uploads                                                  *)

\* The promise's variables that the handlers do not keep as such.
Stages   == [u \in Uploads |-> Stage(u)]
Objects  == [p \in Paths |-> IF object[p] = NoUpload THEN NoParts ELSE parts[object[p]]]
Settleds == {u \in Uploads : Settled(u)}

\* Where an upload is, by what its complete does.
LEMMA StageOf ==
  ASSUME TypeOK, NEW u \in Uploads
  PROVE  /\ u \in open => Stage(u) = "open"
         /\ complete[u] \in Sealed => Stage(u) = "sealed"
         /\ complete[u] \in Shown => Stage(u) = "shown"
  BY DEF Stage, TypeOK, Sealed, Shown

\* An object is made of an upload that is no longer in the table.
LEMMA ObjectIsClosed ==
  ASSUME UploadInv, NEW p \in Paths, object[p] # NoUpload
  PROVE  object[p] \in Uploads /\ object[p] \notin open
  <1>1. /\ Shows(object, complete, path) /\ object \in [Paths -> Uploads \cup {NoUpload}]
        /\ \A u \in open : complete[u] = "none"
    BY DEF UploadInv, TypeOK, CompletedOnly, Bucket
  <1>. QED
    BY <1>1 DEF Shows, Shown

\* What a bucket of completed uploads shows at a path has been shown there.
LEMMA ShownEarlier ==
  ASSUME UploadInv, NEW b \in Bucket, Shows(b, complete, path), NEW p \in Paths
  PROVE  (IF b[p] = NoUpload THEN NoParts ELSE parts[b[p]]) \in Promise!Earlier(p)
  <1>1. CASE b[p] = NoUpload
    BY <1>1 DEF Promise!Earlier, Promise!Nothing, NoParts
  <1>2. CASE b[p] # NoUpload
    <2>1. b[p] \in Uploads /\ complete[b[p]] \in Shown /\ path[b[p]] = p
      BY <1>2 DEF Shows, Bucket
    <2>2. Stage(b[p]) = "shown"
      BY <2>1, StageOf DEF UploadInv
    <2>. QED
      BY <1>2, <2>1, <2>2 DEF Promise!Earlier
  <1>. QED
    BY <1>1, <1>2

\* Objects that stay or come from a bucket of completed uploads are kept, if the settled
\* uploads stay settled.
LEMMA KeepsObjects ==
  ASSUME UploadInv, UploadInv', UNCHANGED <<path, parts>>, NEW S \in SUBSET Paths,
         NEW b \in Bucket, Shows(b, complete, path),
         \A p \in S : object'[p] = b[p],
         \A u \in Uploads : Settled(u) /\ path[u] \in S => Settled(u)'
  PROVE  Promise!Keeps(S)
  <1>1. \A p \in S : Objects'[p] \in Promise!Earlier(p)
    BY ShownEarlier DEF Objects
  <1>2. \A u \in Settleds : path[u] \in S => u \in Settleds'
    BY DEF Settleds
  <1>3. ASSUME NEW u \in Settleds'
        PROVE  Stages'[u] = "shown" /\ Objects'[path[u]] = parts[u]
    <2>1. u \in Uploads /\ complete'[u] = "answered" /\ object'[path[u]] = u
      BY <1>3 DEF Settleds, Settled
    <2>2. path'[u] # NoPath /\ path'[u] \in Paths
      BY <2>1 DEF UploadInv, Fresh, TypeOK
    <2>3. Stage(u)' = "shown"
      BY <2>1 DEF Stage, Sealed, Shown
    <2>. QED
      BY <2>1, <2>2, <2>3, AbsentAssumption DEF Objects, Stages
  <1>. QED
    BY <1>1, <1>2, <1>3 DEF Promise!Keeps, Objects, Settleds, Stages

\* An object stays settled through every step but the flush of another upload to its path.
LEMMA SettledStays ==
  ASSUME UploadInv, [Next]_vars, NEW u \in Uploads, Settled(u),
         ~ \E v \in Uploads : Flush(v) /\ path[v] = path[u]
  PROVE  Settled(u)'
  <1>. USE DEF UploadInv
  <1>a. /\ complete[u] = "answered" /\ object[path[u]] = u /\ durable[path[u]] = u
        /\ \A v \in Uploads : complete[v] = "opened" => opened[v][path[u]] = u
        /\ reload # NoReload => reload[path[u]] = u
    BY DEF Settled
  <1>b. path[u] \in Paths
    BY <1>a DEF TypeOK, Fresh
  <1>1. ASSUME NEW v \in Uploads, NEW p \in Paths, Create(v, p) \/ Complete(v, p) \/ Abort(v, p)
        PROVE  Settled(u)'
    <2>1. /\ complete'[u] = "answered" /\ path'[u] = path[u]
          /\ \A w \in Uploads : complete'[w] = "opened" => complete[w] = "opened"
          /\ UNCHANGED registry
      BY <1>a, <1>1 DEF Create, Complete, Abort, TypeOK, Fresh
    <2>. QED
      BY <1>a, <2>1 DEF Settled, registry
  <1>2. ASSUME NEW v \in Uploads, OpenBucket(v) PROVE Settled(u)'
    <2>1. /\ complete'[u] = "answered" /\ UNCHANGED <<path, object, durable, reload>>
          /\ \A w \in Uploads : w # v => complete'[w] = complete[w] /\ opened'[w] = opened[w]
          /\ opened'[v] = object
      BY <1>a, <1>2 DEF OpenBucket, TypeOK
    <2>. QED
      BY <1>a, <2>1 DEF Settled
  <1>3. ASSUME NEW v \in Uploads, Flush(v) PROVE Settled(u)'
    <2>1. /\ complete[v] = "opened" /\ complete'[u] = "answered" /\ UNCHANGED <<path, durable, reload>>
          /\ \A w \in Uploads : w # v => complete'[w] = complete[w] /\ opened'[w] = opened[w]
          /\ complete'[v] = "flushed"
      BY <1>a, <1>3 DEF Flush, TypeOK
    <2>2. opened[v] \in [Paths -> Uploads \cup {NoUpload}]
      BY DEF TypeOK, Bucket
    <2>3. object'[path[u]] = opened[v][path[u]]
      BY <1>b, <1>3, <2>2 DEF Flush
    <2>. QED
      BY <1>a, <2>1, <2>3 DEF Settled
  <1>4. ASSUME NEW v \in Uploads, Persist(v) PROVE Settled(u)'
    <2>1. /\ complete'[u] = "answered" /\ UNCHANGED <<path, object, opened, reload>>
          /\ durable' \in {object, durable}
          /\ \A w \in Uploads : complete'[w] = "opened" => complete[w] = "opened"
      BY <1>a, <1>4 DEF Persist, TypeOK
    <2>. QED
      BY <1>a, <2>1 DEF Settled
  <1>5. ASSUME NEW v \in Uploads, CompleteFails(v)
        PROVE  Settled(u)'
    <2>1. /\ complete'[u] = "answered" /\ UNCHANGED <<path, object, durable, reload>>
          /\ \A w \in Uploads : w # v => complete'[w] = complete[w] /\ opened'[w] = opened[w]
          /\ complete'[v] = "failed"
      BY <1>a, <1>5 DEF CompleteFails, Sealed, TypeOK
    <2>. QED
      BY <1>a, <2>1 DEF Settled
  <1>6. CASE BeginReload \/ EndReload
    BY <1>a, <1>6 DEF BeginReload, EndReload, Settled
  <1>7. CASE Restart
    <2>1. /\ complete'[u] = "answered" /\ path' = path
          /\ object' = durable /\ durable' = durable /\ reload' = NoReload
          /\ \A w \in Uploads : complete'[w] # "opened"
      BY <1>a, <1>7 DEF Restart, Sealed, TypeOK
    <2>. QED
      BY <1>a, <2>1 DEF Settled
  <1>8. CASE \/ \E r \in Parts, p \in Paths : BeginPart(r, p)
             \/ \E r \in Parts : EndPart(r)
             \/ UNCHANGED vars
    <2>1. UNCHANGED <<path, complete, object, durable, opened, reload>>
      BY <1>8 DEF BeginPart, EndPart, registry, vars
    <2>. QED
      BY <2>1 DEF Settled
  <1>. QED
    BY <1>1, <1>2, <1>3, <1>4, <1>5, <1>6, <1>7, <1>8 DEF Next

\* A step that flushes nothing, changes no stage and leaves every object as it was or in
\* an earlier bucket is a fall of the promise.
LEMMA Falls ==
  ASSUME UploadInv, UploadInv', [Next]_vars, UNCHANGED <<path, parts>>,
         ~ \E v \in Uploads : Flush(v), Stages' = Stages,
         NEW b \in Bucket, Shows(b, complete, path), object' = b
  PROVE  Promise!Fall
  <1>1. Promise!Keeps(Paths)
    BY SettledStays, KeepsObjects
  <1>. QED
    BY <1>1 DEF Promise!Fall, Stages

\* An upload that leaves the table or its complete, and becomes no object, is
\* discarded.
LEMMA Discarded ==
  ASSUME UploadInv, UploadInv', [Next]_vars, ~ \E v \in Uploads : Flush(v),
         NEW gone \in SUBSET Uploads,
         \A u \in gone : u \in open \/ complete[u] \in Sealed,
         \A u \in gone : Stage(u)' = "ended",
         \A u \in Uploads \ gone : Stage(u)' = Stage(u),
         UNCHANGED <<path, parts>>,
         NEW b \in Bucket, Shows(b, complete, path), object' = b
  PROVE  Promise!Discard(gone)
  <1>1. \A u \in gone : Stage(u) \in {"open", "sealed"}
    BY StageOf DEF UploadInv
  <1>2. Stages' = [u \in Uploads |-> IF u \in gone THEN "ended" ELSE Stage(u)]
    BY DEF Stages
  <1>3. Promise!Keeps(Paths)
    BY SettledStays, KeepsObjects
  <1>. QED
    BY <1>1, <1>2, <1>3 DEF Promise!Discard, Stages

\* A part that comes in time is put into its upload and into no object; one that comes
\* late is put nowhere.
LEMMA PutOrNothing ==
  ASSUME UploadInv, NEW r \in Parts, EndPart(r)
  PROVE  [Promise!Next]_(Promise!uploadVars)
  <1>1. PICK u \in Uploads, n \in Numbers : u = call[r].upload /\ n = call[r].number
    <2>1. call[r].upload \in Uploads /\ call[r].number \in Numbers
      BY DEF UploadInv, TypeOK
    <2>. QED
      BY <2>1, Zenon
  <1>2. UNCHANGED <<open, path, complete, object, durable, opened, reload>>
    BY DEF EndPart, registry
  <1>3. Stages' = Stages /\ Settleds' = Settleds
    BY <1>2 DEF Stages, Stage, Settleds, Settled
  <1>4. CASE parts' = parts
    <2>1. Objects' = Objects
      BY <1>2, <1>4 DEF Objects
    <2>. QED
      BY <1>2, <1>3, <1>4, <2>1 DEF Promise!uploadVars, Stages, Objects, Settleds
  <1>5. CASE u \in open /\ parts' = [parts EXCEPT ![u][n] = r]
    <2>1. \A v \in Uploads : v # u => parts'[v] = parts[v]
      BY <1>5 DEF UploadInv, TypeOK
    <2>2. \A p \in Paths : object[p] # NoUpload => parts'[object[p]] = parts[object[p]]
      BY <1>5, <2>1, ObjectIsClosed
    <2>3. Objects' = Objects
      BY <1>2, <2>2 DEF Objects
    <2>4. Stage(u) = "open"
      BY <1>5, StageOf DEF UploadInv
    <2>5. Promise!Put(u, n, r)
      BY <1>2, <1>3, <1>5, <2>3, <2>4 DEF Promise!Put, Stages, Objects, Settleds
    <2>. QED
      BY <2>5 DEF Promise!Next
  <1>. QED
    BY <1>1, <1>4, <1>5 DEF EndPart

\* A flush shows its upload and may bring back what was shown before elsewhere.
LEMMA FlushAppears ==
  ASSUME UploadInv, UploadInv', [Next]_vars, NEW u \in Uploads, Flush(u)
  PROVE  Promise!Appear(u)
  <1>1. /\ complete[u] = "opened" /\ u \notin open /\ path[u] \in Paths
        /\ UNCHANGED <<open, path, parts>> /\ opened[u] \in Bucket
    BY DEF UploadInv, Flush, TypeOK, Fresh
  <1>2. \A v \in Uploads : complete'[v] = IF v = u THEN "flushed" ELSE complete[v]
    BY DEF UploadInv, Flush, TypeOK
  <1>3. Stages' = [Stages EXCEPT ![u] = "shown"]
    BY <1>1, <1>2 DEF Stages, Stage, Sealed, Shown
  <1>4. \A p \in Paths : object'[p] = IF p = path[u] THEN u ELSE opened[u][p]
    BY <1>1 DEF Flush, Bucket
  <1>5. Objects'[path[u]] = parts[u]
    BY <1>1, <1>4, AbsentAssumption DEF Objects
  <1>6. Stage(u) = "sealed"
    BY <1>1, StageOf DEF UploadInv, Sealed
  <1>7. PICK S \in SUBSET Paths : S = Paths \ {path[u]}
    OBVIOUS
  <1>8. Promise!Keeps(S)
    <2>1. \A v \in Uploads : Settled(v) /\ path[v] \in S => Settled(v)'
      <3>1. \A w \in Uploads : Flush(w) => w = u
        BY <1>2 DEF UploadInv, Flush, TypeOK
      <3>. QED
        BY <1>7, <3>1, SettledStays
    <2>2. Shows(opened[u], complete, path)
      BY DEF UploadInv, CompletedOnly
    <2>3. \A p \in S : object'[p] = opened[u][p]
      BY <1>4, <1>7
    <2>. QED
      BY <1>1, <2>1, <2>2, <2>3, KeepsObjects
  <1>. QED
    BY <1>1, <1>3, <1>5, <1>6, <1>7, <1>8
    DEF Promise!Appear, Promise!Keeps, Stages, Objects

\* Every step of the handlers is a step of the promise, or none.
LEMMA StepKeepsPromise ==
  ASSUME UploadInv, UploadInv', [Next]_vars PROVE [Promise!Next]_(Promise!uploadVars)
  <1>. USE DEF UploadInv
  <1>0. /\ object \in Bucket /\ durable \in Bucket
        /\ Shows(object, complete, path) /\ Shows(durable, complete, path)
    BY DEF TypeOK, CompletedOnly
  <1>1. ASSUME NEW u \in Uploads, NEW p \in Paths, Create(u, p)
        PROVE  Promise!Next
    <2>1. Stage(u) = "none" /\ complete[u] = "none"
      BY <1>1 DEF Create, Stage, TypeOK, Fresh, Sealed, Shown
    <2>2. Stage(u)' = "open"
      BY <1>1, <2>1 DEF Create, Stage, Sealed, Shown
    <2>3. \A v \in Uploads : v # u => Stage(v)' = Stage(v)
      BY <1>1 DEF Create, Stage, TypeOK
    <2>4. Stages' = [Stages EXCEPT ![u] = "open"]
      BY <2>2, <2>3 DEF Stages
    <2>5. Objects' = Objects
      BY <1>1 DEF Create, Objects, registry
    <2>6. Settleds' = Settleds
      <3>1. /\ UNCHANGED <<complete, object, durable, opened, reload>>
            /\ \A v \in Uploads : v # u => path'[v] = path[v]
        BY <1>1 DEF Create, registry, TypeOK
      <3>2. ~Settled(u) /\ ~Settled(u)'
        BY <2>1, <3>1 DEF Settled
      <3>3. \A v \in Uploads : v # u => (Settled(v)' <=> Settled(v))
        BY <3>1 DEF Settled
      <3>. QED
        BY <3>2, <3>3 DEF Settleds
    <2>7. Promise!Open(u, p)
      BY <1>1, <2>1, <2>4, <2>5, <2>6 DEF Create, Promise!Open, Stages, Objects, Settleds
    <2>. QED
      BY <2>7 DEF Promise!Next
  <1>2. ASSUME NEW u \in Uploads, NEW p \in Paths, Complete(u, p)
        PROVE  Promise!Next
    <2>1. /\ u \in open /\ path[u] # NoPath /\ complete[u] = "none"
          /\ UNCHANGED <<path, parts, object, durable, opened, reload>>
      BY <1>2 DEF Complete, TypeOK, registry
    <2>2. \A v \in Uploads : v # u => complete'[v] = complete[v] /\ Stage(v)' = Stage(v)
      BY <1>2 DEF Complete, Stage, TypeOK
    <2>3. CASE path[u] = p /\ Held(u) # {}
      <3>0. complete'[u] = "linking"
        BY <1>2, <2>3 DEF Complete, TypeOK
      <3>1. Stage(u)' = "sealed"
        BY <3>0 DEF Stage, Sealed
      <3>2. Stages' = [Stages EXCEPT ![u] = "sealed"]
        BY <2>2, <3>1 DEF Stages
      <3>3. parts[u] # NoParts
        BY <2>3 DEF Held, NoParts
      <3>4. Objects' = Objects
        BY <2>1 DEF Objects
      <3>5. Settleds' = Settleds
        BY <2>1, <2>2, <3>0 DEF Settleds, Settled
      <3>6. Promise!Seal(u)
        BY <2>1, <3>2, <3>3, <3>4, <3>5, StageOf
           DEF Promise!Seal, Promise!Nothing, Stages, Objects, Settleds, NoParts
      <3>. QED
        BY <3>6 DEF Promise!Next
    <2>4. CASE ~(path[u] = p /\ Held(u) # {})
      <3>0. complete'[u] = "refused" /\ u \notin open'
        BY <1>2, <2>4 DEF Complete, TypeOK
      <3>1. Stage(u)' = "ended"
        BY <2>1, <3>0 DEF Stage, Sealed, Shown
      <3>2. ~ \E v \in Uploads : Flush(v)
        BY <2>1, <2>2, <3>0 DEF Flush, TypeOK
      <3>3. Promise!Discard({u})
        BY <1>0, <2>1, <2>2, <3>1, <3>2, Discarded
      <3>. QED
        BY <3>3 DEF Promise!Next
    <2>. QED
      BY <2>3, <2>4
  <1>3. ASSUME NEW u \in Uploads, NEW p \in Paths, Abort(u, p)
        PROVE  Promise!Next
    <2>1. /\ u \in open /\ path[u] # NoPath /\ complete[u] = "none"
          /\ UNCHANGED <<path, parts, object, complete>>
      BY <1>3 DEF Abort, TypeOK, registry
    <2>2. \A v \in Uploads : v # u => Stage(v)' = Stage(v)
      BY <1>3 DEF Abort, Stage
    <2>3. Stage(u)' = "ended"
      BY <1>3, <2>1 DEF Abort, Stage, Sealed, Shown
    <2>4. ~ \E v \in Uploads : Flush(v)
      BY <2>1 DEF Flush, TypeOK
    <2>5. Promise!Discard({u})
      BY <1>0, <2>1, <2>2, <2>3, <2>4, Discarded
    <2>. QED
      BY <2>5 DEF Promise!Next
  <1>4. ASSUME NEW r \in Parts, NEW p \in Paths, BeginPart(r, p)
        PROVE  UNCHANGED Promise!uploadVars
    <2>1. UNCHANGED <<open, path, parts, complete, object, durable, opened, reload>>
      BY <1>4 DEF BeginPart, registry
    <2>. QED
      BY <2>1 DEF Promise!uploadVars, Stage, Settled
  <1>5. ASSUME NEW u \in Uploads, Flush(u)
        PROVE  Promise!Next
    BY <1>5, FlushAppears DEF Promise!Next
  <1>6. ASSUME NEW u \in Uploads, CompleteFails(u)
        PROVE  Promise!Next
    <2>1. /\ complete[u] \in Sealed /\ complete'[u] = "failed"
          /\ \A v \in Uploads : v # u => complete'[v] = complete[v]
          /\ UNCHANGED <<open, path, parts, object>>
      BY <1>6 DEF CompleteFails, TypeOK
    <2>2. u \notin open /\ path[u] # NoPath
      BY <2>1 DEF TypeOK, Fresh, Sealed
    <2>3. Stage(u)' = "ended"
      BY <2>1, <2>2 DEF Stage, Sealed, Shown
    <2>4. \A v \in Uploads : v # u => Stage(v)' = Stage(v)
      BY <2>1 DEF Stage
    <2>5. ~ \E v \in Uploads : Flush(v)
      BY <2>1 DEF Flush, TypeOK
    <2>6. Promise!Discard({u})
      BY <1>0, <2>1, <2>3, <2>4, <2>5, Discarded
    <2>. QED
      BY <2>6 DEF Promise!Next
  <1>7. ASSUME NEW u \in Uploads, OpenBucket(u) \/ Persist(u)
        PROVE  Promise!Next
    <2>1. /\ \/ complete[u] = "linking" /\ complete'[u] = "opened"
             \/ complete[u] = "flushed" /\ complete'[u] = "answered"
          /\ \A v \in Uploads : v # u => complete'[v] = complete[v]
          /\ UNCHANGED <<open, path, parts, object>>
      BY <1>7 DEF OpenBucket, Persist, TypeOK
    <2>2. Stages' = Stages
      BY <2>1 DEF Stages, Stage, Sealed, Shown
    <2>3. ~ \E v \in Uploads : Flush(v)
      BY <2>1 DEF Flush, TypeOK
    <2>4. Promise!Fall
      BY <1>0, <2>1, <2>2, <2>3, Falls
    <2>. QED
      BY <2>4 DEF Promise!Next
  <1>8. CASE BeginReload \/ EndReload
    <2>1. UNCHANGED <<open, path, parts, complete>>
      BY <1>8 DEF BeginReload, EndReload
    <2>2. Stages' = Stages
      BY <2>1 DEF Stages, Stage
    <2>3. ~ \E v \in Uploads : Flush(v)
      BY <2>1 DEF Flush, TypeOK
    <2>4. \/ object' = object
          \/ reload \in Bucket /\ Shows(reload, complete, path) /\ object' = reload
      BY <1>8 DEF BeginReload, EndReload, TypeOK, CompletedOnly
    <2>5. Promise!Fall
      BY <1>0, <2>1, <2>2, <2>3, <2>4, Falls
    <2>. QED
      BY <2>5 DEF Promise!Next
  <1>9. CASE Restart
    <2>. DEFINE gone == {u \in Uploads : u \in open \/ complete[u] \in Sealed}
    <2>1. UNCHANGED <<path, parts>> /\ open' = {} /\ object' = durable
      BY <1>9 DEF Restart
    <2>2. \A u \in Uploads :
             complete'[u] = CASE complete[u] \in Sealed -> "failed"
                              [] complete[u] = "flushed" -> "unanswered"
                              [] OTHER -> complete[u]
      BY <1>9 DEF Restart
    <2>3. \A u \in gone : path[u] # NoPath
      BY DEF TypeOK, Fresh, Sealed
    <2>4. \A u \in gone : Stage(u)' = "ended"
      <3>1. \A u \in gone : complete[u] \in {"none", "linking", "opened"}
        BY DEF TypeOK, Sealed
      <3>2. \A u \in gone : complete'[u] \in {"none", "failed"}
        BY <2>2, <3>1 DEF Sealed
      <3>. QED
        BY <2>1, <2>3, <3>2 DEF Stage, Sealed, Shown
    <2>5. \A u \in Uploads \ gone : Stage(u)' = Stage(u)
      BY <2>1, <2>2 DEF Stage, Sealed, Shown
    <2>6. ~ \E v \in Uploads : Flush(v)
      <3>1. \A v \in Uploads : complete[v] = "opened" => complete'[v] = "failed"
        BY <2>2 DEF Sealed
      <3>. QED
        BY <3>1 DEF Flush, TypeOK
    <2>7. Promise!Discard(gone)
      <3>1. gone \in SUBSET Uploads
        OBVIOUS
      <3>2. \A u \in gone : u \in open \/ complete[u] \in Sealed
        OBVIOUS
      <3>. HIDE DEF gone
      <3>. QED
        BY <1>0, <2>1, <2>4, <2>5, <2>6, <3>1, <3>2, Discarded
    <2>. QED
      BY <2>7 DEF Promise!Next
  <1>10. CASE UNCHANGED vars
    BY <1>10 DEF vars, Promise!uploadVars, Stage, Settled
  <1>. QED
    BY <1>1, <1>2, <1>3, <1>4, <1>5, <1>6, <1>7, <1>8, <1>9, <1>10, PutOrNothing
    DEF Next

\* What appears is what was sealed, what is lost falls back to what was shown before, and
\* what is settled stays: the handlers, cut at their awaits, implement the promise.
THEOREM UploadsKeepPromise == Spec => KeepsUploadPromise
  <1>1. Init => Promise!Init
    BY AbsentAssumption
    DEF Init, Promise!Init, Promise!Nothing, NoParts, NoObjects, Stage, Settled, Sealed, Shown
  <1>2. UploadInv /\ UploadInv' /\ [Next]_vars => [Promise!Next]_(Promise!uploadVars)
    BY StepKeepsPromise
  <1>. QED
    BY <1>1, <1>2, InvInit, InvNext, PTL DEF Spec, KeepsUploadPromise, Promise!Spec
=============================================================================
