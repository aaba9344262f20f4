---------------------------- MODULE UploadPromise ----------------------------
(***************************************************************************)
(* What the gateway promises the clients of a multipart upload.  An upload *)
(* is for one path and takes parts while it is open.  It is sealed once,   *)
(* with the parts it has then, and is shown at its path with exactly       *)
(* those, in one step; or it is discarded, and no object holds any part of *)
(* it.  An object may be lost again: its path then shows an upload that    *)
(* was shown there before, or nothing.  One that is settled is not lost:   *)
(* it stays until a later upload is shown at its path.                     *)
(***************************************************************************)
CONSTANTS Uploads, Paths, Numbers, Parts, NoPath, NoPart

VARIABLES
    stage,      \* "none", "open", "sealed", "shown" or "ended", for each upload
    target,     \* the path an upload is for
    content,    \* the part an upload has for each number
    object,     \* the parts of the object at each path
    settled     \* the uploads whose objects cannot be lost

uploadVars == <<stage, target, content, object, settled>>

Nothing == [n \in Numbers |-> NoPart]

Init == /\ stage = [u \in Uploads |-> "none"]
        /\ target = [u \in Uploads |-> NoPath]
        /\ content = [u \in Uploads |-> Nothing]
        /\ object = [p \in Paths |-> Nothing]
        /\ settled = {}

\* What path p may fall back to.
Earlier(p) == {Nothing} \cup {content[v] : v \in {w \in Uploads : /\ stage[w] = "shown"
                                                               /\ target[w] = p}}

\* The objects at these paths stay or fall back.  An upload that is settled stays so,
\* unless its path is not among them.
Keeps(paths) ==
    /\ \A p \in paths : object'[p] = object[p] \/ object'[p] \in Earlier(p)
    /\ \A v \in settled : target[v] \in paths => v \in settled'
    /\ \A v \in settled' : stage'[v] = "shown" /\ object'[target[v]] = content[v]

Open(u, p) ==
    /\ stage[u] = "none"
    /\ stage' = [stage EXCEPT ![u] = "open"]
    /\ target' = [target EXCEPT ![u] = p]
    /\ UNCHANGED <<content, object, settled>>

Put(u, n, r) ==
    /\ stage[u] = "open"
    /\ content' = [content EXCEPT ![u][n] = r]
    /\ UNCHANGED <<stage, target, object, settled>>

Seal(u) ==
    /\ stage[u] = "open"
    /\ content[u] # Nothing
    /\ stage' = [stage EXCEPT ![u] = "sealed"]
    /\ UNCHANGED <<target, content, object, settled>>

Appear(u) ==
    /\ stage[u] = "sealed"
    /\ stage' = [stage EXCEPT ![u] = "shown"]
    /\ object'[target[u]] = content[u]
    /\ Keeps(Paths \ {target[u]})
    /\ UNCHANGED <<target, content>>

\* Objects are lost, or settle.
Fall == Keeps(Paths) /\ UNCHANGED <<stage, target, content>>

\* Aborted, refused or failed; a restart of the gateway does this to many at once.
Discard(gone) ==
    /\ \A u \in gone : stage[u] \in {"open", "sealed"}
    /\ stage' = [u \in Uploads |-> IF u \in gone THEN "ended" ELSE stage[u]]
    /\ Keeps(Paths)
    /\ UNCHANGED <<target, content>>

Next == \/ \E u \in Uploads, p \in Paths : Open(u, p)
        \/ \E u \in Uploads, n \in Numbers, r \in Parts : Put(u, n, r)
        \/ \E u \in Uploads : Seal(u) \/ Appear(u)
        \/ Fall
        \/ \E gone \in SUBSET Uploads : Discard(gone)

Spec == Init /\ [][Next]_uploadVars
=============================================================================
