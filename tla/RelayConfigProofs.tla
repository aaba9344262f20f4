--------------------------- MODULE RelayConfigProofs ---------------------------
(*********************************************************************************)
(* Proofs about RelayConfig: the types; that runs of the script, which share a   *)
(* temporary file, and the heartbeat keep to kubo's identity unless a mixture of *)
(* two runs got into the file or initipfs wrote it between a read and a write;   *)
(* that kubo runs with the config of the file, is to be restarted for it or has  *)
(* missed that restart; and that a kubo that waits has help coming unless nobody *)
(* is left to derive its identity.                                               *)
(*********************************************************************************)
EXTENDS RelayConfig, TLAPS

WholeIds == {"shared", "own"}

Steps == {"idle", "read", "fetch", "write", "dump", "move", "down", "migrate", "up", "beat",
          "sign", "drift", "restart", "check"}

\* A run of the script has read an identity to preserve.
DraftsHaveId == \A p \in Runs : draft[p].id \in WholeIds

\* The temporary file holds a draft unless it is marked; it is there while a run of the
\* script is inside save_json, and not empty any more when one is about to move it.
TempIs ==
    /\ temp \in {Absent, Empty, Mixed} \cup [relays : Lists, id : WholeIds]
    /\ temp # Absent => \E p \in Runs : InTemp(p)
    /\ temp = Empty => \A p \in Runs : pc[p] # "move"

\* The file holds an identity.
Whole == ~raced => id # "none"

\* What a run is about to write, and what kubo runs with, is the identity of the file.
Agrees ==
    ~raced => /\ \A p \in Runs : pc[p] \in {"fetch", "write", "dump", "move"} => draft[p].id = id
              /\ temp.id \in WholeIds => temp.id = id
              /\ kubo = "running" => loaded.id = id \/ missed

\* kubo does not run without the sentinel, so that initipfs leaves the identity alone.
Derived == kubo = "running" => sentinel \/ missed

Inv == TypeOK /\ DraftsHaveId /\ TempIs /\ Whole /\ Agrees /\ Derived /\ HeartbeatIsOwn

LEMMA NoDraftType == NoDraft \in Drafts /\ NoDraft.id \in WholeIds
  BY RelayAssumption DEF NoDraft, Drafts, Ids, WholeIds

LEMMA InitInv == Init => Inv
<1>. SUFFICES ASSUME Init PROVE Inv
  OBVIOUS
<1>1. TypeOK
  <2>1. draft \in [Runs -> Drafts] /\ temp \in Contents
    BY NoDraftType, RelayAssumption DEF Init, Absent, Contents
  <2>2. pc \in [Runs -> Steps]
    BY DEF Init, Steps
  <2>3. fails \in 0..(FailLimit - 1) /\ changes \in 0..MaxChanges /\ faults \in 0..MaxFaults
    BY RelayAssumption DEF Init
  <2>4. /\ sentinel \in BOOLEAN /\ underived \in BOOLEAN /\ due \in BOOLEAN
        /\ missed \in BOOLEAN /\ raced \in BOOLEAN
    BY DEF Init
  <2>. QED
    BY <2>1, <2>2, <2>3, <2>4 DEF Init, TypeOK, Steps, Ids
<1>2. DraftsHaveId
  BY NoDraftType DEF Init, DraftsHaveId
<1>3. TempIs
  BY DEF Init, TempIs, Absent, Empty
<1>4. Whole /\ Agrees /\ Derived /\ HeartbeatIsOwn
  BY DEF Init, Whole, Agrees, Derived, HeartbeatIsOwn, Runs, Absent, WholeIds
<1>. QED
  BY <1>1, <1>2, <1>3, <1>4 DEF Inv

\* Whoever moves p, moves it alone.
LEMMA Moved ==
  ASSUME TypeOK, NEW p \in Runs, NEW at, Goto(p, at)
  PROVE  /\ pc'[p] = at
         /\ \A q \in Runs \ {p} : pc'[q] = pc[q]
         /\ at \in Steps => pc' \in [Runs -> Steps]
  BY DEF TypeOK, Goto, Steps

\* A draft that is forgotten is one nobody is about to write.
LEMMA Forgotten ==
  ASSUME TypeOK, DraftsHaveId, NEW p \in Runs, Forget(p)
  PROVE  /\ draft' \in [Runs -> Drafts]
         /\ \A q \in Runs : draft'[q].id \in WholeIds
         /\ \A q \in Runs \ {p} : draft'[q] = draft[q]
  BY NoDraftType DEF TypeOK, DraftsHaveId, Forget

\* A temporary file that is left behind is there only for the other run.
LEMMA Left ==
  ASSUME TypeOK, TempIs, NEW p \in Runs, LeftBehind(p)
  PROVE  /\ temp' \in Contents
         /\ temp' \in {temp, Absent}
         /\ temp' # Absent => \E q \in Runs \ {p} : InTemp(q)
  BY RelayAssumption DEF TypeOK, LeftBehind, Contents, Absent

\* Who is not in the temporary file leaves it as it is; who goes leaves it to the other.
LEMMA TempStays ==
  ASSUME TypeOK, TempIs, NEW p \in Runs, ~InTemp(p), NEW at, Goto(p, at),
         at \notin {"dump", "move"}, temp' = temp
  PROVE  TempIs'
<1>1. \A q \in Runs : pc'[q] = IF q = p THEN at ELSE pc[q]
  BY DEF Goto, TypeOK
<1>. QED
  BY <1>1 DEF TempIs, InTemp

LEMMA TempGone == ASSUME temp' = Absent PROVE TempIs'
  BY DEF TempIs, Absent, Empty

LEMMA TempLeft ==
  ASSUME TypeOK, TempIs, NEW p \in Runs, LeftBehind(p), NEW at, Goto(p, at),
         at \notin {"dump", "move"}
  PROVE  TempIs'
<1>1. \A q \in Runs : pc'[q] = IF q = p THEN at ELSE pc[q]
  BY DEF Goto, TypeOK
<1>2. temp' \in {temp, Absent}
  BY Left
<1>3. temp' # Absent => \E q \in Runs \ {p} : InTemp(q)
  BY Left
<1>4. temp' # Absent => \E q \in Runs : pc'[q] \in {"dump", "move"}
  BY <1>1, <1>3 DEF InTemp
<1>5. temp' = Empty => \A q \in Runs : pc'[q] # "move"
  BY <1>1, <1>2 DEF TempIs, Absent, Empty
<1>. QED
  BY <1>2, <1>4, <1>5 DEF TempIs, InTemp

\* What a run writes is its draft or a mixture.
LEMMA DumpedType ==
  ASSUME TypeOK, DraftsHaveId, NEW p \in Runs, NEW c \in Dumped(p)
  PROVE  /\ c \in Contents /\ c # Absent /\ c # Empty
         /\ c \in {Mixed} \cup [relays : Lists, id : WholeIds]
         /\ c = Mixed \/ c.id = draft[p].id
  BY RelayAssumption
     DEF TypeOK, DraftsHaveId, Dumped, Drafts, Contents, Absent, Empty, Mixed, WholeIds, Ids

\* Also in the deployed file that is an identity or none.
LEMMA DumpedIsDeployed ==
  ASSUME TypeOK, DraftsHaveId, NEW p \in Runs, NEW c \in Dumped(p), Deploy(c)
  PROVE  relays' \in Lists /\ id' \in Ids
<1>1. c \in {Mixed} \cup [relays : Lists, id : WholeIds]
  BY DumpedType
<1>. QED
  BY <1>1, RelayAssumption DEF Deploy, Mixed, WholeIds, Ids

\* What is moved into place is a draft, or a mixture, of which raced is the sign.
LEMMA Deployed ==
  ASSUME TypeOK, TempIs, NEW p \in Runs, pc[p] = "move", Replace
  PROVE  /\ relays' \in Lists /\ id' \in Ids
         /\ \/ temp = Mixed /\ raced' = TRUE
            \/ temp.id \in WholeIds /\ id' = temp.id /\ raced' = raced
         /\ raced' \in BOOLEAN /\ (raced => raced')
         /\ temp' = Absent /\ temp' \in Contents
  BY RelayAssumption
     DEF TypeOK, TempIs, Replace, Deploy, Contents, Absent, Empty, Mixed, WholeIds, Ids

LEMMA Inductive == ASSUME Inv, [Next]_vars PROVE Inv'
<1>0. /\ TypeOK /\ DraftsHaveId /\ TempIs /\ Whole /\ Agrees /\ Derived /\ HeartbeatIsOwn
      /\ faults > 0 => faults - 1 \in 0..MaxFaults
      /\ changes > 0 => changes - 1 \in 0..MaxChanges
      /\ 0 \in 0..(FailLimit - 1)
      /\ fails + 1 < FailLimit => fails + 1 \in 0..(FailLimit - 1)
      /\ Template \in Lists
  BY RelayAssumption DEF Inv, TypeOK
<1>1. CASE ListChanges
  <2>1. TypeOK'
    BY <1>1, <1>0 DEF TypeOK, Runs, Steps, Ids, ListChanges, file, go, post, Fault, NoFault
  <2>2. DraftsHaveId' /\ TempIs'
    BY <1>1, <1>0 DEF TypeOK, DraftsHaveId, TempIs, InTemp, WholeIds, Ids, Runs, Absent,
         ListChanges, file, go, post, Fault, NoFault
  <2>3. Whole' /\ Agrees'
    BY <1>1, <1>0 DEF TypeOK, Whole, Agrees, Derived, TempIs, InTemp, WholeIds, Runs,
         Absent, ListChanges, file, go, post, Fault, NoFault
  <2>4. Derived' /\ HeartbeatIsOwn'
    BY <1>1, <1>0 DEF TypeOK, Agrees, Derived, HeartbeatIsOwn, Runs, ListChanges, file, go,
         post, Fault, NoFault
  <2>. QED
    BY <2>1, <2>2, <2>3, <2>4 DEF Inv
<1>2. CASE NetChanges
  <2>1. TypeOK'
    BY <1>2, <1>0 DEF TypeOK, Runs, Steps, Ids, NetChanges, file, go, post, Fault, NoFault
  <2>2. DraftsHaveId' /\ TempIs'
    BY <1>2, <1>0 DEF TypeOK, DraftsHaveId, TempIs, InTemp, WholeIds, Ids, Runs, Absent,
         NetChanges, file, go, post, Fault, NoFault
  <2>3. Whole' /\ Agrees'
    BY <1>2, <1>0 DEF TypeOK, Whole, Agrees, Derived, TempIs, InTemp, WholeIds, Runs,
         Absent, NetChanges, file, go, post, Fault, NoFault
  <2>4. Derived' /\ HeartbeatIsOwn'
    BY <1>2, <1>0 DEF TypeOK, Agrees, Derived, HeartbeatIsOwn, Runs, NetChanges, file, go,
         post, Fault, NoFault
  <2>. QED
    BY <2>1, <2>2, <2>3, <2>4 DEF Inv
<1>3. CASE Elapse
  <2>1. TypeOK'
    BY <1>3, <1>0 DEF TypeOK, Runs, Steps, Ids, Elapse, file, go, post, Fault, NoFault
  <2>2. DraftsHaveId' /\ TempIs'
    BY <1>3, <1>0 DEF TypeOK, DraftsHaveId, TempIs, InTemp, WholeIds, Ids, Runs, Absent,
         Elapse, file, go, post, Fault, NoFault
  <2>3. Whole' /\ Agrees'
    BY <1>3, <1>0 DEF TypeOK, Whole, Agrees, Derived, TempIs, InTemp, WholeIds, Runs,
         Absent, Elapse, file, go, post, Fault, NoFault
  <2>4. Derived' /\ HeartbeatIsOwn'
    BY <1>3, <1>0 DEF TypeOK, Agrees, Derived, HeartbeatIsOwn, Runs, Elapse, file, go,
         post, Fault, NoFault
  <2>. QED
    BY <2>1, <2>2, <2>3, <2>4 DEF Inv
<1>4. CASE ComposeDown
  <2>1. TypeOK'
    <3>1. pc' \in [Runs -> Steps]
      BY <1>4, <1>0, Moved DEF TypeOK, Runs, Steps, ComposeDown, AllDown, SomeStay, Misses,
           Kubo, Unloaded, file, go, post, Fault, NoFault
    <3>2. draft' \in [Runs -> Drafts] /\ temp' \in Contents
      BY <1>4, <1>0, Moved DEF TypeOK, Runs, Drafts, Contents, Ids, DraftsHaveId, Absent,
           Empty, Mixed, ComposeDown, AllDown, SomeStay, Misses, Kubo, Unloaded, file, go, post,
           Fault, NoFault
    <3>3. /\ relays' \in Lists /\ id' \in Ids
          /\ fails' \in 0..(FailLimit - 1) /\ faults' \in 0..MaxFaults
      BY <1>4, <1>0, Moved DEF TypeOK, Runs, Ids, DraftsHaveId, TempIs, WholeIds,
           ComposeDown, AllDown, SomeStay, Misses, Kubo, Unloaded, file, go, post, Fault,
           NoFault
    <3>4. /\ kubo' \in {"down", "starting", "waiting", "running"}
          /\ goFula' \in {"down", "starting", "running"}
          /\ loaded' \in [relays : Lists, id : {"shared", "own"}]
      BY <1>4, <1>0, Moved DEF TypeOK, Runs, Ids, ComposeDown, AllDown, SomeStay, Misses,
           Kubo, Unloaded, file, go, post, Fault, NoFault
    <3>5. /\ sentinel' \in BOOLEAN /\ underived' \in BOOLEAN /\ due' \in BOOLEAN
          /\ missed' \in BOOLEAN /\ raced' \in BOOLEAN
      BY <1>4, <1>0, Moved DEF TypeOK, Runs, ComposeDown, AllDown, SomeStay, Misses, Kubo,
           Unloaded, file, go, post, Fault, NoFault
    <3>. QED
      BY <1>4, <1>0, <3>1, <3>2, <3>3, <3>4, <3>5 DEF TypeOK, Steps, ComposeDown, file, go,
           post
  <2>2. DraftsHaveId' /\ TempIs'
    <3>1. DraftsHaveId'
      BY <1>4, <1>0 DEF DraftsHaveId, ComposeDown
    <3>2. TempIs'
      BY <1>4, <1>0, TempStays DEF ComposeDown, Runs, InTemp
    <3>. QED
      BY <3>1, <3>2
  <2>3. Whole' /\ Agrees'
    BY <1>4, <1>0, Moved DEF TypeOK, Whole, Agrees, Derived, TempIs, InTemp, WholeIds,
         Runs, Absent, ComposeDown, AllDown, SomeStay, Misses, Kubo, Unloaded, file, go, post,
         Fault, NoFault
  <2>4. Derived' /\ HeartbeatIsOwn'
    BY <1>4, <1>0, Moved DEF TypeOK, Agrees, Derived, HeartbeatIsOwn, Runs, ComposeDown,
         AllDown, SomeStay, Misses, Kubo, Unloaded, file, go, post, Fault, NoFault
  <2>. QED
    BY <2>1, <2>2, <2>3, <2>4 DEF Inv
<1>5. CASE Migrate
  <2>1. TypeOK'
    <3>1. pc' \in [Runs -> Steps]
      BY <1>5, <1>0, Moved DEF TypeOK, Runs, Steps, Migrate, Misses, file, go, post, Fault,
           NoFault
    <3>2. draft' \in [Runs -> Drafts] /\ temp' \in Contents
      BY <1>5, <1>0, Moved DEF TypeOK, Runs, Drafts, Contents, Ids, DraftsHaveId, Absent,
           Empty, Mixed, Migrate, Misses, file, go, post, Fault, NoFault
    <3>3. /\ relays' \in Lists /\ id' \in Ids
          /\ fails' \in 0..(FailLimit - 1) /\ faults' \in 0..MaxFaults
      BY <1>5, <1>0, Moved DEF TypeOK, Runs, Ids, DraftsHaveId, TempIs, WholeIds, Migrate,
           Misses, file, go, post, Fault, NoFault
    <3>4. /\ kubo' \in {"down", "starting", "waiting", "running"}
          /\ goFula' \in {"down", "starting", "running"}
          /\ loaded' \in [relays : Lists, id : {"shared", "own"}]
      BY <1>5, <1>0, Moved DEF TypeOK, Runs, Ids, Migrate, Misses, file, go, post, Fault,
           NoFault
    <3>5. /\ sentinel' \in BOOLEAN /\ underived' \in BOOLEAN /\ due' \in BOOLEAN
          /\ missed' \in BOOLEAN /\ raced' \in BOOLEAN
      BY <1>5, <1>0, Moved DEF TypeOK, Runs, Migrate, Misses, file, go, post, Fault,
           NoFault
    <3>. QED
      BY <1>5, <1>0, <3>1, <3>2, <3>3, <3>4, <3>5 DEF TypeOK, Steps, Migrate, file, go,
           post
  <2>2. DraftsHaveId' /\ TempIs'
    <3>1. DraftsHaveId'
      BY <1>5, <1>0 DEF DraftsHaveId, Migrate
    <3>2. TempIs'
      BY <1>5, <1>0, TempStays DEF Migrate, Runs, InTemp
    <3>. QED
      BY <3>1, <3>2
  <2>3. Whole' /\ Agrees'
    BY <1>5, <1>0, Moved DEF TypeOK, Whole, Agrees, Derived, TempIs, InTemp, WholeIds,
         Runs, Absent, Migrate, Misses, file, go, post, Fault, NoFault
  <2>4. Derived' /\ HeartbeatIsOwn'
    BY <1>5, <1>0, Moved DEF TypeOK, Agrees, Derived, HeartbeatIsOwn, Runs, Migrate,
         Misses, file, go, post, Fault, NoFault
  <2>. QED
    BY <2>1, <2>2, <2>3, <2>4 DEF Inv
<1>6. CASE ComposeUp
  <2>1. TypeOK'
    <3>1. pc' \in [Runs -> Steps]
      BY <1>6, <1>0, Moved DEF TypeOK, Runs, Steps, ComposeUp, Kubo, Unloaded, file, go,
           post, Fault, NoFault
    <3>2. draft' \in [Runs -> Drafts] /\ temp' \in Contents
      BY <1>6, <1>0, Moved DEF TypeOK, Runs, Drafts, Contents, Ids, DraftsHaveId, Absent,
           Empty, Mixed, ComposeUp, Kubo, Unloaded, file, go, post, Fault, NoFault
    <3>3. /\ relays' \in Lists /\ id' \in Ids
          /\ fails' \in 0..(FailLimit - 1) /\ faults' \in 0..MaxFaults
      BY <1>6, <1>0, Moved DEF TypeOK, Runs, Ids, DraftsHaveId, TempIs, WholeIds,
           ComposeUp, Kubo, Unloaded, file, go, post, Fault, NoFault
    <3>4. /\ kubo' \in {"down", "starting", "waiting", "running"}
          /\ goFula' \in {"down", "starting", "running"}
          /\ loaded' \in [relays : Lists, id : {"shared", "own"}]
      BY <1>6, <1>0, Moved DEF TypeOK, Runs, Ids, ComposeUp, Kubo, Unloaded, file, go,
           post, Fault, NoFault
    <3>5. /\ sentinel' \in BOOLEAN /\ underived' \in BOOLEAN /\ due' \in BOOLEAN
          /\ missed' \in BOOLEAN /\ raced' \in BOOLEAN
      BY <1>6, <1>0, Moved DEF TypeOK, Runs, ComposeUp, Kubo, Unloaded, file, go, post,
           Fault, NoFault
    <3>. QED
      BY <1>6, <1>0, <3>1, <3>2, <3>3, <3>4, <3>5 DEF TypeOK, Steps, ComposeUp, file, go,
           post
  <2>2. DraftsHaveId' /\ TempIs'
    <3>1. DraftsHaveId'
      BY <1>6, <1>0 DEF DraftsHaveId, ComposeUp
    <3>2. TempIs'
      BY <1>6, <1>0, TempStays DEF ComposeUp, Runs, InTemp
    <3>. QED
      BY <3>1, <3>2
  <2>3. Whole' /\ Agrees'
    BY <1>6, <1>0, Moved DEF TypeOK, Whole, Agrees, Derived, TempIs, InTemp, WholeIds,
         Runs, Absent, ComposeUp, Kubo, Unloaded, file, go, post, Fault, NoFault
  <2>4. Derived' /\ HeartbeatIsOwn'
    BY <1>6, <1>0, Moved DEF TypeOK, Agrees, Derived, HeartbeatIsOwn, Runs, ComposeUp,
         Kubo, Unloaded, file, go, post, Fault, NoFault
  <2>. QED
    BY <2>1, <2>2, <2>3, <2>4 DEF Inv
<1>7. CASE OthersRestartFula
  <2>1. TypeOK'
    <3>1. pc' \in [Runs -> Steps]
      BY <1>7, <1>0, Moved, Forgotten, Left DEF TypeOK, Runs, Steps, OthersRestartFula,
           AllDown, SomeStay, Misses, Kubo, Unloaded, file, go, post, Fault, NoFault
    <3>2. draft' \in [Runs -> Drafts] /\ temp' \in Contents
      BY <1>7, <1>0, Moved, Forgotten, Left DEF TypeOK, Runs, Drafts, Contents, Ids,
           DraftsHaveId, Absent, Empty, Mixed, OthersRestartFula, AllDown, SomeStay, Misses,
           Kubo, Unloaded, file, go, post, Fault, NoFault
    <3>3. /\ relays' \in Lists /\ id' \in Ids
          /\ fails' \in 0..(FailLimit - 1) /\ faults' \in 0..MaxFaults
      BY <1>7, <1>0, Moved, Forgotten, Left DEF TypeOK, Runs, Ids, DraftsHaveId, TempIs,
           WholeIds, OthersRestartFula, AllDown, SomeStay, Misses, Kubo, Unloaded, file, go,
           post, Fault, NoFault
    <3>4. /\ kubo' \in {"down", "starting", "waiting", "running"}
          /\ goFula' \in {"down", "starting", "running"}
          /\ loaded' \in [relays : Lists, id : {"shared", "own"}]
      BY <1>7, <1>0, Moved, Forgotten, Left DEF TypeOK, Runs, Ids, OthersRestartFula,
           AllDown, SomeStay, Misses, Kubo, Unloaded, file, go, post, Fault, NoFault
    <3>5. /\ sentinel' \in BOOLEAN /\ underived' \in BOOLEAN /\ due' \in BOOLEAN
          /\ missed' \in BOOLEAN /\ raced' \in BOOLEAN
      BY <1>7, <1>0, Moved, Forgotten, Left DEF TypeOK, Runs, OthersRestartFula, AllDown,
           SomeStay, Misses, Kubo, Unloaded, file, go, post, Fault, NoFault
    <3>. QED
      BY <1>7, <1>0, <3>1, <3>2, <3>3, <3>4, <3>5 DEF TypeOK, Steps, OthersRestartFula,
           file, go, post
  <2>2. DraftsHaveId' /\ TempIs'
    <3>1. DraftsHaveId'
      BY <1>7, <1>0, Forgotten DEF DraftsHaveId, OthersRestartFula, Runs
    <3>2. TempIs'
      BY <1>7, <1>0, TempLeft DEF OthersRestartFula, Runs
    <3>. QED
      BY <3>1, <3>2
  <2>3. Whole' /\ Agrees'
    BY <1>7, <1>0, Moved, Forgotten, Left DEF TypeOK, Whole, Agrees, Derived, TempIs,
         InTemp, WholeIds, Runs, Absent, OthersRestartFula, AllDown, SomeStay, Misses, Kubo,
         Unloaded, file, go, post, Fault, NoFault
  <2>4. Derived' /\ HeartbeatIsOwn'
    BY <1>7, <1>0, Moved, Forgotten, Left DEF TypeOK, Agrees, Derived, HeartbeatIsOwn,
         Runs, OthersRestartFula, AllDown, SomeStay, Misses, Kubo, Unloaded, file, go, post,
         Fault, NoFault
  <2>. QED
    BY <2>1, <2>2, <2>3, <2>4 DEF Inv
<1>8. CASE InitIpfs
  <2>1. TypeOK'
    <3>1. pc' \in [Runs -> Steps]
      BY <1>8, <1>0 DEF TypeOK, Runs, Steps, InitIpfs, file, go, post, Fault, NoFault
    <3>2. draft' \in [Runs -> Drafts] /\ temp' \in Contents
      BY <1>8, <1>0 DEF TypeOK, Runs, Drafts, Contents, Ids, DraftsHaveId, Absent, Empty,
           Mixed, InitIpfs, file, go, post, Fault, NoFault
    <3>3. /\ relays' \in Lists /\ id' \in Ids
          /\ fails' \in 0..(FailLimit - 1) /\ faults' \in 0..MaxFaults
      BY <1>8, <1>0 DEF TypeOK, Runs, Ids, DraftsHaveId, TempIs, WholeIds, InitIpfs, file,
           go, post, Fault, NoFault
    <3>4. /\ kubo' \in {"down", "starting", "waiting", "running"}
          /\ goFula' \in {"down", "starting", "running"}
          /\ loaded' \in [relays : Lists, id : {"shared", "own"}]
      BY <1>8, <1>0 DEF TypeOK, Runs, Ids, InitIpfs, file, go, post, Fault, NoFault
    <3>5. /\ sentinel' \in BOOLEAN /\ underived' \in BOOLEAN /\ due' \in BOOLEAN
          /\ missed' \in BOOLEAN /\ raced' \in BOOLEAN
      BY <1>8, <1>0 DEF TypeOK, Runs, InitIpfs, file, go, post, Fault, NoFault
    <3>. QED
      BY <1>8, <1>0, <3>1, <3>2, <3>3, <3>4, <3>5 DEF TypeOK, Steps, InitIpfs, file, go,
           post
  <2>2. DraftsHaveId' /\ TempIs'
    BY <1>8, <1>0 DEF TypeOK, DraftsHaveId, TempIs, InTemp, WholeIds, Ids, Runs, Absent,
         InitIpfs, file, go, post, Fault, NoFault
  <2>3. Whole' /\ Agrees'
    BY <1>8, <1>0 DEF TypeOK, Whole, Agrees, Derived, TempIs, InTemp, WholeIds, Runs,
         Absent, InitIpfs, file, go, post, Fault, NoFault
  <2>4. Derived' /\ HeartbeatIsOwn'
    BY <1>8, <1>0 DEF TypeOK, Agrees, Derived, HeartbeatIsOwn, Runs, InitIpfs, file, go,
         post, Fault, NoFault
  <2>. QED
    BY <2>1, <2>2, <2>3, <2>4 DEF Inv
<1>9. CASE KuboStarts
  <2>1. TypeOK'
    BY <1>9, <1>0 DEF TypeOK, Runs, Steps, Ids, KuboStarts, file, go, post, Fault, NoFault
  <2>2. DraftsHaveId' /\ TempIs'
    BY <1>9, <1>0 DEF TypeOK, DraftsHaveId, TempIs, InTemp, WholeIds, Ids, Runs, Absent,
         KuboStarts, file, go, post, Fault, NoFault
  <2>3. Whole' /\ Agrees'
    BY <1>9, <1>0 DEF TypeOK, Whole, Agrees, Derived, TempIs, InTemp, WholeIds, Runs,
         Absent, KuboStarts, file, go, post, Fault, NoFault
  <2>4. Derived' /\ HeartbeatIsOwn'
    BY <1>9, <1>0 DEF TypeOK, Agrees, Derived, HeartbeatIsOwn, Runs, KuboStarts, file, go,
         post, Fault, NoFault
  <2>. QED
    BY <2>1, <2>2, <2>3, <2>4 DEF Inv
<1>10. CASE KuboLoads
  <2>1. TypeOK'
    BY <1>10, <1>0 DEF TypeOK, Runs, Steps, Ids, KuboLoads, file, go, post, Fault, NoFault
  <2>2. DraftsHaveId' /\ TempIs'
    BY <1>10, <1>0 DEF TypeOK, DraftsHaveId, TempIs, InTemp, WholeIds, Ids, Runs, Absent,
         KuboLoads, file, go, post, Fault, NoFault
  <2>3. Whole' /\ Agrees'
    BY <1>10, <1>0 DEF TypeOK, Whole, Agrees, Derived, TempIs, InTemp, WholeIds, Runs,
         Absent, KuboLoads, file, go, post, Fault, NoFault
  <2>4. Derived' /\ HeartbeatIsOwn'
    BY <1>10, <1>0 DEF TypeOK, Agrees, Derived, HeartbeatIsOwn, Runs, KuboLoads, file, go,
         post, Fault, NoFault
  <2>. QED
    BY <2>1, <2>2, <2>3, <2>4 DEF Inv
<1>11. CASE LoadKey
  <2>1. TypeOK'
    BY <1>11, <1>0, Moved DEF TypeOK, Runs, Steps, Ids, LoadKey, file, go, post, Fault,
         NoFault
  <2>2. DraftsHaveId' /\ TempIs'
    BY <1>11, <1>0, Moved DEF TypeOK, DraftsHaveId, TempIs, InTemp, WholeIds, Ids, Runs,
         Absent, LoadKey, file, go, post, Fault, NoFault
  <2>3. Whole' /\ Agrees'
    BY <1>11, <1>0, Moved DEF TypeOK, Whole, Agrees, Derived, TempIs, InTemp, WholeIds,
         Runs, Absent, LoadKey, file, go, post, Fault, NoFault
  <2>4. Derived' /\ HeartbeatIsOwn'
    BY <1>11, <1>0, Moved DEF TypeOK, Agrees, Derived, HeartbeatIsOwn, Runs, LoadKey, file,
         go, post, Fault, NoFault
  <2>. QED
    BY <2>1, <2>2, <2>3, <2>4 DEF Inv
<1>12. CASE PostHeartbeat
  <2>1. TypeOK'
    BY <1>12, <1>0, Moved DEF TypeOK, Runs, Steps, Ids, PostHeartbeat, Circuits, file, go,
         post, Fault, NoFault
  <2>2. DraftsHaveId' /\ TempIs'
    BY <1>12, <1>0, Moved DEF TypeOK, DraftsHaveId, TempIs, InTemp, WholeIds, Ids, Runs,
         Absent, PostHeartbeat, Circuits, file, go, post, Fault, NoFault
  <2>3. Whole' /\ Agrees'
    BY <1>12, <1>0, Moved DEF TypeOK, Whole, Agrees, Derived, TempIs, InTemp, WholeIds,
         Runs, Absent, PostHeartbeat, Circuits, file, go, post, Fault, NoFault
  <2>4. Derived' /\ HeartbeatIsOwn'
    BY <1>12, <1>0, Moved DEF TypeOK, Agrees, Derived, HeartbeatIsOwn, Runs, PostHeartbeat,
         Circuits, file, go, post, Fault, NoFault
  <2>. QED
    BY <2>1, <2>2, <2>3, <2>4 DEF Inv
<1>13. CASE RefreshRelays
  <2>1. TypeOK'
    <3>1. pc' \in [Runs -> Steps]
      BY <1>13, <1>0, Moved DEF TypeOK, Runs, Steps, RefreshRelays, file, go, post, Fault,
           NoFault
    <3>2. draft' \in [Runs -> Drafts] /\ temp' \in Contents
      BY <1>13, <1>0, Moved DEF TypeOK, Runs, Drafts, Contents, Ids, DraftsHaveId, Absent,
           Empty, Mixed, RefreshRelays, file, go, post, Fault, NoFault
    <3>3. /\ relays' \in Lists /\ id' \in Ids
          /\ fails' \in 0..(FailLimit - 1) /\ faults' \in 0..MaxFaults
      BY <1>13, <1>0, Moved DEF TypeOK, Runs, Ids, DraftsHaveId, TempIs, WholeIds,
           RefreshRelays, file, go, post, Fault, NoFault
    <3>4. /\ kubo' \in {"down", "starting", "waiting", "running"}
          /\ goFula' \in {"down", "starting", "running"}
          /\ loaded' \in [relays : Lists, id : {"shared", "own"}]
      BY <1>13, <1>0, Moved DEF TypeOK, Runs, Ids, RefreshRelays, file, go, post, Fault,
           NoFault
    <3>5. /\ sentinel' \in BOOLEAN /\ underived' \in BOOLEAN /\ due' \in BOOLEAN
          /\ missed' \in BOOLEAN /\ raced' \in BOOLEAN
      BY <1>13, <1>0, Moved DEF TypeOK, Runs, RefreshRelays, file, go, post, Fault, NoFault
    <3>. QED
      BY <1>13, <1>0, <3>1, <3>2, <3>3, <3>4, <3>5 DEF TypeOK, Steps, RefreshRelays, file,
           go, post
  <2>2. DraftsHaveId' /\ TempIs'
    BY <1>13, <1>0, Moved DEF TypeOK, DraftsHaveId, TempIs, InTemp, WholeIds, Ids, Runs,
         Absent, RefreshRelays, file, go, post, Fault, NoFault
  <2>3. Whole' /\ Agrees'
    BY <1>13, <1>0, Moved DEF TypeOK, Whole, Agrees, Derived, TempIs, InTemp, WholeIds,
         Runs, Absent, RefreshRelays, file, go, post, Fault, NoFault
  <2>4. Derived' /\ HeartbeatIsOwn'
    BY <1>13, <1>0, Moved DEF TypeOK, Agrees, Derived, HeartbeatIsOwn, Runs, RefreshRelays,
         file, go, post, Fault, NoFault
  <2>. QED
    BY <2>1, <2>2, <2>3, <2>4 DEF Inv
<1>14. CASE RestartKubo
  <2>1. TypeOK'
    <3>1. pc' \in [Runs -> Steps]
      BY <1>14, <1>0, Moved DEF TypeOK, Runs, Steps, RestartKubo, Misses, Kubo, Unloaded,
           file, go, post, Fault, NoFault
    <3>2. draft' \in [Runs -> Drafts] /\ temp' \in Contents
      BY <1>14, <1>0, Moved DEF TypeOK, Runs, Drafts, Contents, Ids, DraftsHaveId, Absent,
           Empty, Mixed, RestartKubo, Misses, Kubo, Unloaded, file, go, post, Fault, NoFault
    <3>3. /\ relays' \in Lists /\ id' \in Ids
          /\ fails' \in 0..(FailLimit - 1) /\ faults' \in 0..MaxFaults
      BY <1>14, <1>0, Moved DEF TypeOK, Runs, Ids, DraftsHaveId, TempIs, WholeIds,
           RestartKubo, Misses, Kubo, Unloaded, file, go, post, Fault, NoFault
    <3>4. /\ kubo' \in {"down", "starting", "waiting", "running"}
          /\ goFula' \in {"down", "starting", "running"}
          /\ loaded' \in [relays : Lists, id : {"shared", "own"}]
      BY <1>14, <1>0, Moved DEF TypeOK, Runs, Ids, RestartKubo, Misses, Kubo, Unloaded,
           file, go, post, Fault, NoFault
    <3>5. /\ sentinel' \in BOOLEAN /\ underived' \in BOOLEAN /\ due' \in BOOLEAN
          /\ missed' \in BOOLEAN /\ raced' \in BOOLEAN
      BY <1>14, <1>0, Moved DEF TypeOK, Runs, RestartKubo, Misses, Kubo, Unloaded, file,
           go, post, Fault, NoFault
    <3>. QED
      BY <1>14, <1>0, <3>1, <3>2, <3>3, <3>4, <3>5 DEF TypeOK, Steps, RestartKubo, file,
           go, post
  <2>2. DraftsHaveId' /\ TempIs'
    BY <1>14, <1>0, Moved DEF TypeOK, DraftsHaveId, TempIs, InTemp, WholeIds, Ids, Runs,
         Absent, RestartKubo, Misses, Kubo, Unloaded, file, go, post, Fault, NoFault
  <2>3. Whole' /\ Agrees'
    BY <1>14, <1>0, Moved DEF TypeOK, Whole, Agrees, Derived, TempIs, InTemp, WholeIds,
         Runs, Absent, RestartKubo, Misses, Kubo, Unloaded, file, go, post, Fault, NoFault
  <2>4. Derived' /\ HeartbeatIsOwn'
    BY <1>14, <1>0, Moved DEF TypeOK, Agrees, Derived, HeartbeatIsOwn, Runs, RestartKubo,
         Misses, Kubo, Unloaded, file, go, post, Fault, NoFault
  <2>. QED
    BY <2>1, <2>2, <2>3, <2>4 DEF Inv
<1>15. CASE RelayCheck
  <2>1. TypeOK'
    <3>1. pc' \in [Runs -> Steps]
      BY <1>15, <1>0, Moved, Forgotten, Left DEF TypeOK, Runs, Steps, RelayCheck, Skip,
           Reached, Isolated, Strike, AllDown, SomeStay, Misses, Kubo, Unloaded, file, go, post,
           Fault, NoFault
    <3>2. draft' \in [Runs -> Drafts] /\ temp' \in Contents
      BY <1>15, <1>0, Moved, Forgotten, Left DEF TypeOK, Runs, Drafts, Contents, Ids,
           DraftsHaveId, Absent, Empty, Mixed, RelayCheck, Skip, Reached, Isolated, Strike,
           AllDown, SomeStay, Misses, Kubo, Unloaded, file, go, post, Fault, NoFault
    <3>3. /\ relays' \in Lists /\ id' \in Ids
          /\ fails' \in 0..(FailLimit - 1) /\ faults' \in 0..MaxFaults
      BY <1>15, <1>0, Moved, Forgotten, Left DEF TypeOK, Runs, Ids, DraftsHaveId, TempIs,
           WholeIds, RelayCheck, Skip, Reached, Isolated, Strike, AllDown, SomeStay, Misses,
           Kubo, Unloaded, file, go, post, Fault, NoFault
    <3>4. /\ kubo' \in {"down", "starting", "waiting", "running"}
          /\ goFula' \in {"down", "starting", "running"}
          /\ loaded' \in [relays : Lists, id : {"shared", "own"}]
      BY <1>15, <1>0, Moved, Forgotten, Left DEF TypeOK, Runs, Ids, RelayCheck, Skip,
           Reached, Isolated, Strike, AllDown, SomeStay, Misses, Kubo, Unloaded, file, go, post,
           Fault, NoFault
    <3>5. /\ sentinel' \in BOOLEAN /\ underived' \in BOOLEAN /\ due' \in BOOLEAN
          /\ missed' \in BOOLEAN /\ raced' \in BOOLEAN
      BY <1>15, <1>0, Moved, Forgotten, Left DEF TypeOK, Runs, RelayCheck, Skip, Reached,
           Isolated, Strike, AllDown, SomeStay, Misses, Kubo, Unloaded, file, go, post, Fault,
           NoFault
    <3>. QED
      BY <1>15, <1>0, <3>1, <3>2, <3>3, <3>4, <3>5 DEF TypeOK, Steps, RelayCheck, file, go,
           post
  <2>2. DraftsHaveId' /\ TempIs'
    BY <1>15, <1>0, Moved, Forgotten, Left DEF TypeOK, DraftsHaveId, TempIs, InTemp,
         WholeIds, Ids, Runs, Absent, RelayCheck, Skip, Reached, Isolated, Strike, AllDown,
         SomeStay, Misses, Kubo, Unloaded, file, go, post, Fault, NoFault
  <2>3. Whole' /\ Agrees'
    BY <1>15, <1>0, Moved, Forgotten, Left DEF TypeOK, Whole, Agrees, Derived, TempIs,
         InTemp, WholeIds, Runs, Absent, RelayCheck, Skip, Reached, Isolated, Strike, AllDown,
         SomeStay, Misses, Kubo, Unloaded, file, go, post, Fault, NoFault
  <2>4. Derived' /\ HeartbeatIsOwn'
    BY <1>15, <1>0, Moved, Forgotten, Left DEF TypeOK, Agrees, Derived, HeartbeatIsOwn,
         Runs, RelayCheck, Skip, Reached, Isolated, Strike, AllDown, SomeStay, Misses, Kubo,
         Unloaded, file, go, post, Fault, NoFault
  <2>. QED
    BY <2>1, <2>2, <2>3, <2>4 DEF Inv
<1>16. CASE WatchdogDies
  <2>1. TypeOK'
    <3>1. pc' \in [Runs -> Steps]
      BY <1>16, <1>0, Moved, Forgotten, Left DEF TypeOK, Runs, Steps, WatchdogDies, Misses,
           file, go, post, Fault, NoFault
    <3>2. draft' \in [Runs -> Drafts] /\ temp' \in Contents
      BY <1>16, <1>0, Moved, Forgotten, Left DEF TypeOK, Runs, Drafts, Contents, Ids,
           DraftsHaveId, Absent, Empty, Mixed, WatchdogDies, Misses, file, go, post, Fault,
           NoFault
    <3>3. /\ relays' \in Lists /\ id' \in Ids
          /\ fails' \in 0..(FailLimit - 1) /\ faults' \in 0..MaxFaults
      BY <1>16, <1>0, Moved, Forgotten, Left DEF TypeOK, Runs, Ids, DraftsHaveId, TempIs,
           WholeIds, WatchdogDies, Misses, file, go, post, Fault, NoFault
    <3>4. /\ kubo' \in {"down", "starting", "waiting", "running"}
          /\ goFula' \in {"down", "starting", "running"}
          /\ loaded' \in [relays : Lists, id : {"shared", "own"}]
      BY <1>16, <1>0, Moved, Forgotten, Left DEF TypeOK, Runs, Ids, WatchdogDies, Misses,
           file, go, post, Fault, NoFault
    <3>5. /\ sentinel' \in BOOLEAN /\ underived' \in BOOLEAN /\ due' \in BOOLEAN
          /\ missed' \in BOOLEAN /\ raced' \in BOOLEAN
      BY <1>16, <1>0, Moved, Forgotten, Left DEF TypeOK, Runs, WatchdogDies, Misses, file,
           go, post, Fault, NoFault
    <3>. QED
      BY <1>16, <1>0, <3>1, <3>2, <3>3, <3>4, <3>5 DEF TypeOK, Steps, WatchdogDies, file,
           go, post
  <2>2. DraftsHaveId' /\ TempIs'
    <3>1. DraftsHaveId'
      BY <1>16, <1>0, Forgotten DEF DraftsHaveId, WatchdogDies, Runs
    <3>2. TempIs'
      BY <1>16, <1>0, TempLeft DEF WatchdogDies, Runs
    <3>. QED
      BY <3>1, <3>2
  <2>3. Whole' /\ Agrees'
    BY <1>16, <1>0, Moved, Forgotten, Left DEF TypeOK, Whole, Agrees, Derived, TempIs,
         InTemp, WholeIds, Runs, Absent, WatchdogDies, Misses, file, go, post, Fault, NoFault
  <2>4. Derived' /\ HeartbeatIsOwn'
    BY <1>16, <1>0, Moved, Forgotten, Left DEF TypeOK, Agrees, Derived, HeartbeatIsOwn,
         Runs, WatchdogDies, Misses, file, go, post, Fault, NoFault
  <2>. QED
    BY <2>1, <2>2, <2>3, <2>4 DEF Inv
<1>17. CASE Reboot
  <2>1. TypeOK'
    <3>1. pc' \in [Runs -> Steps]
      BY <1>17, <1>0, NoDraftType DEF TypeOK, Runs, Steps, Reboot, Kubo, Unloaded, file,
           go, post, Fault, NoFault
    <3>2. draft' \in [Runs -> Drafts] /\ temp' \in Contents
      BY <1>17, <1>0, NoDraftType DEF TypeOK, Runs, Drafts, Contents, Ids, DraftsHaveId,
           Absent, Empty, Mixed, Reboot, Kubo, Unloaded, file, go, post, Fault, NoFault
    <3>3. /\ relays' \in Lists /\ id' \in Ids
          /\ fails' \in 0..(FailLimit - 1) /\ faults' \in 0..MaxFaults
      BY <1>17, <1>0, NoDraftType DEF TypeOK, Runs, Ids, DraftsHaveId, TempIs, WholeIds,
           Reboot, Kubo, Unloaded, file, go, post, Fault, NoFault
    <3>4. /\ kubo' \in {"down", "starting", "waiting", "running"}
          /\ goFula' \in {"down", "starting", "running"}
          /\ loaded' \in [relays : Lists, id : {"shared", "own"}]
      BY <1>17, <1>0, NoDraftType DEF TypeOK, Runs, Ids, Reboot, Kubo, Unloaded, file, go,
           post, Fault, NoFault
    <3>5. /\ sentinel' \in BOOLEAN /\ underived' \in BOOLEAN /\ due' \in BOOLEAN
          /\ missed' \in BOOLEAN /\ raced' \in BOOLEAN
      BY <1>17, <1>0, NoDraftType DEF TypeOK, Runs, Reboot, Kubo, Unloaded, file, go, post,
           Fault, NoFault
    <3>. QED
      BY <1>17, <1>0, <3>1, <3>2, <3>3, <3>4, <3>5 DEF TypeOK, Steps, Reboot, file, go,
           post
  <2>2. DraftsHaveId' /\ TempIs'
    <3>1. DraftsHaveId' /\ temp' = Absent
      BY <1>17, NoDraftType DEF DraftsHaveId, Reboot
    <3>. QED
      BY <3>1, TempGone
  <2>3. Whole' /\ Agrees'
    BY <1>17, <1>0, NoDraftType DEF TypeOK, Whole, Agrees, Derived, TempIs, InTemp,
         WholeIds, Runs, Absent, Reboot, Kubo, Unloaded, file, go, post, Fault, NoFault
  <2>4. Derived' /\ HeartbeatIsOwn'
    BY <1>17, <1>0, NoDraftType DEF TypeOK, Agrees, Derived, HeartbeatIsOwn, Runs, Reboot,
         Kubo, Unloaded, file, go, post, Fault, NoFault
  <2>. QED
    BY <2>1, <2>2, <2>3, <2>4 DEF Inv
<1>18. ASSUME NEW p \in Runs, Script(p) PROVE Inv'
  <2>1. CASE ScriptReads(p)
    <3>1. TypeOK'
      <4>1. pc' \in [Runs -> Steps]
        BY <2>1, <1>0, Moved DEF TypeOK, Runs, Steps, ScriptReads, Exit, Merged, Drafts,
             file, go, post, Fault, NoFault
      <4>2. draft' \in [Runs -> Drafts] /\ temp' \in Contents
        <5>1. draft' = draft \/ (id # "none" /\ draft' = [draft EXCEPT ![p] = Merged])
          BY <2>1 DEF ScriptReads
        <5>2. id # "none" => Merged \in Drafts
          BY <1>0 DEF Merged, Drafts, TypeOK
        <5>. QED
          BY <2>1, <5>1, <5>2, <1>0 DEF ScriptReads, TypeOK
      <4>3. /\ relays' \in Lists /\ id' \in Ids
            /\ fails' \in 0..(FailLimit - 1) /\ faults' \in 0..MaxFaults
        BY <2>1, <1>0, Moved DEF TypeOK, Runs, Ids, DraftsHaveId, TempIs, WholeIds,
             ScriptReads, Exit, Merged, Drafts, file, go, post, Fault, NoFault
      <4>4. /\ kubo' \in {"down", "starting", "waiting", "running"}
            /\ goFula' \in {"down", "starting", "running"}
            /\ loaded' \in [relays : Lists, id : {"shared", "own"}]
        BY <2>1, <1>0, Moved DEF TypeOK, Runs, Ids, ScriptReads, Exit, Merged, Drafts,
             file, go, post, Fault, NoFault
      <4>5. /\ sentinel' \in BOOLEAN /\ underived' \in BOOLEAN /\ due' \in BOOLEAN
            /\ missed' \in BOOLEAN /\ raced' \in BOOLEAN
        BY <2>1, <1>0, Moved DEF TypeOK, Runs, ScriptReads, Exit, Merged, Drafts, file, go,
             post, Fault, NoFault
      <4>. QED
        BY <2>1, <1>0, <4>1, <4>2, <4>3, <4>4, <4>5 DEF TypeOK, Steps, ScriptReads, file,
             go, post
    <3>2. DraftsHaveId' /\ TempIs'
      BY <2>1, <1>0, Moved DEF TypeOK, DraftsHaveId, TempIs, InTemp, WholeIds, Ids, Runs,
           Absent, ScriptReads, Exit, Merged, Drafts, file, go, post, Fault, NoFault
    <3>3. Whole' /\ Agrees'
      BY <2>1, <1>0, Moved DEF TypeOK, Whole, Agrees, Derived, TempIs, InTemp, WholeIds,
           Runs, Absent, ScriptReads, Exit, Merged, Drafts, file, go, post, Fault, NoFault
    <3>4. Derived' /\ HeartbeatIsOwn'
      BY <2>1, <1>0, Moved DEF TypeOK, Agrees, Derived, HeartbeatIsOwn, Runs, ScriptReads,
           Exit, Merged, Drafts, file, go, post, Fault, NoFault
    <3>. QED
      BY <3>1, <3>2, <3>3, <3>4 DEF Inv
  <2>2. CASE ScriptFetches(p)
    <3>1. TypeOK'
      BY <2>2, <1>0, Moved DEF TypeOK, Runs, Steps, Ids, ScriptFetches, Drafts, file, go,
           post, Fault, NoFault
    <3>2. DraftsHaveId' /\ TempIs'
      BY <2>2, <1>0, Moved DEF TypeOK, DraftsHaveId, TempIs, InTemp, WholeIds, Ids, Runs,
           Absent, ScriptFetches, Drafts, file, go, post, Fault, NoFault
    <3>3. Whole' /\ Agrees'
      BY <2>2, <1>0, Moved DEF TypeOK, Whole, Agrees, Derived, TempIs, InTemp, WholeIds,
           Runs, Absent, ScriptFetches, Drafts, file, go, post, Fault, NoFault
    <3>4. Derived' /\ HeartbeatIsOwn'
      BY <2>2, <1>0, Moved DEF TypeOK, Agrees, Derived, HeartbeatIsOwn, Runs,
           ScriptFetches, Drafts, file, go, post, Fault, NoFault
    <3>. QED
      BY <3>1, <3>2, <3>3, <3>4 DEF Inv
  <2>3. CASE ScriptOpens(p)
    <3>1. TypeOK'
      <4>1. pc' \in [Runs -> Steps]
        BY <2>3, <1>0, Moved, Forgotten DEF TypeOK, Runs, Steps, ScriptOpens, Exit, InTemp,
             Empty, Mixed, file, go, post, Fault, NoFault
      <4>2. draft' \in [Runs -> Drafts] /\ temp' \in Contents
        BY <2>3, <1>0, Moved, Forgotten DEF TypeOK, Runs, Drafts, Contents, Ids,
             DraftsHaveId, Absent, Empty, Mixed, ScriptOpens, Exit, InTemp, file, go, post,
             Fault, NoFault
      <4>3. /\ relays' \in Lists /\ id' \in Ids
            /\ fails' \in 0..(FailLimit - 1) /\ faults' \in 0..MaxFaults
        BY <2>3, <1>0, Moved, Forgotten DEF TypeOK, Runs, Ids, DraftsHaveId, TempIs,
             WholeIds, ScriptOpens, Exit, InTemp, Empty, Mixed, file, go, post, Fault, NoFault
      <4>4. /\ kubo' \in {"down", "starting", "waiting", "running"}
            /\ goFula' \in {"down", "starting", "running"}
            /\ loaded' \in [relays : Lists, id : {"shared", "own"}]
        BY <2>3, <1>0, Moved, Forgotten DEF TypeOK, Runs, Ids, ScriptOpens, Exit, InTemp,
             Empty, Mixed, file, go, post, Fault, NoFault
      <4>5. /\ sentinel' \in BOOLEAN /\ underived' \in BOOLEAN /\ due' \in BOOLEAN
            /\ missed' \in BOOLEAN /\ raced' \in BOOLEAN
        BY <2>3, <1>0, Moved, Forgotten DEF TypeOK, Runs, ScriptOpens, Exit, InTemp, Empty,
             Mixed, file, go, post, Fault, NoFault
      <4>. QED
        BY <2>3, <1>0, <4>1, <4>2, <4>3, <4>4, <4>5 DEF TypeOK, Steps, ScriptOpens, file,
             go, post
    <3>2. DraftsHaveId' /\ TempIs'
      BY <2>3, <1>0, Moved, Forgotten DEF TypeOK, DraftsHaveId, TempIs, InTemp, WholeIds,
           Ids, Runs, Absent, ScriptOpens, Exit, Empty, Mixed, file, go, post, Fault, NoFault
    <3>3. Whole' /\ Agrees'
      BY <2>3, <1>0, Moved, Forgotten DEF TypeOK, Whole, Agrees, Derived, TempIs, InTemp,
           WholeIds, Runs, Absent, ScriptOpens, Exit, Empty, Mixed, file, go, post, Fault,
           NoFault
    <3>4. Derived' /\ HeartbeatIsOwn'
      BY <2>3, <1>0, Moved, Forgotten DEF TypeOK, Agrees, Derived, HeartbeatIsOwn, Runs,
           ScriptOpens, Exit, InTemp, Empty, Mixed, file, go, post, Fault, NoFault
    <3>. QED
      BY <3>1, <3>2, <3>3, <3>4 DEF Inv
  <2>4. CASE ScriptDumps(p)
    <3>1. TypeOK'
      <4>1. pc' \in [Runs -> Steps]
        BY <2>4, <1>0, Moved, Forgotten, Left, DumpedType DEF TypeOK, Runs, Steps,
             ScriptDumps, Exit, Deploy, file, go, post, Fault, NoFault
      <4>2. draft' \in [Runs -> Drafts] /\ temp' \in Contents
        BY <2>4, <1>0, Moved, Forgotten, Left, DumpedType DEF TypeOK, Runs, Drafts,
             Contents, Ids, DraftsHaveId, Absent, Empty, Mixed, ScriptDumps, Exit, Deploy, file,
             go, post, Fault, NoFault
      <4>3. /\ relays' \in Lists /\ id' \in Ids
            /\ fails' \in 0..(FailLimit - 1) /\ faults' \in 0..MaxFaults
        <5>1. fails' \in 0..(FailLimit - 1) /\ faults' \in 0..MaxFaults
          BY <2>4, <1>0 DEF ScriptDumps, TypeOK, Fault, NoFault
        <5>2. relays' \in Lists /\ id' \in Ids
          BY <2>4, <1>0, DumpedIsDeployed DEF ScriptDumps, TypeOK, file
        <5>. QED
          BY <5>1, <5>2
      <4>4. /\ kubo' \in {"down", "starting", "waiting", "running"}
            /\ goFula' \in {"down", "starting", "running"}
            /\ loaded' \in [relays : Lists, id : {"shared", "own"}]
        BY <2>4, <1>0, Moved, Forgotten, Left, DumpedType DEF TypeOK, Runs, Ids,
             ScriptDumps, Exit, Deploy, file, go, post, Fault, NoFault
      <4>5. /\ sentinel' \in BOOLEAN /\ underived' \in BOOLEAN /\ due' \in BOOLEAN
            /\ missed' \in BOOLEAN /\ raced' \in BOOLEAN
        BY <2>4, <1>0, Moved, Forgotten, Left, DumpedType DEF TypeOK, Runs, ScriptDumps,
             Exit, Deploy, file, go, post, Fault, NoFault
      <4>. QED
        BY <2>4, <1>0, <4>1, <4>2, <4>3, <4>4, <4>5 DEF TypeOK, Steps, ScriptDumps, file,
             go, post
    <3>2. DraftsHaveId' /\ TempIs'
      <4>1. DraftsHaveId'
        BY <2>4, <1>0, Forgotten DEF DraftsHaveId, ScriptDumps
      <4>2. CASE Goto(p, "move") /\ temp' \in Dumped(p)
        <5>1. pc'[p] = "move"
          BY <4>2, <1>0, Moved
        <5>. QED
          BY <4>1, <5>1, <4>2, DumpedType, <1>0 DEF TempIs, InTemp
      <4>3. CASE temp = Absent /\ UNCHANGED temp
        BY <4>1, <4>3, TempGone
      <4>4. CASE LeftBehind(p) /\ Exit(p, FALSE)
        <5>1. PICK at : Goto(p, at) /\ at \notin {"dump", "move"}
          BY <4>4 DEF Exit
        <5>. QED
          BY <4>1, <4>4, <5>1, <1>0, TempLeft
      <4>. QED
        BY <2>4, <4>1, <4>2, <4>3, <4>4 DEF ScriptDumps
    <3>3. Whole' /\ Agrees'
      <4>1. CASE raced' = TRUE
        BY <4>1 DEF Whole, Agrees
      <4>2. CASE UNCHANGED <<file, raced>>
        <5>1. pc[p] = "dump" /\ UNCHANGED <<kubo, loaded, missed>>
              /\ (draft' = draft \/ (Forget(p) /\ Exit(p, FALSE)))
          BY <2>4 DEF ScriptDumps
        <5>2. temp' \in {temp, Absent} \/ temp' \in Dumped(p)
          BY <2>4 DEF ScriptDumps, LeftBehind
        <5>3. ~raced => (temp'.id \in WholeIds => temp'.id = id)
          BY <5>1, <5>2, <1>0, DumpedType DEF Agrees, Absent, Mixed, WholeIds
        <5>4. \A q \in Runs : pc'[q] \in {"fetch", "write", "dump", "move"}
                 => /\ pc[q] \in {"fetch", "write", "dump", "move"}
                    /\ draft'[q] = draft[q]
          BY <2>4, <5>1, <1>0, Moved, Forgotten DEF ScriptDumps, Exit, Runs
        <5>. QED
          BY <4>2, <5>1, <5>3, <5>4, <1>0 DEF Whole, Agrees, file
      <4>. QED
        BY <2>4, <4>1, <4>2 DEF ScriptDumps
    <3>4. Derived' /\ HeartbeatIsOwn'
      BY <2>4, <1>0, Moved, Forgotten, Left, DumpedType DEF TypeOK, Agrees, Derived,
           HeartbeatIsOwn, Runs, ScriptDumps, Exit, Deploy, file, go, post, Fault, NoFault
    <3>. QED
      BY <3>1, <3>2, <3>3, <3>4 DEF Inv
  <2>5. CASE ScriptMoves(p)
    <3>1. TypeOK'
      <4>1. pc' \in [Runs -> Steps]
        BY <2>5, <1>0, Moved, Forgotten, Left, Deployed DEF TypeOK, Runs, Steps,
             ScriptMoves, Exit, Replace, Misses, file, go, post, Fault, NoFault
      <4>2. draft' \in [Runs -> Drafts] /\ temp' \in Contents
        BY <2>5, <1>0, Moved, Forgotten, Left, Deployed DEF TypeOK, Runs, Drafts, Contents,
             Ids, DraftsHaveId, Absent, Empty, Mixed, ScriptMoves, Exit, Replace, Misses, file,
             go, post, Fault, NoFault
      <4>3. /\ relays' \in Lists /\ id' \in Ids
            /\ fails' \in 0..(FailLimit - 1) /\ faults' \in 0..MaxFaults
        BY <2>5, <1>0, Moved, Forgotten, Left, Deployed DEF TypeOK, Runs, Ids,
             DraftsHaveId, TempIs, WholeIds, ScriptMoves, Exit, Replace, Misses, file, go, post,
             Fault, NoFault
      <4>4. /\ kubo' \in {"down", "starting", "waiting", "running"}
            /\ goFula' \in {"down", "starting", "running"}
            /\ loaded' \in [relays : Lists, id : {"shared", "own"}]
        BY <2>5, <1>0, Moved, Forgotten, Left, Deployed DEF TypeOK, Runs, Ids, ScriptMoves,
             Exit, Replace, Misses, file, go, post, Fault, NoFault
      <4>5. /\ sentinel' \in BOOLEAN /\ underived' \in BOOLEAN /\ due' \in BOOLEAN
            /\ missed' \in BOOLEAN /\ raced' \in BOOLEAN
        BY <2>5, <1>0, Moved, Forgotten, Left, Deployed DEF TypeOK, Runs, ScriptMoves,
             Exit, Replace, Misses, file, go, post, Fault, NoFault
      <4>. QED
        BY <2>5, <1>0, <4>1, <4>2, <4>3, <4>4, <4>5 DEF TypeOK, Steps, ScriptMoves, file,
             go, post
    <3>2. DraftsHaveId' /\ TempIs'
      <4>1. DraftsHaveId'
        BY <2>5, <1>0, Forgotten DEF DraftsHaveId, ScriptMoves
      <4>2. PICK at : Goto(p, at) /\ at \notin {"dump", "move"}
        BY <2>5 DEF ScriptMoves, Exit
      <4>3. CASE temp' = Absent
        BY <4>1, <4>3, TempGone
      <4>4. CASE LeftBehind(p)
        BY <4>1, <4>2, <4>4, <1>0, TempLeft
      <4>. QED
        BY <2>5, <4>1, <4>3, <4>4 DEF ScriptMoves, Replace
    <3>3. Whole' /\ Agrees'
      <4>1. \A q \in Runs : pc'[q] \in {"fetch", "write", "dump", "move"}
               => /\ pc[q] \in {"fetch", "write", "dump", "move"}
                  /\ draft'[q] = draft[q]
        BY <2>5, <1>0, Moved, Forgotten DEF ScriptMoves, Exit, Runs
      <4>2. UNCHANGED <<kubo, loaded>> /\ (missed => missed') /\ pc[p] = "move"
        BY <2>5, <1>0 DEF ScriptMoves, Misses, TypeOK
      <4>3. CASE UNCHANGED <<file, raced>>
        <5>1. temp' \in {temp, Absent}
          BY <2>5, <4>3 DEF ScriptMoves, LeftBehind, Replace
        <5>. QED
          BY <4>1, <4>2, <4>3, <5>1, <1>0 DEF Whole, Agrees, file, Absent, WholeIds
      <4>4. CASE Replace
        <5>1. /\ temp' = Absent
              /\ \/ raced' = TRUE
                 \/ temp.id \in WholeIds /\ id' = temp.id /\ raced' = raced
          BY <4>2, <4>4, <1>0, Deployed
        <5>2. raced' \/ (id' = id /\ ~raced)
          BY <5>1, <1>0 DEF Agrees, TypeOK
        <5>. QED
          BY <4>1, <4>2, <5>1, <5>2, <1>0 DEF Whole, Agrees, Absent, WholeIds
      <4>. QED
        BY <2>5, <4>3, <4>4 DEF ScriptMoves
    <3>4. Derived' /\ HeartbeatIsOwn'
      BY <2>5, <1>0, Moved, Forgotten, Left, Deployed DEF TypeOK, Agrees, Derived,
           HeartbeatIsOwn, Runs, ScriptMoves, Exit, Replace, Misses, file, go, post, Fault,
           NoFault
    <3>. QED
      BY <3>1, <3>2, <3>3, <3>4 DEF Inv
  <2>. QED
    BY <1>18, <2>1, <2>2, <2>3, <2>4, <2>5 DEF Script
<1>19. CASE UNCHANGED vars
  BY <1>19, <1>0 DEF vars, file, go, post, Inv, TypeOK, DraftsHaveId, TempIs, InTemp,
       Whole, Agrees, Derived, HeartbeatIsOwn
<1>. QED
  BY <1>1, <1>2, <1>3, <1>4, <1>5, <1>6, <1>7, <1>8, <1>9, <1>10, <1>11, <1>12, <1>13,
       <1>14, <1>15, <1>16, <1>17, <1>18, <1>19 DEF Next, World, Fula, Watchdog, Runs

LEMMA Invariance == Spec => []Inv
<1>. QED
  BY InitInv, Inductive, PTL DEF Spec

\* The variables have their types: relay_fail_count never reaches the limit at which
\* fula is restarted.
THEOREM TypeCorrect == Spec => []TypeOK
<1>1. Inv => TypeOK
  BY DEF Inv
<1>. QED
  BY <1>1, Invariance, PTL

\* No heartbeat reports the addresses of one identity under the key of another, unless
\* initipfs wrote the identity inside a run of the script.
THEOREM HeartbeatsAreOwn == Spec => []HeartbeatIsOwn
<1>1. Inv => HeartbeatIsOwn
  BY DEF Inv
<1>. QED
  BY <1>1, Invariance, PTL

\* The file is only written by a run of the script, which has the file's identity in its
\* draft, and by initipfs, which derives kubo's own.
LEMMA IdStep == ASSUME Inv, [Next]_vars PROVE id' = id \/ id' = "own" \/ raced'
<1>1. ASSUME NEW p \in Runs, ScriptMoves(p) PROVE id' = id \/ raced'
  <2>1. CASE UNCHANGED file
    BY <2>1 DEF file
  <2>2. CASE Replace
    <3>1. \/ temp = Mixed /\ raced' = TRUE
          \/ temp.id \in WholeIds /\ id' = temp.id /\ raced' = raced
      BY <1>1, <2>2, Deployed DEF ScriptMoves, Inv
    <3>. QED
      BY <3>1 DEF Inv, Agrees
  <2>. QED
    BY <1>1, <2>1, <2>2 DEF ScriptMoves
<1>2. ASSUME NEW p \in Runs, ScriptDumps(p) PROVE id' = id \/ raced'
  BY <1>2 DEF ScriptDumps, file
<1>3. CASE InitIpfs
  BY <1>3 DEF InitIpfs
<1>4. CASE ~InitIpfs /\ ~\E p \in Runs : ScriptDumps(p) \/ ScriptMoves(p)
  BY <1>4 DEF Next, World, Fula, Watchdog, Script, Runs, vars, file, ListChanges, NetChanges,
       Elapse, ScriptReads, ScriptFetches, ScriptOpens, ComposeDown, Migrate, ComposeUp,
       LoadKey, PostHeartbeat, RefreshRelays, RestartKubo, RelayCheck, KuboStarts,
       KuboLoads, OthersRestartFula, WatchdogDies, Reboot
<1>. QED
  BY <1>1, <1>2, <1>3, <1>4

\* The identity of the deployed config is never lost nor set back, whatever runs of the
\* script overlap and die, unless initipfs wrote it inside one of them or what two of them
\* wrote into one temporary file got there.
THEOREM IdentityIsKept == Spec => IdentityKept
<1>1. Inv /\ [Next]_vars => [id' = id \/ id' = "own" \/ raced']_vars
  BY IdStep
<1>. QED
  BY <1>1, Invariance, PTL DEF Spec, IdentityKept
----------------------------------------------------------------------------
(* kubo and the file                                                       *)

\* Steps in which neither the file, nor kubo, nor who is to restart it changes.
LEMMA FileIsQuiet ==
  ASSUME Inv, KuboRunsTheFile,
         \/ UNCHANGED <<file, kubo, loaded, missed, pc, raced>>
         \/ LoadKey \/ PostHeartbeat \/ RefreshRelays
         \/ \E p \in Runs : ScriptReads(p) \/ ScriptFetches(p) \/ ScriptOpens(p)
  PROVE  KuboRunsTheFile'
<1>1. CASE UNCHANGED <<file, kubo, loaded, missed, pc, raced>>
  BY <1>1 DEF KuboRunsTheFile, file
<1>2. CASE LoadKey \/ PostHeartbeat \/ RefreshRelays
  <2>1. /\ UNCHANGED <<file, kubo, loaded, missed, raced>> /\ pc'["fula"] = pc["fula"]
        /\ pc["watchdog"] # "restart"
    BY <1>2 DEF LoadKey, PostHeartbeat, RefreshRelays, Goto, Inv, TypeOK, Runs
  <2>. QED
    BY <2>1 DEF KuboRunsTheFile, file
<1>3. ASSUME NEW p \in Runs, ScriptReads(p) \/ ScriptFetches(p) \/ ScriptOpens(p)
      PROVE KuboRunsTheFile'
  <2>1. /\ UNCHANGED <<file, kubo, loaded, missed, raced>> /\ pc[p] \in {"read", "fetch", "write"}
        /\ \A q \in Runs \ {p} : pc'[q] = pc[q]
    BY <1>3 DEF ScriptReads, ScriptFetches, ScriptOpens, Exit, Goto, Inv, TypeOK
  <2>. QED
    BY <2>1 DEF KuboRunsTheFile, file, Runs
<1>. QED
  BY <1>1, <1>2, <1>3

\* A run of the script that replaces the file ends where kubo is restarted next.
LEMMA WriterRestarts ==
  ASSUME Inv, KuboRunsTheFile, NEW p \in Runs, ScriptMoves(p) PROVE KuboRunsTheFile'
<1>1. UNCHANGED <<kubo, loaded>> /\ pc[p] = "move"
  BY DEF ScriptMoves, Misses
<1>2. \A q \in Runs \ {p} : pc'[q] = pc[q]
  BY DEF ScriptMoves, Exit, Goto, Inv, TypeOK
<1>3. CASE Exit(p, TRUE)
  <2>1. p = "fula" => pc'["fula"] = "down"
    BY <1>3 DEF Exit, Goto, Inv, TypeOK, Runs
  <2>2. p = "watchdog" => pc'["watchdog"] = "restart"
    BY <1>3 DEF Exit, Goto, Inv, TypeOK, Runs
  <2>. QED
    BY <2>1, <2>2 DEF KuboRunsTheFile, Runs
<1>4. CASE UNCHANGED <<file, missed, raced>>
  BY <1>1, <1>2, <1>4 DEF KuboRunsTheFile, file, Runs
<1>5. CASE Misses
  BY <1>5 DEF KuboRunsTheFile, Misses
<1>. QED
  BY <1>3, <1>4, <1>5 DEF ScriptMoves

\* A run that writes the deployed file in place has been raced.
LEMMA DumpIsSeen ==
  ASSUME Inv, KuboRunsTheFile, NEW p \in Runs, ScriptDumps(p) PROVE KuboRunsTheFile'
<1>1. UNCHANGED <<kubo, loaded, missed>> /\ pc[p] = "dump"
  BY DEF ScriptDumps
<1>2. \A q \in Runs \ {p} : pc'[q] = pc[q]
  BY DEF ScriptDumps, Exit, Goto, Inv, TypeOK
<1>3. CASE UNCHANGED <<file, raced>>
  BY <1>1, <1>2, <1>3 DEF KuboRunsTheFile, file, Runs
<1>4. CASE raced' = TRUE
  BY <1>4 DEF KuboRunsTheFile
<1>. QED
  BY <1>3, <1>4 DEF ScriptDumps

LEMMA KuboRunsTheFileNext ==
  ASSUME Inv, KuboRunsTheFile, [Next]_vars PROVE KuboRunsTheFile'
<1>1. CASE ListChanges \/ NetChanges \/ Elapse \/ UNCHANGED vars
  BY <1>1, FileIsQuiet DEF ListChanges, NetChanges, Elapse, vars, file
<1>2. CASE \/ LoadKey \/ PostHeartbeat \/ RefreshRelays
           \/ \E p \in Runs : ScriptReads(p) \/ ScriptFetches(p) \/ ScriptOpens(p)
  BY <1>2, FileIsQuiet
<1>3. CASE \E p \in Runs : ScriptDumps(p) \/ ScriptMoves(p)
  BY <1>3, WriterRestarts, DumpIsSeen
<1>4. CASE Reboot \/ KuboStarts
  <2>1. kubo' # "running"
    BY <1>4 DEF Reboot, KuboStarts, Kubo
  <2>. QED
    BY <2>1 DEF KuboRunsTheFile
<1>5. CASE ComposeDown \/ OthersRestartFula \/ RestartKubo
  <2>1. kubo' # "running" \/ missed'
    BY <1>5 DEF ComposeDown, OthersRestartFula, AllDown, SomeStay, RestartKubo, Kubo, Misses
  <2>. QED
    BY <2>1 DEF KuboRunsTheFile
<1>6. CASE WatchdogDies
  <2>1. /\ UNCHANGED <<file, raced>> /\ pc'["fula"] = pc["fula"]
        /\ \/ kubo' # "running" \/ missed'
           \/ pc["watchdog"] # "restart" /\ UNCHANGED <<kubo, loaded, missed>>
    BY <1>6 DEF WatchdogDies, Misses, Goto, Inv, TypeOK, Runs
  <2>. QED
    BY <2>1 DEF KuboRunsTheFile, file
<1>7. CASE RelayCheck
  <2>1. \/ kubo' # "running" \/ missed'
        \/ /\ UNCHANGED <<file, kubo, loaded, missed, raced>> /\ pc["watchdog"] # "restart"
           /\ pc'["fula"] = pc["fula"]
    BY <1>7 DEF RelayCheck, Skip, Reached, AllDown, SomeStay, Misses, Kubo, Goto, Inv, TypeOK,
         Runs
  <2>. QED
    BY <2>1 DEF KuboRunsTheFile, file
<1>8. CASE Migrate \/ ComposeUp
  <2>1. \/ kubo' # "running" \/ missed'
        \/ /\ UNCHANGED <<file, kubo, loaded, missed, raced>> /\ pc["fula"] # "down"
           /\ pc'["watchdog"] = pc["watchdog"]
    BY <1>8 DEF Migrate, ComposeUp, Misses, Kubo, Goto, Inv, TypeOK, Runs
  <2>. QED
    BY <2>1 DEF KuboRunsTheFile, file
<1>9. CASE InitIpfs
  <2>1. UNCHANGED <<relays, kubo, loaded, missed, pc>> /\ (raced => raced')
    BY <1>9 DEF InitIpfs
  <2>2. kubo = "running" => id' = id \/ missed
    BY <1>9 DEF InitIpfs, Inv, Derived
  <2>. QED
    BY <2>1, <2>2 DEF KuboRunsTheFile
<1>10. CASE KuboLoads
  <2>1. loaded' = [relays |-> relays', id |-> id']
    BY <1>10 DEF KuboLoads, file
  <2>. QED
    BY <2>1 DEF KuboRunsTheFile
<1>. QED
  BY <1>1, <1>2, <1>3, <1>4, <1>5, <1>6, <1>7, <1>8, <1>9, <1>10
     DEF Next, World, Fula, Watchdog, Script, Runs

\* kubo never goes on with a config that somebody has replaced, unless the restart it was
\* to get for it failed or died, or two runs of the script wrote into one temporary file.
THEOREM KuboFollowsTheFile == Spec => []KuboRunsTheFile
<1>1. Init => KuboRunsTheFile
  BY DEF Init, KuboRunsTheFile
<1>2. Inv /\ KuboRunsTheFile /\ [Next]_vars => KuboRunsTheFile'
  BY KuboRunsTheFileNext
<1>. QED
  BY <1>1, <1>2, Invariance, PTL DEF Spec

----------------------------------------------------------------------------
(* kubo and the sentinel                                                   *)

\* kubo's own identity has its sentinel.  After fula.sh has looked for the shared one, that
\* identity and the sentinel are not both there, and a go-fula that has run initipfs has
\* left kubo's own behind: the others are still to run it.
Settled ==
    /\ pc["fula"] = "idle" => goFula # "down"
    /\ ~raced => (id = "own" => sentinel)
    /\ ~raced /\ ~underived /\ pc["fula"] \in {"up", "idle"}
          => /\ id = "own" \/ ~sentinel
             /\ goFula = "running" => id = "own"

LEMMA SettledNext == ASSUME Inv, Settled, [Next]_vars PROVE Settled'
<1>1. CASE ListChanges \/ NetChanges \/ Elapse \/ KuboLoads \/ UNCHANGED vars
  BY <1>1 DEF ListChanges, NetChanges, Elapse, KuboLoads, vars, file, go, Settled
<1>2. ASSUME NEW p \in Runs, ScriptReads(p) \/ ScriptFetches(p) \/ ScriptOpens(p) PROVE Settled'
  <2>1. /\ UNCHANGED <<file, go, raced>>
        /\ pc'["fula"] \in {pc["fula"], "fetch", "write", "dump", "down"}
    BY <1>2 DEF ScriptReads, ScriptFetches, ScriptOpens, Exit, Goto, Inv, TypeOK, Runs
  <2>. QED
    BY <2>1 DEF Settled, file, go
<1>3. ASSUME NEW p \in Runs, ScriptDumps(p) \/ ScriptMoves(p) PROVE Settled'
  <2>1. UNCHANGED go /\ (id' = id \/ id' = "own" \/ raced')
    BY <1>3, IdStep DEF ScriptDumps, ScriptMoves, Next, Script, Fula, Watchdog, Runs
  <2>2. raced' \/ (id' = id /\ ~raced)
    <3>1. CASE ScriptDumps(p)
      BY <3>1 DEF ScriptDumps, file, Inv, TypeOK
    <3>2. CASE ScriptMoves(p) /\ UNCHANGED <<file, raced>>
      BY <3>2 DEF file, Inv, TypeOK
    <3>3. CASE ScriptMoves(p) /\ Replace
      <4>1. \/ raced' = TRUE
            \/ temp.id \in WholeIds /\ id' = temp.id /\ raced' = raced
        BY <3>3, Deployed DEF ScriptMoves, Inv
      <4>. QED
        BY <4>1 DEF Inv, Agrees, TypeOK
    <3>. QED
      BY <1>3, <3>1, <3>2, <3>3 DEF ScriptMoves
  <2>3. pc'["fula"] \in {pc["fula"], "move", "down"}
    BY <1>3 DEF ScriptDumps, ScriptMoves, Exit, Goto, Inv, TypeOK, Runs
  <2>. QED
    BY <2>1, <2>2, <2>3 DEF Settled, go
<1>4. CASE LoadKey \/ PostHeartbeat \/ RefreshRelays \/ RestartKubo \/ WatchdogDies
  <2>1. UNCHANGED <<file, go, raced>> /\ pc'["fula"] = pc["fula"]
    BY <1>4 DEF LoadKey, PostHeartbeat, RefreshRelays, RestartKubo, WatchdogDies, Goto, Inv,
         TypeOK, Runs
  <2>. QED
    BY <2>1 DEF Settled, file, go
<1>5. CASE RelayCheck
  <2>1. UNCHANGED <<file, sentinel, underived, raced>>
    BY <1>5 DEF RelayCheck
  <2>2. \/ pc'["fula"] = "read"
        \/ pc'["fula"] = pc["fula"] /\ goFula' = goFula
    BY <1>5 DEF RelayCheck, Skip, Reached, Goto, Inv, TypeOK, Runs
  <2>. QED
    BY <2>1, <2>2 DEF Settled, file
<1>6. CASE OthersRestartFula \/ Reboot
  <2>1. pc'["fula"] = "read" /\ UNCHANGED <<file, sentinel, raced>>
    BY <1>6 DEF OthersRestartFula, Reboot, Goto, Inv, TypeOK, Runs
  <2>. QED
    BY <2>1 DEF Settled, file
<1>7. CASE ComposeDown
  <2>1. pc'["fula"] = "migrate" /\ UNCHANGED <<file, sentinel, raced>>
    BY <1>7 DEF ComposeDown, Goto, Inv, TypeOK, Runs
  <2>. QED
    BY <2>1 DEF Settled, file
<1>8. CASE Migrate
  <2>1. pc'["fula"] = "up" /\ UNCHANGED <<file, goFula, raced>>
    BY <1>8 DEF Migrate, Goto, Inv, TypeOK, Runs
  <2>2. CASE id = "shared"
    <3>1. ~sentinel' /\ underived' = (underived \/ goFula = "running")
      BY <1>8, <2>2 DEF Migrate
    <3>. QED
      BY <2>1, <2>2, <3>1 DEF Settled, file
  <2>3. CASE id # "shared"
    <3>1. UNCHANGED <<sentinel, underived>>
      BY <1>8, <2>3 DEF Migrate
    <3>2. ~raced => id = "own"
      BY <2>3 DEF Inv, Agrees, TypeOK, Ids, Whole
    <3>. QED
      BY <2>1, <3>1, <3>2 DEF Settled, file
  <2>. QED
    BY <2>2, <2>3
<1>9. CASE ComposeUp
  <2>1. /\ pc["fula"] = "up" /\ UNCHANGED <<file, sentinel, underived, raced>>
        /\ goFula' = IF goFula = "down" THEN "starting" ELSE goFula
    BY <1>9 DEF ComposeUp
  <2>. QED
    BY <2>1 DEF Settled, file
<1>10. CASE InitIpfs
  <2>1. /\ sentinel' = TRUE /\ goFula' = "running" /\ pc' = pc /\ (raced => raced')
    BY <1>10 DEF InitIpfs
  <2>2. ~raced' /\ ~underived' => \/ id' = "own"
                                  \/ sentinel /\ id' = id /\ ~underived
    BY <1>10, <2>1 DEF InitIpfs, Inv, Whole
  <2>. QED
    BY <2>1, <2>2 DEF Settled
<1>11. CASE KuboStarts
  <2>1. /\ sentinel' = (sentinel /\ id # "shared")
        /\ UNCHANGED <<file, goFula, underived, pc, raced>>
    BY <1>11 DEF KuboStarts
  <2>. QED
    BY <2>1 DEF Settled, file
<1>. QED
  BY <1>1, <1>2, <1>3, <1>4, <1>5, <1>6, <1>7, <1>8, <1>9, <1>10, <1>11
     DEF Next, World, Fula, Watchdog, Script, Runs

\* kubo's init script never waits for a sentinel that nobody is going to write, unless
\* initipfs failed to derive an identity or docker left go-fula as it was.
THEOREM KuboIsHelped == Spec => []KuboHasHelp
<1>1. Init => Settled
  BY DEF Init, Settled, Runs
<1>2. Inv /\ Settled /\ [Next]_vars => Settled'
  BY SettledNext
<1>3. Inv /\ Settled => KuboHasHelp
  BY DEF Settled, KuboHasHelp, Inv, TypeOK, Ids, Whole
<1>. QED
  BY <1>1, <1>2, <1>3, Invariance, PTL DEF Spec
=============================================================================
