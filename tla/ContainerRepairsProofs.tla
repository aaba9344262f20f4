------------------------ MODULE ContainerRepairsProofs ------------------------
(*************************************************************************)
(* Proofs about ContainerRepairs: the types, that the watchdog never     *)
(* wipes a sound database of ipfs-cluster, and that its repair of        *)
(* identity.json takes a file away only when go-fula wrote it between    *)
(* the look and the stop of fula.service.                                *)
(*************************************************************************)
EXTENDS ContainerRepairs, TLAPS

\* What may be wiped, sooner or later.
Wipeable == {"pebble", "ebadmsg", "dead"}

\* The logs of containers that do not exist are empty.
Quiet(f, l) == ~f => \A c \in Containers : l[c] = "none"

\* A log that asks for a wipe, and a wipe about to be made, are about a database that
\* is damaged; while it is about to be made nothing runs that could print.
LogTells ==
    /\ Quiet(fula, log)
    /\ log["cluster"] = "pebble" => damage["cluster"] \in Wipeable
    /\ pc = "c_wipe" => damage["cluster"] \in Wipeable /\ ~fula
    /\ pc = "l_wipe" => fula

Inv == TypeOK /\ LogTells /\ ClusterKept

\* Where the watchdog can be.
Places ==
    {"main", "monitor", "cluster", "id_blox", "id_fula", "id_remove", "id_wait", "c_remove",
     "c_wipe", "host", "h_wipe", "yaml", "decide", "local", "l_wipe", "restore", "backup"}

LEMMA InitInv == Init => Inv
<1>. SUFFICES ASSUME Init PROVE Inv
  OBVIOUS
<1>1. TypeOK
  <2>1. damage \in [Containers -> Damages \cup {"none"}]
    BY DEF Init
  <2>2. log \in [Containers -> {"none", "minor", "pebble"}]
    BY DEF Init
  <2>3. /\ fula \in BOOLEAN /\ blox \in BOOLEAN /\ fixed \in BOOLEAN
        /\ online \in BOOLEAN /\ rewritten \in BOOLEAN
    BY DEF Init
  <2>4. faults \in 0..MaxFaults
    BY FaultAssumption DEF Init
  <2>. QED
    BY <2>1, <2>2, <2>3, <2>4 DEF Init, TypeOK
<1>2. LogTells /\ ClusterKept
  BY DEF Init, LogTells, Quiet, ClusterKept, Containers
<1>. QED
  BY <1>1, <1>2 DEF Inv

\* The types of what systemctl and docker leave.
RunType(f, s, u, l) ==
    /\ f \in BOOLEAN /\ s \in {"clear", "write", "done"}
    /\ u \subseteq Containers /\ l \in [Containers -> {"none", "minor", "pebble"}]
    /\ ~f => u = {}
    /\ Quiet(f, l)

\* Whatever starts, stops or leaves fula leaves its log alone or empties it.
LEMMA Restarts ==
  ASSUME TypeOK, LogTells, Recreated \/ StopFula \/ StartFula \/ UNCHANGED run
  PROVE  /\ RunType(fula', stage', up', log')
         /\ log'["cluster"] \in {"none", log["cluster"]}
<1>1. CASE Recreated
  BY <1>1 DEF Recreated, RunType, Quiet, Containers
<1>2. CASE StopFula
  BY <1>2 DEF StopFula, RunType, Quiet, Containers, TypeOK
<1>3. CASE UNCHANGED run
  BY <1>3 DEF run, RunType, TypeOK, LogTells, Quiet
<1>. QED
  BY <1>1, <1>2, <1>3 DEF StartFula

\* fsck leaves the kinds of damage of the other containers, and a database to wipe.
LEMMA Fscked ==
  ASSUME TypeOK, LogTells, NEW c \in Containers, RepairExt4(c)
  PROVE  /\ damage' \in [Containers -> Damages \cup {"none"}]
         /\ damage["cluster"] \in Wipeable => damage'["cluster"] \in Wipeable
         /\ RunType(fula', stage', up', log')
         /\ log'["cluster"] \in {"none", log["cluster"]}
         /\ faults' \in 0..MaxFaults
<1>1. /\ damage' \in [Containers -> Damages \cup {"none"}]
      /\ damage["cluster"] \in Wipeable => damage'["cluster"] \in Wipeable
  BY DEF RepairExt4, TypeOK, Damages, Containers, Wipeable
<1>2. RunType(fula', stage', up', log') /\ log'["cluster"] \in {"none", log["cluster"]}
  BY Restarts DEF RepairExt4
<1>3. faults' \in 0..MaxFaults
  BY FaultAssumption DEF RepairExt4, Fault, NoFault, TypeOK
<1>. QED
  BY <1>1, <1>2, <1>3

\* A wipe of a database that is not sound loses nothing.
LEMMA Wiped ==
  ASSUME TypeOK, NEW c \in Containers, Wipe(c)
  PROVE  /\ damage' \in [Containers -> Damages \cup {"none"}]
         /\ lost' \subseteq Containers
         /\ c # "cluster" => /\ damage'["cluster"] = damage["cluster"]
                             /\ "cluster" \in lost' => "cluster" \in lost
         /\ damage[c] \in Wipeable => lost' = lost
  BY DEF Wipe, TypeOK, Containers, Damages, Wipeable

\* Only the world changes the network.
LEMMA OnlineType == ASSUME TypeOK, [Next]_vars PROVE online' \in BOOLEAN
<1>1. CASE NetChanges
  BY <1>1 DEF NetChanges
<1>2. CASE ~NetChanges
  <2>1. UNCHANGED online
    BY <1>2 DEF Next, Round, Prints, ClearIdentity, InitCluster, BloxMounts, SetUpAgain, Harm,
         WatchdogDies, Reboot, vars
  <2>. QED
    BY <2>1 DEF TypeOK
<1>. QED
  BY <1>1, <1>2

LEMMA Inductive == ASSUME Inv, [Next]_vars PROVE Inv'
<1>0. /\ TypeOK /\ LogTells /\ ClusterKept /\ online' \in BOOLEAN
      /\ faults > 0 => faults - 1 \in 0..MaxFaults
  BY FaultAssumption, OnlineType DEF Inv, TypeOK
<1>1. CASE FixCluster
  <2>1. CASE IdentityIsDir
    <3>1. TypeOK'
      BY <2>1, <1>0, Restarts DEF TypeOK, Containers, Damages, RunType, LogTells, Quiet,
           IdentityIsDir, stack, run, path, files, Fault, NoFault, Nothing, Done, Goto
    <3>2. LogTells' /\ ClusterKept'
      BY <2>1, <1>0, Restarts DEF TypeOK, ClusterKept, Wipeable, Containers, Damages,
           RunType, LogTells, Quiet, IdentityIsDir, stack, run, path, files, Fault,
           NoFault, Nothing, Done, Goto
    <3>. QED
      BY <3>1, <3>2 DEF Inv
  <2>9. CASE StopBloxFirst
    <3>1. TypeOK'
      <4>1. damage' \in [Containers -> Damages \cup {"none"}] /\ lost' \subseteq Containers
        BY <2>9, <1>0, Restarts DEF TypeOK, Containers, Damages, RunType, LogTells, Quiet,
             StopBloxFirst, StopBlox, stack, run, path, files, Fault, NoFault, Nothing, Done,
             Goto
      <4>2. RunType(fula', stage', up', log')
        BY <2>9, <1>0, Restarts DEF TypeOK, Containers, Damages, RunType, LogTells, Quiet,
             StopBloxFirst, StopBlox, stack, run, path, files, Fault, NoFault, Nothing, Done,
             Goto
      <4>3. /\ yaml' \in {"good", "bad", "empty", "absent"}
           /\ backup' \in {"good", "bad", "empty", "absent"}
           /\ ident' \in {"file", "absent", "dir"}
        BY <2>9, <1>0, Restarts DEF TypeOK, Containers, Damages, RunType, LogTells, Quiet,
             StopBloxFirst, StopBlox, stack, run, path, files, Fault, NoFault, Nothing, Done,
             Goto
      <4>4. rewritten' \in BOOLEAN /\ blox' \in BOOLEAN /\ fixed' \in BOOLEAN
        BY <2>9, <1>0, Restarts DEF TypeOK, Containers, Damages, RunType, LogTells, Quiet,
             StopBloxFirst, StopBlox, stack, run, path, files, Fault, NoFault, Nothing, Done,
             Goto
      <4>5. /\ pc' \in Places
           /\ faults' \in 0..MaxFaults
        BY <2>9, <1>0, Restarts DEF TypeOK, Places, Containers, Damages, RunType, LogTells, Quiet,
             StopBloxFirst, StopBlox, stack, run, path, files, Fault, NoFault, Nothing, Done,
             Goto
      <4>. QED
        BY <2>9, <1>0, <4>1, <4>2, <4>3, <4>4, <4>5 DEF TypeOK, Places, RunType
    <3>2. LogTells' /\ ClusterKept'
      BY <2>9, <1>0, Restarts DEF TypeOK, ClusterKept, Wipeable, Containers, Damages,
           RunType, LogTells, Quiet, StopBloxFirst, StopBlox, stack, run, path, files, Fault,
           NoFault, Nothing, Done, Goto
    <3>. QED
      BY <3>1, <3>2 DEF Inv
  <2>10. CASE StopFulaThen
    <3>1. TypeOK'
      <4>1. damage' \in [Containers -> Damages \cup {"none"}] /\ lost' \subseteq Containers
        BY <2>10, <1>0, Restarts DEF TypeOK, Containers, Damages, RunType, LogTells, Quiet,
             StopFulaThen, StopFula, stack, run, path, files, Fault, NoFault, Nothing, Done,
             Goto
      <4>2. RunType(fula', stage', up', log')
        BY <2>10, <1>0, Restarts DEF TypeOK, Containers, Damages, RunType, LogTells, Quiet,
             StopFulaThen, StopFula, stack, run, path, files, Fault, NoFault, Nothing, Done,
             Goto
      <4>3. /\ yaml' \in {"good", "bad", "empty", "absent"}
           /\ backup' \in {"good", "bad", "empty", "absent"}
           /\ ident' \in {"file", "absent", "dir"}
        BY <2>10, <1>0, Restarts DEF TypeOK, Containers, Damages, RunType, LogTells, Quiet,
             StopFulaThen, StopFula, stack, run, path, files, Fault, NoFault, Nothing, Done,
             Goto
      <4>4. rewritten' \in BOOLEAN /\ blox' \in BOOLEAN /\ fixed' \in BOOLEAN
        BY <2>10, <1>0, Restarts DEF TypeOK, Containers, Damages, RunType, LogTells, Quiet,
             StopFulaThen, StopFula, stack, run, path, files, Fault, NoFault, Nothing, Done,
             Goto
      <4>5. /\ pc' \in Places
           /\ faults' \in 0..MaxFaults
        BY <2>10, <1>0, Restarts DEF TypeOK, Places, Containers, Damages, RunType, LogTells, Quiet,
             StopFulaThen, StopFula, stack, run, path, files, Fault, NoFault, Nothing, Done,
             Goto
      <4>. QED
        BY <2>10, <1>0, <4>1, <4>2, <4>3, <4>4, <4>5 DEF TypeOK, Places, RunType
    <3>2. LogTells' /\ ClusterKept'
      BY <2>10, <1>0, Restarts DEF TypeOK, ClusterKept, Wipeable, Containers, Damages,
           RunType, LogTells, Quiet, StopFulaThen, StopFula, stack, run, path, files, Fault,
           NoFault, Nothing, Done, Goto
    <3>. QED
      BY <3>1, <3>2 DEF Inv
  <2>2. CASE RemoveIdentityDir
    <3>1. TypeOK'
      <4>1. damage' \in [Containers -> Damages \cup {"none"}] /\ lost' \subseteq Containers
        BY <2>2, <1>0, Restarts DEF TypeOK, Containers, Damages, RunType, LogTells, Quiet,
             RemoveIdentityDir, stack, run, path, files, Fault, NoFault, Nothing, Done, Goto
      <4>2. RunType(fula', stage', up', log')
        BY <2>2, <1>0, Restarts DEF TypeOK, Containers, Damages, RunType, LogTells, Quiet,
             RemoveIdentityDir, stack, run, path, files, Fault, NoFault, Nothing, Done, Goto
      <4>3. /\ yaml' \in {"good", "bad", "empty", "absent"}
            /\ backup' \in {"good", "bad", "empty", "absent"}
            /\ ident' \in {"file", "absent", "dir"}
        BY <2>2, <1>0, Restarts DEF TypeOK, Containers, Damages, RunType, LogTells, Quiet,
             RemoveIdentityDir, stack, run, path, files, Fault, NoFault, Nothing, Done, Goto
      <4>4. blox' \in BOOLEAN /\ fixed' \in BOOLEAN /\ rewritten' \in BOOLEAN
        BY <2>2, <1>0, Restarts DEF TypeOK, Containers, Damages, RunType, LogTells, Quiet,
             RemoveIdentityDir, stack, run, path, files, Fault, NoFault, Nothing, Done, Goto
      <4>5. /\ pc' \in Places
            /\ faults' \in 0..MaxFaults
        BY <2>2, <1>0, Restarts DEF TypeOK, Places, Containers, Damages, RunType, LogTells, Quiet,
             RemoveIdentityDir, stack, run, path, files, Fault, NoFault, Nothing, Done, Goto
      <4>. QED
        BY <2>2, <1>0, <4>1, <4>2, <4>3, <4>4, <4>5 DEF TypeOK, Places, RunType
    <3>2. LogTells' /\ ClusterKept'
      BY <2>2, <1>0, Restarts DEF TypeOK, ClusterKept, Wipeable, Containers, Damages,
           RunType, LogTells, Quiet, RemoveIdentityDir, stack, run, path, files, Fault, NoFault,
           Nothing, Done, Goto
    <3>. QED
      BY <3>1, <3>2 DEF Inv
  <2>3. CASE AwaitIdentity
    <3>1. TypeOK'
      <4>1. damage' \in [Containers -> Damages \cup {"none"}] /\ lost' \subseteq Containers
        BY <2>3, <1>0 DEF TypeOK, Containers, Damages, RunType, LogTells, Quiet,
             AwaitIdentity, stack, run, path, files, Fault, NoFault, Nothing, Done, Goto
      <4>2. RunType(fula', stage', up', log')
        BY <2>3, <1>0 DEF TypeOK, Containers, Damages, RunType, LogTells, Quiet,
             AwaitIdentity, stack, run, path, files, Fault, NoFault, Nothing, Done, Goto
      <4>3. /\ yaml' \in {"good", "bad", "empty", "absent"}
            /\ backup' \in {"good", "bad", "empty", "absent"}
            /\ ident' \in {"file", "absent", "dir"}
        BY <2>3, <1>0 DEF TypeOK, Containers, Damages, RunType, LogTells, Quiet,
             AwaitIdentity, stack, run, path, files, Fault, NoFault, Nothing, Done, Goto
      <4>4. blox' \in BOOLEAN /\ fixed' \in BOOLEAN /\ rewritten' \in BOOLEAN
        BY <2>3, <1>0 DEF TypeOK, Containers, Damages, RunType, LogTells, Quiet,
             AwaitIdentity, stack, run, path, files, Fault, NoFault, Nothing, Done, Goto
      <4>5. /\ pc' \in Places
            /\ faults' \in 0..MaxFaults
        BY <2>3, <1>0 DEF TypeOK, Places, Containers, Damages, RunType, LogTells, Quiet,
             AwaitIdentity, stack, run, path, files, Fault, NoFault, Nothing, Done, Goto
      <4>. QED
        BY <2>3, <1>0, <4>1, <4>2, <4>3, <4>4, <4>5 DEF TypeOK, Places, RunType
    <3>2. LogTells' /\ ClusterKept'
      BY <2>3, <1>0 DEF TypeOK, ClusterKept, Wipeable, Containers, Damages, RunType,
           LogTells, Quiet, AwaitIdentity, stack, run, path, files, Fault, NoFault, Nothing, Done,
           Goto
    <3>. QED
      BY <3>1, <3>2 DEF Inv
  <2>4. CASE ClusterMinor
    <3>1. TypeOK'
      <4>1. damage' \in [Containers -> Damages \cup {"none"}] /\ lost' \subseteq Containers
        BY <2>4, <1>0, Restarts DEF TypeOK, Containers, Damages, RunType, LogTells, Quiet,
             ClusterMinor, StopFula, stack, run, path, files, Fault, NoFault, Nothing, Done, Goto
      <4>2. RunType(fula', stage', up', log')
        BY <2>4, <1>0, Restarts DEF TypeOK, Containers, Damages, RunType, LogTells, Quiet,
             ClusterMinor, StopFula, stack, run, path, files, Fault, NoFault, Nothing, Done, Goto
      <4>3. /\ yaml' \in {"good", "bad", "empty", "absent"}
            /\ backup' \in {"good", "bad", "empty", "absent"}
            /\ ident' \in {"file", "absent", "dir"}
        BY <2>4, <1>0, Restarts DEF TypeOK, Containers, Damages, RunType, LogTells, Quiet,
             ClusterMinor, StopFula, stack, run, path, files, Fault, NoFault, Nothing, Done, Goto
      <4>4. blox' \in BOOLEAN /\ fixed' \in BOOLEAN /\ rewritten' \in BOOLEAN
        BY <2>4, <1>0, Restarts DEF TypeOK, Containers, Damages, RunType, LogTells, Quiet,
             ClusterMinor, StopFula, stack, run, path, files, Fault, NoFault, Nothing, Done, Goto
      <4>5. /\ pc' \in Places
            /\ faults' \in 0..MaxFaults
        BY <2>4, <1>0, Restarts DEF TypeOK, Places, Containers, Damages, RunType, LogTells, Quiet,
             ClusterMinor, StopFula, stack, run, path, files, Fault, NoFault, Nothing, Done, Goto
      <4>. QED
        BY <2>4, <1>0, <4>1, <4>2, <4>3, <4>4, <4>5 DEF TypeOK, Places, RunType
    <3>2. LogTells' /\ ClusterKept'
      BY <2>4, <1>0, Restarts DEF TypeOK, ClusterKept, Wipeable, Containers, Damages,
           RunType, LogTells, Quiet, ClusterMinor, StopFula, stack, run, path, files, Fault,
           NoFault, Nothing, Done, Goto
    <3>. QED
      BY <3>1, <3>2 DEF Inv
  <2>5. CASE RemoveClusterFile
    <3>1. TypeOK'
      <4>1. damage' \in [Containers -> Damages \cup {"none"}] /\ lost' \subseteq Containers
        BY <2>5, <1>0, Restarts DEF TypeOK, Containers, Damages, RunType, LogTells, Quiet,
             RemoveClusterFile, stack, run, path, files, Fault, NoFault, Nothing, Done, Goto
      <4>2. RunType(fula', stage', up', log')
        BY <2>5, <1>0, Restarts DEF TypeOK, Containers, Damages, RunType, LogTells, Quiet,
             RemoveClusterFile, stack, run, path, files, Fault, NoFault, Nothing, Done, Goto
      <4>3. /\ yaml' \in {"good", "bad", "empty", "absent"}
           /\ backup' \in {"good", "bad", "empty", "absent"}
           /\ ident' \in {"file", "absent", "dir"}
        BY <2>5, <1>0, Restarts DEF TypeOK, Containers, Damages, RunType, LogTells, Quiet,
             RemoveClusterFile, stack, run, path, files, Fault, NoFault, Nothing, Done, Goto
      <4>4. rewritten' \in BOOLEAN /\ blox' \in BOOLEAN /\ fixed' \in BOOLEAN
        BY <2>5, <1>0, Restarts DEF TypeOK, Containers, Damages, RunType, LogTells, Quiet,
             RemoveClusterFile, stack, run, path, files, Fault, NoFault, Nothing, Done, Goto
      <4>5. /\ pc' \in Places
           /\ faults' \in 0..MaxFaults
        BY <2>5, <1>0, Restarts DEF TypeOK, Places, Containers, Damages, RunType, LogTells, Quiet,
             RemoveClusterFile, stack, run, path, files, Fault, NoFault, Nothing, Done, Goto
      <4>. QED
        BY <2>5, <1>0, <4>1, <4>2, <4>3, <4>4, <4>5 DEF TypeOK, Places, RunType
    <3>2. LogTells' /\ ClusterKept'
      BY <2>5, <1>0, Restarts DEF TypeOK, ClusterKept, Wipeable, Containers, Damages,
           RunType, LogTells, Quiet, RemoveClusterFile, stack, run, path, files, Fault, NoFault,
           Nothing, Done, Goto
    <3>. QED
      BY <3>1, <3>2 DEF Inv
  <2>6. CASE ClusterPebble
    <3>1. TypeOK'
      <4>1. damage' \in [Containers -> Damages \cup {"none"}] /\ lost' \subseteq Containers
        BY <2>6, <1>0, Restarts, Fscked DEF TypeOK, Containers, Damages, RunType, LogTells,
             Quiet, ClusterPebble, StopFula, stack, run, path, files, Fault, NoFault, Nothing,
             Done, Goto
      <4>2. RunType(fula', stage', up', log')
        BY <2>6, <1>0, Restarts, Fscked DEF TypeOK, Containers, Damages, RunType, LogTells,
             Quiet, ClusterPebble, StopFula, stack, run, path, files, Fault, NoFault, Nothing,
             Done, Goto
      <4>3. /\ yaml' \in {"good", "bad", "empty", "absent"}
           /\ backup' \in {"good", "bad", "empty", "absent"}
           /\ ident' \in {"file", "absent", "dir"}
        BY <2>6, <1>0, Restarts, Fscked DEF TypeOK, Containers, Damages, RunType, LogTells,
             Quiet, ClusterPebble, StopFula, stack, run, path, files, Fault, NoFault, Nothing,
             Done, Goto
      <4>4. rewritten' \in BOOLEAN /\ blox' \in BOOLEAN /\ fixed' \in BOOLEAN
        BY <2>6, <1>0, Restarts, Fscked DEF TypeOK, Containers, Damages, RunType, LogTells,
             Quiet, ClusterPebble, StopFula, stack, run, path, files, Fault, NoFault, Nothing,
             Done, Goto
      <4>5. /\ pc' \in Places
           /\ faults' \in 0..MaxFaults
        BY <2>6, <1>0, Restarts, Fscked DEF TypeOK, Places, Containers, Damages, RunType, LogTells,
             Quiet, ClusterPebble, StopFula, stack, run, path, files, Fault, NoFault, Nothing,
             Done, Goto
      <4>. QED
        BY <2>6, <1>0, <4>1, <4>2, <4>3, <4>4, <4>5 DEF TypeOK, Places, RunType
    <3>2. LogTells' /\ ClusterKept'
      BY <2>6, <1>0, Restarts, Fscked DEF TypeOK, ClusterKept, Wipeable, Containers,
           Damages, RunType, LogTells, Quiet, ClusterPebble, StopFula, stack, run, path, files,
           Fault, NoFault, Nothing, Done, Goto
    <3>. QED
      BY <3>1, <3>2 DEF Inv
  <2>7. CASE WipeCluster
    <3>1. TypeOK'
      <4>1. damage' \in [Containers -> Damages \cup {"none"}]
        BY <2>7, <1>0, Restarts, Fscked, Wiped DEF TypeOK, Containers, Damages, RunType,
             LogTells, Quiet, WipeCluster, Restarted, StopFula, stack, run, path, files, Fault,
             NoFault, Nothing, Done, Goto
      <4>2. RunType(fula', stage', up', log')
        BY <2>7, <1>0, Restarts, Fscked, Wiped DEF TypeOK, Containers, Damages, RunType,
             LogTells, Quiet, WipeCluster, Restarted, StopFula, stack, run, path, files, Fault,
             NoFault, Nothing, Done, Goto
      <4>3. lost' \subseteq Containers /\ faults' \in 0..MaxFaults
        BY <2>7, <1>0, Restarts, Fscked, Wiped DEF TypeOK, Containers, Damages, RunType,
             LogTells, Quiet, WipeCluster, Restarted, StopFula, stack, run, path, files, Fault,
             NoFault, Nothing, Done, Goto
      <4>4. /\ yaml' \in {"good", "bad", "empty", "absent"}
            /\ backup' \in {"good", "bad", "empty", "absent"}
            /\ ident' \in {"file", "absent", "dir"}
        BY <2>7, <1>0, Restarts, Fscked, Wiped DEF TypeOK, Containers, Damages, RunType,
             LogTells, Quiet, WipeCluster, Restarted, StopFula, stack, run, path, files, Fault,
             NoFault, Nothing, Done, Goto
      <4>5. blox' \in BOOLEAN /\ fixed' \in BOOLEAN /\ rewritten' \in BOOLEAN /\ pc' \in Places
        BY <2>7, <1>0, Restarts, Fscked, Wiped DEF TypeOK, Places, Containers, Damages, RunType,
             LogTells, Quiet, WipeCluster, Restarted, StopFula, stack, run, path, files, Fault,
             NoFault, Nothing, Done, Goto
      <4>. QED
        BY <2>7, <1>0, <4>1, <4>2, <4>3, <4>4, <4>5 DEF TypeOK, Places, RunType
    <3>2. LogTells' /\ ClusterKept'
      BY <2>7, <1>0, Restarts, Fscked, Wiped DEF TypeOK, ClusterKept, Wipeable, Containers,
           Damages, RunType, LogTells, Quiet, WipeCluster, Restarted, StopFula, stack, run,
           path, files, Fault, NoFault, Nothing, Done, Goto
    <3>. QED
      BY <3>1, <3>2 DEF Inv
  <2>8. CASE ClusterSound
    <3>1. TypeOK'
      BY <2>8, <1>0 DEF TypeOK, Containers, Damages, RunType, LogTells, Quiet, ClusterSound,
           stack, run, path, files, Fault, NoFault, Nothing, Done, Goto
    <3>2. LogTells' /\ ClusterKept'
      BY <2>8, <1>0 DEF TypeOK, ClusterKept, Wipeable, Containers, Damages, RunType,
           LogTells, Quiet, ClusterSound, stack, run, path, files, Fault, NoFault, Nothing, Done,
           Goto
    <3>. QED
      BY <3>1, <3>2 DEF Inv
  <2>. QED
    BY <1>1, <2>1, <2>2, <2>3, <2>4, <2>5, <2>6, <2>7, <2>8, <2>9, <2>10 DEF FixCluster
<1>2. CASE FixHost
  <2>1. CASE HostMinor
    <3>1. TypeOK'
      <4>1. damage' \in [Containers -> Damages \cup {"none"}] /\ lost' \subseteq Containers
        BY <2>1, <1>0, Restarts DEF TypeOK, Containers, Damages, RunType, LogTells, Quiet,
             HostMinor, stack, run, path, files, Fault, NoFault, Nothing, Done, Goto
      <4>2. RunType(fula', stage', up', log')
        BY <2>1, <1>0, Restarts DEF TypeOK, Containers, Damages, RunType, LogTells, Quiet,
             HostMinor, stack, run, path, files, Fault, NoFault, Nothing, Done, Goto
      <4>3. /\ yaml' \in {"good", "bad", "empty", "absent"}
            /\ backup' \in {"good", "bad", "empty", "absent"}
            /\ ident' \in {"file", "absent", "dir"}
        BY <2>1, <1>0, Restarts DEF TypeOK, Containers, Damages, RunType, LogTells, Quiet,
             HostMinor, stack, run, path, files, Fault, NoFault, Nothing, Done, Goto
      <4>4. blox' \in BOOLEAN /\ fixed' \in BOOLEAN /\ rewritten' \in BOOLEAN
        BY <2>1, <1>0, Restarts DEF TypeOK, Containers, Damages, RunType, LogTells, Quiet,
             HostMinor, stack, run, path, files, Fault, NoFault, Nothing, Done, Goto
      <4>5. /\ pc' \in Places
            /\ faults' \in 0..MaxFaults
        BY <2>1, <1>0, Restarts DEF TypeOK, Places, Containers, Damages, RunType, LogTells, Quiet,
             HostMinor, stack, run, path, files, Fault, NoFault, Nothing, Done, Goto
      <4>. QED
        BY <2>1, <1>0, <4>1, <4>2, <4>3, <4>4, <4>5 DEF TypeOK, Places, RunType
    <3>2. LogTells' /\ ClusterKept'
      BY <2>1, <1>0, Restarts DEF TypeOK, ClusterKept, Wipeable, Containers, Damages,
           RunType, LogTells, Quiet, HostMinor, stack, run, path, files, Fault, NoFault, Nothing,
           Done, Goto
    <3>. QED
      BY <3>1, <3>2 DEF Inv
  <2>2. CASE HostPebble
    <3>1. TypeOK'
      <4>1. damage' \in [Containers -> Damages \cup {"none"}] /\ lost' \subseteq Containers
        BY <2>2, <1>0, Restarts DEF TypeOK, Containers, Damages, RunType, LogTells, Quiet,
             HostPebble, stack, run, path, files, Fault, NoFault, Nothing, Done, Goto
      <4>2. RunType(fula', stage', up', log')
        BY <2>2, <1>0, Restarts DEF TypeOK, Containers, Damages, RunType, LogTells, Quiet,
             HostPebble, stack, run, path, files, Fault, NoFault, Nothing, Done, Goto
      <4>3. /\ yaml' \in {"good", "bad", "empty", "absent"}
           /\ backup' \in {"good", "bad", "empty", "absent"}
           /\ ident' \in {"file", "absent", "dir"}
        BY <2>2, <1>0, Restarts DEF TypeOK, Containers, Damages, RunType, LogTells, Quiet,
             HostPebble, stack, run, path, files, Fault, NoFault, Nothing, Done, Goto
      <4>4. rewritten' \in BOOLEAN /\ blox' \in BOOLEAN /\ fixed' \in BOOLEAN
        BY <2>2, <1>0, Restarts DEF TypeOK, Containers, Damages, RunType, LogTells, Quiet,
             HostPebble, stack, run, path, files, Fault, NoFault, Nothing, Done, Goto
      <4>5. /\ pc' \in Places
           /\ faults' \in 0..MaxFaults
        BY <2>2, <1>0, Restarts DEF TypeOK, Places, Containers, Damages, RunType, LogTells, Quiet,
             HostPebble, stack, run, path, files, Fault, NoFault, Nothing, Done, Goto
      <4>. QED
        BY <2>2, <1>0, <4>1, <4>2, <4>3, <4>4, <4>5 DEF TypeOK, Places, RunType
    <3>2. LogTells' /\ ClusterKept'
      BY <2>2, <1>0, Restarts DEF TypeOK, ClusterKept, Wipeable, Containers, Damages,
           RunType, LogTells, Quiet, HostPebble, stack, run, path, files, Fault, NoFault, Nothing,
           Done, Goto
    <3>. QED
      BY <3>1, <3>2 DEF Inv
  <2>3. CASE WipeHost
    <3>1. TypeOK'
      <4>1. damage' \in [Containers -> Damages \cup {"none"}] /\ lost' \subseteq Containers
        BY <2>3, <1>0, Restarts, Wiped DEF TypeOK, Containers, Damages, RunType, LogTells,
             Quiet, WipeHost, stack, run, path, files, Fault, NoFault, Nothing, Done, Goto
      <4>2. RunType(fula', stage', up', log')
        BY <2>3, <1>0, Restarts, Wiped DEF TypeOK, Containers, Damages, RunType, LogTells,
             Quiet, WipeHost, stack, run, path, files, Fault, NoFault, Nothing, Done, Goto
      <4>3. /\ yaml' \in {"good", "bad", "empty", "absent"}
           /\ backup' \in {"good", "bad", "empty", "absent"}
           /\ ident' \in {"file", "absent", "dir"}
        BY <2>3, <1>0, Restarts, Wiped DEF TypeOK, Containers, Damages, RunType, LogTells,
             Quiet, WipeHost, stack, run, path, files, Fault, NoFault, Nothing, Done, Goto
      <4>4. rewritten' \in BOOLEAN /\ blox' \in BOOLEAN /\ fixed' \in BOOLEAN
        BY <2>3, <1>0, Restarts, Wiped DEF TypeOK, Containers, Damages, RunType, LogTells,
             Quiet, WipeHost, stack, run, path, files, Fault, NoFault, Nothing, Done, Goto
      <4>5. /\ pc' \in Places
           /\ faults' \in 0..MaxFaults
        BY <2>3, <1>0, Restarts, Wiped DEF TypeOK, Places, Containers, Damages, RunType, LogTells,
             Quiet, WipeHost, stack, run, path, files, Fault, NoFault, Nothing, Done, Goto
      <4>. QED
        BY <2>3, <1>0, <4>1, <4>2, <4>3, <4>4, <4>5 DEF TypeOK, Places, RunType
    <3>2. LogTells' /\ ClusterKept'
      BY <2>3, <1>0, Restarts, Wiped DEF TypeOK, ClusterKept, Wipeable, Containers, Damages,
           RunType, LogTells, Quiet, WipeHost, stack, run, path, files, Fault, NoFault, Nothing,
           Done, Goto
    <3>. QED
      BY <3>1, <3>2 DEF Inv
  <2>4. CASE HostSound
    <3>1. TypeOK'
      BY <2>4, <1>0 DEF TypeOK, Containers, Damages, RunType, LogTells, Quiet, HostSound,
           stack, run, path, files, Fault, NoFault, Nothing, Done, Goto
    <3>2. LogTells' /\ ClusterKept'
      BY <2>4, <1>0 DEF TypeOK, ClusterKept, Wipeable, Containers, Damages, RunType,
           LogTells, Quiet, HostSound, stack, run, path, files, Fault, NoFault, Nothing, Done,
           Goto
    <3>. QED
      BY <3>1, <3>2 DEF Inv
  <2>. QED
    BY <1>2, <2>1, <2>2, <2>3, <2>4 DEF FixHost
<1>3. CASE FixConfig
  <2>1. CASE FixYaml
    <3>1. TypeOK'
      <4>1. damage' \in [Containers -> Damages \cup {"none"}] /\ lost' \subseteq Containers
        BY <2>1, <1>0, Restarts DEF TypeOK, Containers, Damages, RunType, LogTells, Quiet,
             FixYaml, Repaired, Valid, stack, run, path, files, Fault, NoFault, Nothing, Done, Goto
      <4>2. RunType(fula', stage', up', log')
        BY <2>1, <1>0, Restarts DEF TypeOK, Containers, Damages, RunType, LogTells, Quiet,
             FixYaml, Repaired, Valid, stack, run, path, files, Fault, NoFault, Nothing, Done, Goto
      <4>3. /\ yaml' \in {"good", "bad", "empty", "absent"}
            /\ backup' \in {"good", "bad", "empty", "absent"}
            /\ ident' \in {"file", "absent", "dir"}
        BY <2>1, <1>0, Restarts DEF TypeOK, Containers, Damages, RunType, LogTells, Quiet,
             FixYaml, Repaired, Valid, stack, run, path, files, Fault, NoFault, Nothing, Done, Goto
      <4>4. blox' \in BOOLEAN /\ fixed' \in BOOLEAN /\ rewritten' \in BOOLEAN
        BY <2>1, <1>0, Restarts DEF TypeOK, Containers, Damages, RunType, LogTells, Quiet,
             FixYaml, Repaired, Valid, stack, run, path, files, Fault, NoFault, Nothing, Done, Goto
      <4>5. /\ pc' \in Places
            /\ faults' \in 0..MaxFaults
        BY <2>1, <1>0, Restarts DEF TypeOK, Places, Containers, Damages, RunType, LogTells, Quiet,
             FixYaml, Repaired, Valid, stack, run, path, files, Fault, NoFault, Nothing, Done, Goto
      <4>. QED
        BY <2>1, <1>0, <4>1, <4>2, <4>3, <4>4, <4>5 DEF TypeOK, Places, RunType
    <3>2. LogTells' /\ ClusterKept'
      BY <2>1, <1>0, Restarts DEF TypeOK, ClusterKept, Wipeable, Containers, Damages,
           RunType, LogTells, Quiet, FixYaml, Repaired, Valid, stack, run, path, files, Fault,
           NoFault, Nothing, Done, Goto
    <3>. QED
      BY <3>1, <3>2 DEF Inv
  <2>2. CASE YamlSound
    <3>1. TypeOK'
      BY <2>2, <1>0 DEF TypeOK, Containers, Damages, RunType, LogTells, Quiet, YamlSound,
           stack, run, path, files, Fault, NoFault, Nothing, Done, Goto
    <3>2. LogTells' /\ ClusterKept'
      BY <2>2, <1>0 DEF TypeOK, ClusterKept, Wipeable, Containers, Damages, RunType,
           LogTells, Quiet, YamlSound, stack, run, path, files, Fault, NoFault, Nothing, Done,
           Goto
    <3>. QED
      BY <3>1, <3>2 DEF Inv
  <2>3. CASE RestoreYaml
    <3>1. TypeOK'
      BY <2>3, <1>0, Restarts DEF TypeOK, Containers, Damages, RunType, LogTells, Quiet,
           RestoreYaml, Valid, stack, run, path, files, Fault, NoFault, Nothing, Done, Goto
    <3>2. LogTells' /\ ClusterKept'
      BY <2>3, <1>0, Restarts DEF TypeOK, ClusterKept, Wipeable, Containers, Damages,
           RunType, LogTells, Quiet, RestoreYaml, Valid, stack, run, path, files, Fault, NoFault,
           Nothing, Done, Goto
    <3>. QED
      BY <3>1, <3>2 DEF Inv
  <2>4. CASE BackUp
    <3>1. TypeOK'
      BY <2>4, <1>0 DEF TypeOK, Containers, Damages, RunType, LogTells, Quiet, BackUp,
           Valid, stack, run, path, files, Fault, NoFault, Nothing, Done, Goto
    <3>2. LogTells' /\ ClusterKept'
      BY <2>4, <1>0 DEF TypeOK, ClusterKept, Wipeable, Containers, Damages, RunType,
           LogTells, Quiet, BackUp, Valid, stack, run, path, files, Fault, NoFault, Nothing, Done,
           Goto
    <3>. QED
      BY <3>1, <3>2 DEF Inv
  <2>. QED
    BY <1>3, <2>1, <2>2, <2>3, <2>4 DEF FixConfig
<1>4. CASE FixLocal
  <2>1. CASE LocalMinor
    <3>1. TypeOK'
      <4>1. damage' \in [Containers -> Damages \cup {"none"}] /\ lost' \subseteq Containers
        BY <2>1, <1>0 DEF TypeOK, Containers, Damages, RunType, LogTells, Quiet, LocalMinor,
             stack, run, path, files, Fault, NoFault, Nothing, Done, Goto
      <4>2. RunType(fula', stage', up', log')
        BY <2>1, <1>0 DEF TypeOK, Containers, Damages, RunType, LogTells, Quiet, LocalMinor,
             stack, run, path, files, Fault, NoFault, Nothing, Done, Goto
      <4>3. /\ yaml' \in {"good", "bad", "empty", "absent"}
            /\ backup' \in {"good", "bad", "empty", "absent"}
            /\ ident' \in {"file", "absent", "dir"}
        BY <2>1, <1>0 DEF TypeOK, Containers, Damages, RunType, LogTells, Quiet, LocalMinor,
             stack, run, path, files, Fault, NoFault, Nothing, Done, Goto
      <4>4. blox' \in BOOLEAN /\ fixed' \in BOOLEAN /\ rewritten' \in BOOLEAN
        BY <2>1, <1>0 DEF TypeOK, Containers, Damages, RunType, LogTells, Quiet, LocalMinor,
             stack, run, path, files, Fault, NoFault, Nothing, Done, Goto
      <4>5. /\ pc' \in Places
            /\ faults' \in 0..MaxFaults
        BY <2>1, <1>0 DEF TypeOK, Places, Containers, Damages, RunType, LogTells, Quiet, LocalMinor,
             stack, run, path, files, Fault, NoFault, Nothing, Done, Goto
      <4>. QED
        BY <2>1, <1>0, <4>1, <4>2, <4>3, <4>4, <4>5 DEF TypeOK, Places, RunType
    <3>2. LogTells' /\ ClusterKept'
      BY <2>1, <1>0 DEF TypeOK, ClusterKept, Wipeable, Containers, Damages, RunType,
           LogTells, Quiet, LocalMinor, stack, run, path, files, Fault, NoFault, Nothing, Done,
           Goto
    <3>. QED
      BY <3>1, <3>2 DEF Inv
  <2>2. CASE LocalPebble
    <3>1. TypeOK'
      <4>1. damage' \in [Containers -> Damages \cup {"none"}]
        BY <2>2, <1>0, Fscked DEF TypeOK, Containers, Damages, RunType, LogTells, Quiet,
             LocalPebble, stack, run, path, files, Fault, NoFault, Nothing, Done, Goto
      <4>2. RunType(fula', stage', up', log')
        BY <2>2, <1>0, Fscked DEF TypeOK, Containers, Damages, RunType, LogTells, Quiet,
             LocalPebble, stack, run, path, files, Fault, NoFault, Nothing, Done, Goto
      <4>3. lost' \subseteq Containers /\ faults' \in 0..MaxFaults
        BY <2>2, <1>0, Fscked DEF TypeOK, Containers, Damages, RunType, LogTells, Quiet,
             LocalPebble, stack, run, path, files, Fault, NoFault, Nothing, Done, Goto
      <4>. QED
        BY <2>2, <1>0, <4>1, <4>2, <4>3 DEF TypeOK, Containers, Damages, RunType, LogTells,
             Quiet, LocalPebble, stack, run, path, files, Fault, NoFault, Nothing, Done, Goto
    <3>2. LogTells' /\ ClusterKept'
      BY <2>2, <1>0, Fscked DEF TypeOK, ClusterKept, Wipeable, Containers, Damages, RunType,
           LogTells, Quiet, LocalPebble, stack, run, path, files, Fault, NoFault, Nothing, Done,
           Goto
    <3>. QED
      BY <3>1, <3>2 DEF Inv
  <2>3. CASE WipeLocal
    <3>1. TypeOK'
      <4>1. damage' \in [Containers -> Damages \cup {"none"}]
        BY <2>3, <1>0, Fscked, Wiped DEF TypeOK, Containers, Damages, RunType, LogTells,
             Quiet, WipeLocal, stack, run, path, files, Fault, NoFault, Nothing, Done, Goto
      <4>2. RunType(fula', stage', up', log')
        BY <2>3, <1>0, Fscked, Wiped DEF TypeOK, Containers, Damages, RunType, LogTells,
             Quiet, WipeLocal, stack, run, path, files, Fault, NoFault, Nothing, Done, Goto
      <4>3. lost' \subseteq Containers /\ faults' \in 0..MaxFaults
        BY <2>3, <1>0, Fscked, Wiped DEF TypeOK, Containers, Damages, RunType, LogTells,
             Quiet, WipeLocal, stack, run, path, files, Fault, NoFault, Nothing, Done, Goto
      <4>. QED
        BY <2>3, <1>0, <4>1, <4>2, <4>3 DEF TypeOK, Containers, Damages, RunType, LogTells,
             Quiet, WipeLocal, stack, run, path, files, Fault, NoFault, Nothing, Done, Goto
    <3>2. LogTells' /\ ClusterKept'
      BY <2>3, <1>0, Fscked, Wiped DEF TypeOK, ClusterKept, Wipeable, Containers, Damages,
           RunType, LogTells, Quiet, WipeLocal, stack, run, path, files, Fault, NoFault, Nothing,
           Done, Goto
    <3>. QED
      BY <3>1, <3>2 DEF Inv
  <2>4. CASE LocalStart
    <3>1. TypeOK'
      <4>1. damage' \in [Containers -> Damages \cup {"none"}] /\ lost' \subseteq Containers
        BY <2>4, <1>0 DEF TypeOK, Containers, Damages, RunType, LogTells, Quiet,
             LocalStart, stack, run, path, files, Fault, NoFault, Nothing, Done, Goto
      <4>2. RunType(fula', stage', up', log')
        BY <2>4, <1>0 DEF TypeOK, Containers, Damages, RunType, LogTells, Quiet,
             LocalStart, stack, run, path, files, Fault, NoFault, Nothing, Done, Goto
      <4>3. /\ yaml' \in {"good", "bad", "empty", "absent"}
           /\ backup' \in {"good", "bad", "empty", "absent"}
           /\ ident' \in {"file", "absent", "dir"}
        BY <2>4, <1>0 DEF TypeOK, Containers, Damages, RunType, LogTells, Quiet,
             LocalStart, stack, run, path, files, Fault, NoFault, Nothing, Done, Goto
      <4>4. rewritten' \in BOOLEAN /\ blox' \in BOOLEAN /\ fixed' \in BOOLEAN
        BY <2>4, <1>0 DEF TypeOK, Containers, Damages, RunType, LogTells, Quiet,
             LocalStart, stack, run, path, files, Fault, NoFault, Nothing, Done, Goto
      <4>5. /\ pc' \in Places
           /\ faults' \in 0..MaxFaults
        BY <2>4, <1>0 DEF TypeOK, Places, Containers, Damages, RunType, LogTells, Quiet,
             LocalStart, stack, run, path, files, Fault, NoFault, Nothing, Done, Goto
      <4>. QED
        BY <2>4, <1>0, <4>1, <4>2, <4>3, <4>4, <4>5 DEF TypeOK, Places, RunType
    <3>2. LogTells' /\ ClusterKept'
      BY <2>4, <1>0 DEF TypeOK, ClusterKept, Wipeable, Containers, Damages, RunType,
           LogTells, Quiet, LocalStart, stack, run, path, files, Fault, NoFault, Nothing, Done,
           Goto
    <3>. QED
      BY <3>1, <3>2 DEF Inv
  <2>. QED
    BY <1>4, <2>1, <2>2, <2>3, <2>4 DEF FixLocal
<1>5. CASE ClearIdentity
  <2>1. TypeOK'
    BY <1>5, <1>0 DEF TypeOK, Containers, Damages, RunType, LogTells, Quiet, ClearIdentity,
         stack, run, path, files, Fault, NoFault, Nothing, Done, Goto
  <2>2. LogTells' /\ ClusterKept'
    BY <1>5, <1>0 DEF TypeOK, ClusterKept, Wipeable, Containers, Damages, RunType, LogTells,
         Quiet, ClearIdentity, stack, run, path, files, Fault, NoFault, Nothing, Done, Goto
  <2>. QED
    BY <2>1, <2>2 DEF Inv
<1>6. CASE InitCluster
  <2>1. TypeOK'
    <3>1. damage' \in [Containers -> Damages \cup {"none"}] /\ lost' \subseteq Containers
      BY <1>6, <1>0 DEF TypeOK, Containers, Damages, RunType, LogTells, Quiet, InitCluster,
           stack, run, path, files, Fault, NoFault, Nothing, Done, Goto
    <3>2. RunType(fula', stage', up', log')
      BY <1>6, <1>0 DEF TypeOK, Containers, Damages, RunType, LogTells, Quiet, InitCluster,
           stack, run, path, files, Fault, NoFault, Nothing, Done, Goto
    <3>3. /\ yaml' \in {"good", "bad", "empty", "absent"}
         /\ backup' \in {"good", "bad", "empty", "absent"}
         /\ ident' \in {"file", "absent", "dir"}
      BY <1>6, <1>0 DEF TypeOK, Containers, Damages, RunType, LogTells, Quiet, InitCluster,
           stack, run, path, files, Fault, NoFault, Nothing, Done, Goto
    <3>4. rewritten' \in BOOLEAN /\ blox' \in BOOLEAN /\ fixed' \in BOOLEAN
      <4>1. rewritten' = rewritten \/ rewritten' = (pc \in {"id_blox", "id_fula"})
        BY <1>6 DEF InitCluster, path
      <4>2. CASE rewritten' = rewritten
        BY <4>2, <1>6, <1>0 DEF InitCluster, TypeOK
      <4>3. CASE rewritten' = (pc \in {"id_blox", "id_fula"})
        <5>1. rewritten' \in BOOLEAN
          BY <4>3
        <5>. QED
          BY <5>1, <1>6, <1>0 DEF InitCluster, TypeOK
      <4>. QED
        BY <4>1, <4>2, <4>3
    <3>5. /\ pc' \in Places
         /\ faults' \in 0..MaxFaults
      BY <1>6, <1>0 DEF TypeOK, Places, Containers, Damages, RunType, LogTells, Quiet, InitCluster,
           stack, run, path, files, Fault, NoFault, Nothing, Done, Goto
    <3>. QED
      BY <1>6, <1>0, <3>1, <3>2, <3>3, <3>4, <3>5 DEF TypeOK, Places, RunType
  <2>2. LogTells' /\ ClusterKept'
    BY <1>6, <1>0 DEF TypeOK, ClusterKept, Wipeable, Containers, Damages, RunType, LogTells,
         Quiet, InitCluster, stack, run, path, files, Fault, NoFault, Nothing, Done, Goto
  <2>. QED
    BY <2>1, <2>2 DEF Inv
<1>7. CASE BloxMounts
  <2>1. TypeOK'
    BY <1>7, <1>0 DEF TypeOK, Containers, Damages, RunType, LogTells, Quiet, BloxMounts,
         stack, run, path, files, Fault, NoFault, Nothing, Done, Goto
  <2>2. LogTells' /\ ClusterKept'
    BY <1>7, <1>0 DEF TypeOK, ClusterKept, Wipeable, Containers, Damages, RunType, LogTells,
         Quiet, BloxMounts, stack, run, path, files, Fault, NoFault, Nothing, Done, Goto
  <2>. QED
    BY <2>1, <2>2 DEF Inv
<1>8. CASE SetUpAgain
  <2>1. TypeOK'
    BY <1>8, <1>0 DEF TypeOK, Containers, Damages, RunType, LogTells, Quiet, SetUpAgain,
         stack, run, path, files, Fault, NoFault, Nothing, Done, Goto
  <2>2. LogTells' /\ ClusterKept'
    BY <1>8, <1>0 DEF TypeOK, ClusterKept, Wipeable, Containers, Damages, RunType, LogTells,
         Quiet, SetUpAgain, stack, run, path, files, Fault, NoFault, Nothing, Done, Goto
  <2>. QED
    BY <2>1, <2>2 DEF Inv
<1>9. CASE Harm
  <2>1. TypeOK'
    BY <1>9, <1>0 DEF TypeOK, Containers, Damages, RunType, LogTells, Quiet, Harm, Damages,
         stack, run, path, files, Fault, NoFault, Nothing, Done, Goto
  <2>2. LogTells' /\ ClusterKept'
    BY <1>9, <1>0 DEF TypeOK, ClusterKept, Wipeable, Containers, Damages, RunType, LogTells,
         Quiet, Harm, Damages, stack, run, path, files, Fault, NoFault, Nothing, Done, Goto
  <2>. QED
    BY <2>1, <2>2 DEF Inv
<1>17. CASE NetChanges
  <2>1. TypeOK'
    BY <1>17, <1>0 DEF TypeOK, NetChanges, stack, run, path, files, Fault, NoFault
  <2>2. LogTells' /\ ClusterKept'
    BY <1>17, <1>0 DEF LogTells, Quiet, ClusterKept, NetChanges, stack, run, path, files
  <2>. QED
    BY <2>1, <2>2 DEF Inv
<1>10. CASE WatchdogDies
  <2>1. TypeOK'
    <3>1. damage' \in [Containers -> Damages \cup {"none"}] /\ lost' \subseteq Containers
      BY <1>10, <1>0 DEF TypeOK, Containers, Damages, RunType, LogTells, Quiet, WatchdogDies,
           stack, run, path, files, Fault, NoFault, Nothing, Done, Goto
    <3>2. RunType(fula', stage', up', log')
      BY <1>10, <1>0 DEF TypeOK, Containers, Damages, RunType, LogTells, Quiet, WatchdogDies,
           stack, run, path, files, Fault, NoFault, Nothing, Done, Goto
    <3>3. /\ yaml' \in {"good", "bad", "empty", "absent"}
          /\ backup' \in {"good", "bad", "empty", "absent"}
          /\ ident' \in {"file", "absent", "dir"}
      BY <1>10, <1>0 DEF TypeOK, Containers, Damages, RunType, LogTells, Quiet, WatchdogDies,
           stack, run, path, files, Fault, NoFault, Nothing, Done, Goto
    <3>4. blox' \in BOOLEAN /\ fixed' \in BOOLEAN /\ rewritten' \in BOOLEAN
      BY <1>10, <1>0 DEF TypeOK, Containers, Damages, RunType, LogTells, Quiet, WatchdogDies,
           stack, run, path, files, Fault, NoFault, Nothing, Done, Goto
    <3>5. pc' \in Places /\ faults' \in 0..MaxFaults
      BY <1>10, <1>0 DEF TypeOK, Places, Containers, Damages, RunType, LogTells, Quiet, WatchdogDies,
           stack, run, path, files, Fault, NoFault, Nothing, Done, Goto
    <3>. QED
      BY <1>10, <1>0, <3>1, <3>2, <3>3, <3>4, <3>5 DEF TypeOK, Places, RunType
  <2>2. LogTells' /\ ClusterKept'
    BY <1>10, <1>0 DEF TypeOK, ClusterKept, Wipeable, Containers, Damages, RunType,
         LogTells, Quiet, WatchdogDies, stack, run, path, files, Fault, NoFault, Nothing, Done,
         Goto
  <2>. QED
    BY <2>1, <2>2 DEF Inv
<1>11. CASE Reboot
  <2>1. TypeOK'
    BY <1>11, <1>0, Restarts DEF TypeOK, Containers, Damages, RunType, LogTells, Quiet,
         Reboot, stack, run, path, files, Fault, NoFault, Nothing, Done, Goto
  <2>2. LogTells' /\ ClusterKept'
    BY <1>11, <1>0, Restarts DEF TypeOK, ClusterKept, Wipeable, Containers, Damages,
         RunType, LogTells, Quiet, Reboot, stack, run, path, files, Fault, NoFault, Nothing, Done,
         Goto
  <2>. QED
    BY <2>1, <2>2 DEF Inv
<1>12. CASE Main
  <2>1. TypeOK'
    <3>1. damage' \in [Containers -> Damages \cup {"none"}] /\ lost' \subseteq Containers
      BY <1>12, <1>0, Fscked DEF TypeOK, Containers, Damages, RunType, LogTells, Quiet,
           Main, stack, run, path, files, Fault, NoFault, Nothing, Done, Goto
    <3>2. RunType(fula', stage', up', log')
      BY <1>12, <1>0, Fscked DEF TypeOK, Containers, Damages, RunType, LogTells, Quiet,
           Main, stack, run, path, files, Fault, NoFault, Nothing, Done, Goto
    <3>3. /\ yaml' \in {"good", "bad", "empty", "absent"}
         /\ backup' \in {"good", "bad", "empty", "absent"}
         /\ ident' \in {"file", "absent", "dir"}
      BY <1>12, <1>0, Fscked DEF TypeOK, Containers, Damages, RunType, LogTells, Quiet,
           Main, stack, run, path, files, Fault, NoFault, Nothing, Done, Goto
    <3>4. rewritten' \in BOOLEAN /\ blox' \in BOOLEAN /\ fixed' \in BOOLEAN
      BY <1>12, <1>0, Fscked DEF TypeOK, Containers, Damages, RunType, LogTells, Quiet,
           Main, stack, run, path, files, Fault, NoFault, Nothing, Done, Goto
    <3>5. /\ pc' \in Places
         /\ faults' \in 0..MaxFaults
      BY <1>12, <1>0, Fscked DEF TypeOK, Places, Containers, Damages, RunType, LogTells, Quiet,
           Main, stack, run, path, files, Fault, NoFault, Nothing, Done, Goto
    <3>. QED
      BY <1>12, <1>0, <3>1, <3>2, <3>3, <3>4, <3>5 DEF TypeOK, Places, RunType
  <2>2. LogTells' /\ ClusterKept'
    BY <1>12, <1>0, Fscked DEF TypeOK, ClusterKept, Wipeable, Containers, Damages, RunType,
         LogTells, Quiet, Main, stack, run, path, files, Fault, NoFault, Nothing, Done, Goto
  <2>. QED
    BY <2>1, <2>2 DEF Inv
<1>13. CASE Monitor
  <2>1. TypeOK'
    <3>1. damage' \in [Containers -> Damages \cup {"none"}]
      BY <1>13, <1>0, Restarts, Fscked DEF TypeOK, Containers, Damages, RunType, LogTells,
           Quiet, Monitor, stack, run, path, files, Fault, NoFault, Nothing, Done, Goto
    <3>2. RunType(fula', stage', up', log')
      BY <1>13, <1>0, Restarts, Fscked DEF TypeOK, Containers, Damages, RunType, LogTells,
           Quiet, Monitor, stack, run, path, files, Fault, NoFault, Nothing, Done, Goto
    <3>3. lost' \subseteq Containers /\ faults' \in 0..MaxFaults
      BY <1>13, <1>0, Restarts, Fscked DEF TypeOK, Containers, Damages, RunType, LogTells,
           Quiet, Monitor, stack, run, path, files, Fault, NoFault, Nothing, Done, Goto
    <3>. QED
      BY <1>13, <1>0, <3>1, <3>2, <3>3 DEF TypeOK, Containers, Damages, RunType, LogTells,
           Quiet, Monitor, stack, run, path, files, Fault, NoFault, Nothing, Done, Goto
  <2>2. LogTells' /\ ClusterKept'
    BY <1>13, <1>0, Restarts, Fscked DEF TypeOK, ClusterKept, Wipeable, Containers, Damages,
         RunType, LogTells, Quiet, Monitor, stack, run, path, files, Fault, NoFault, Nothing,
         Done, Goto
  <2>. QED
    BY <2>1, <2>2 DEF Inv
<1>14. CASE Decide
  <2>1. TypeOK'
    BY <1>14, <1>0 DEF TypeOK, Containers, Damages, RunType, LogTells, Quiet, Decide, stack,
         run, path, files, Fault, NoFault, Nothing, Done, Goto
  <2>2. LogTells' /\ ClusterKept'
    BY <1>14, <1>0 DEF TypeOK, ClusterKept, Wipeable, Containers, Damages, RunType,
         LogTells, Quiet, Decide, stack, run, path, files, Fault, NoFault, Nothing, Done, Goto
  <2>. QED
    BY <2>1, <2>2 DEF Inv
<1>15. CASE \E c \in Containers : Prints(c)
  <2>1. PICK c \in Containers : Prints(c)
    BY <1>15
  <2>2. TypeOK'
    BY <2>1, <1>0 DEF Prints, TypeOK, Containers, path, files
  <2>3. LogTells' /\ ClusterKept'
    BY <2>1, <1>0 DEF Prints, TypeOK, LogTells, Quiet, ClusterKept, Wipeable, Containers,
         Damages, path, files
  <2>. QED
    BY <2>2, <2>3 DEF Inv
<1>16. CASE UNCHANGED vars
  BY <1>16, <1>0 DEF vars, stack, run, path, files, Inv, TypeOK, LogTells, Quiet, ClusterKept
<1>. QED
  BY <1>1, <1>2, <1>3, <1>4, <1>5, <1>6, <1>7, <1>8, <1>9, <1>10, <1>11, <1>12, <1>13,
       <1>14, <1>15, <1>16, <1>17 DEF Next, Round

LEMMA Invariance == Spec => []Inv
<1>. QED
  BY InitInv, Inductive, PTL DEF Spec

\* The variables have their types in every reachable state; in particular nothing runs
\* while fula.service is stopped, which is what the repairs stop it for.
THEOREM TypeCorrect == Spec => []TypeOK
<1>1. Inv => TypeOK
  BY DEF Inv
<1>. QED
  BY <1>1, Invariance, PTL

\* However many faults there are, the watchdog wipes no sound database of ipfs-cluster.
THEOREM ClusterIsKept == Spec => []ClusterKept
<1>1. Inv => ClusterKept
  BY DEF Inv
<1>. QED
  BY <1>1, Invariance, PTL

\* What is about to be removed is no file, unless go-fula has put one there while it was
\* being stopped; and when it has been stopped it puts none there.
Removes ==
    /\ pc \in {"id_blox", "id_fula", "id_remove"} => ident # "file" \/ rewritten
    /\ pc = "id_remove" => ~fula

Repair == {"id_blox", "id_fula", "id_remove"}

LEMMA RemovesNext == ASSUME Inv, Removes, [Next]_vars PROVE Removes'
<1>1. CASE IdentityIsDir
  BY <1>1 DEF IdentityIsDir, Nothing, Removes, path
<1>2. CASE StopBloxFirst
  BY <1>2 DEF StopBloxFirst, Nothing, Done, Removes
<1>3. CASE StopFulaThen
  BY <1>3 DEF StopFulaThen, StopFula, Nothing, Done, Removes
<1>4. CASE Round /\ ~IdentityIsDir /\ ~StopBloxFirst /\ ~StopFulaThen
  <2>1. pc' \notin Repair
    BY <1>4 DEF Round, Main, Monitor, FixCluster, FixHost, FixConfig, FixLocal, Repair,
         RemoveIdentityDir, AwaitIdentity, ClusterMinor, RemoveClusterFile, ClusterPebble,
         WipeCluster, ClusterSound, HostMinor, HostPebble, WipeHost, HostSound, FixYaml,
         YamlSound, RestoreYaml, BackUp, LocalMinor, LocalPebble, WipeLocal, LocalStart,
         Decide, Goto, Nothing, Done
  <2>. QED
    BY <2>1 DEF Removes, Repair
<1>5. CASE WatchdogDies \/ Reboot
  BY <1>5 DEF WatchdogDies, Reboot, Goto, Removes
<1>6. CASE InitCluster
  <2>1. fula /\ fula' = fula /\ pc' = pc
    BY <1>6 DEF InitCluster
  <2>2. path' = path \/ (ident = "absent" /\ rewritten' = (pc \in {"id_blox", "id_fula"}))
    BY <1>6 DEF InitCluster
  <2>. QED
    BY <2>1, <2>2 DEF Removes, path
<1>7. CASE ClearIdentity \/ BloxMounts
  BY <1>7 DEF ClearIdentity, BloxMounts, stack, run, Removes
<1>8. CASE SetUpAgain \/ Harm \/ NetChanges \/ UNCHANGED vars
  BY <1>8 DEF SetUpAgain, Harm, NetChanges, stack, run, path, vars, Removes
<1>9. ASSUME NEW c \in Containers, Prints(c) PROVE Removes'
  BY <1>9 DEF Prints, Removes, path
<1>. QED
  BY <1>1, <1>2, <1>3, <1>4, <1>5, <1>6, <1>7, <1>8, <1>9 DEF Next

\* The repair takes away no file of ipfs-cluster's identity but one that go-fula wrote
\* between the look and the stop of fula.service, whatever go-fula, blox-ai, the
\* watchdog's death and boots do between its steps.
THEOREM IdentityFileIsKept == Spec => IdentityFileKept
<1>1. Init => Removes
  BY DEF Init, Removes
<1>2. Inv /\ Removes /\ [Next]_vars => Removes'
  BY RemovesNext
<1>3. Removes /\ [Next]_vars => [ident = "file" => ident' = "file" \/ rewritten \/ Reboot]_vars
  <2>. SUFFICES ASSUME Removes, [Next]_vars, ident = "file", ident' # "file", ~rewritten
                PROVE  Reboot
    OBVIOUS
  <2>1. ~RemoveIdentityDir
    BY DEF RemoveIdentityDir, Removes
  <2>2. ~Round
    BY <2>1 DEF Round, Main, Monitor, FixCluster, FixHost, FixConfig, FixLocal,
         IdentityIsDir, StopBloxFirst, StopFulaThen, AwaitIdentity, ClusterMinor,
         RemoveClusterFile, ClusterPebble, WipeCluster, ClusterSound, HostMinor, HostPebble,
         WipeHost, HostSound, FixYaml, YamlSound, RestoreYaml, BackUp, LocalMinor,
         LocalPebble, WipeLocal, LocalStart, Decide, path
  <2>3. ~(ClearIdentity \/ InitCluster \/ BloxMounts \/ SetUpAgain)
    BY DEF ClearIdentity, InitCluster, BloxMounts, SetUpAgain, path
  <2>4. ~(Harm \/ NetChanges \/ WatchdogDies \/ \E c \in Containers : Prints(c))
    BY DEF Harm, NetChanges, WatchdogDies, Prints, path
  <2>. QED
    BY <2>2, <2>3, <2>4 DEF Next, vars, path
<1>. QED
  BY <1>1, <1>2, <1>3, Invariance, PTL DEF Spec, IdentityFileKept
=============================================================================
