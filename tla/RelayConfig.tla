----------------------------- MODULE RelayConfig -----------------------------
(***************************************************************************)
(* How the relay list of the discovery service reaches kubo.  The script   *)
(* update_kubo_config.py reads the deployed config, merges the template    *)
(* and the fetched list into it and replaces the file.  fula.sh runs it    *)
(* before it takes the containers down and up again; the watchdog runs it  *)
(* beside them when the list has changed, and restarts kubo alone.  The    *)
(* identity in the same file is written by initipfs of go-fula.  Both runs *)
(* of the script write through a temporary file of the same name.          *)
(*                                                                         *)
(* `relays' stands for the managed fields of the file and `id' for the     *)
(* preserved ones: the identity it shared with ipfs-cluster in old         *)
(* releases, or the one derived for kubo.  A list is a value; the watchdog *)
(* compares lists as sets.  The identity of a file that is cut short or    *)
(* mixed is "none".  The network, docker and initipfs are external.        *)
(***************************************************************************)
EXTENDS Integers, FiniteSets

CONSTANTS
    Lists,       \* the lists there are
    Template,    \* the one of the template
    FailLimit,   \* rounds without relays and swarm before fula is restarted
    MaxChanges,  \* bound: changes of the list
    MaxFaults    \* bound: failed calls, crashes, boots, restarts by others, and overlaps of
                 \*   two runs in the temporary file

ASSUME RelayAssumption ==
    /\ Template \in Lists
    /\ FailLimit \in Nat \ {0}
    /\ MaxChanges \in Nat /\ MaxFaults \in Nat

Runs     == {"watchdog", "fula"}
Ids      == {"shared", "own", "none"}
Drafts   == [relays : Lists, id : Ids, dirty : BOOLEAN]
Contents == [relays : Lists, id : Ids \cup {"absent", "mixed"}]

VARIABLES
    listed,   \* what the discovery service lists
    net,      \* "none", "isolated" (no relay, no swarm peer) or "open"
    relays,   \* the deployed config: StaticRelays, Peering.Peers
    id,       \*   and Identity
    sentinel, \* .ipfs_setup
    goFula,   \* "down", "starting" (initipfs has not run yet) or "running"
    kubo,     \* "down", "starting", "waiting" (its init script loops) or "running"
    loaded,   \* the config that a running kubo started with
    pc,       \* where the watchdog and fula.sh are
    draft,    \* the config that a run of the script is about to write
    temp,     \* the temporary file: its content, if it is there
    signer,   \* the identity with whose key the heartbeat in hand is signed
    due,      \* the hour between two comparisons of the lists is over
    fails,    \* relay_fail_count
    beat,     \* whose addresses a heartbeat has just reported: "own", "other" than its signer's,
              \*   or "overtaken": another than the file's, or of a kubo that missed a restart
    missed,   \* a kubo that runs did not get the restart that was to load the file
    raced,    \* initipfs wrote the file between a read and a write of the script, or what two
              \*   runs wrote into one temporary file has got into the deployed one
    underived, \* nobody derives the shared identity: initipfs failed, or go-fula was not restarted
    changes,  \* changes of the list still allowed
    faults    \* failures still allowed

file == <<relays, id>>
go   == <<sentinel, goFula, underived>>
post == <<signer, beat>>
vars == <<listed, net, file, temp, go, kubo, loaded, pc, draft, due, fails, post, missed, raced,
          changes, faults>>

Fault   == faults > 0 /\ faults' = faults - 1
NoFault == UNCHANGED faults

Goto(p, at) == pc' = [pc EXCEPT ![p] = at]

NoDraft  == [relays |-> Template, id |-> "own", dirty |-> FALSE]
Forget(p) == draft' = [draft EXCEPT ![p] = NoDraft]

\* A kubo that does not run, or not yet, has no config loaded.
Unloaded == [relays |-> Template, id |-> "own"]
Kubo(at) == kubo' = at /\ loaded' = Unloaded /\ missed' = FALSE
Misses   == UNCHANGED <<kubo, loaded>> /\ missed' = (missed \/ kubo = "running")

\* The temporary file is not there, has been emptied, or two runs have it open.
Absent == [relays |-> Template, id |-> "absent"]
Empty  == [relays |-> Template, id |-> "none"]
Mixed  == [relays |-> Template, id |-> "mixed"]

Init ==
    /\ listed \in Lists /\ net \in {"none", "isolated", "open"}
    /\ relays \in Lists /\ id \in {"shared", "own"}
    /\ sentinel = TRUE /\ goFula = "running" /\ underived = FALSE
    /\ kubo = "running" /\ loaded = [relays |-> relays, id |-> id]
    /\ pc = [p \in Runs |-> IF p = "fula" THEN "read" ELSE "beat"]
    /\ draft = [p \in Runs |-> NoDraft] /\ temp = Absent
    /\ due = TRUE /\ fails = 0
    /\ signer = "own" /\ beat = "own"
    /\ missed = FALSE /\ raced = FALSE
    /\ changes = MaxChanges /\ faults = MaxFaults

----------------------------------------------------------------------------
(* The world: discovery, network, time                                     *)

ListChanges ==
    /\ changes > 0 /\ changes' = changes - 1
    /\ listed' \in Lists \ {listed}
    /\ UNCHANGED <<net, file, temp, go, kubo, loaded, pc, draft, due, fails, post, missed, raced,
                   faults>>

NetChanges ==
    /\ net' \in {"none", "isolated", "open"} \ {net}
    /\ UNCHANGED <<listed, file, temp, go, kubo, loaded, pc, draft, due, fails, post, missed,
                   raced, changes, faults>>

\* The hour is over; nobody notices before the next comparison.
Elapse ==
    /\ ~due /\ pc["watchdog"] = "drift" /\ due' = TRUE
    /\ UNCHANGED <<listed, net, file, temp, go, kubo, loaded, pc, draft, fails, post, missed,
                   raced, changes, faults>>

----------------------------------------------------------------------------
(* update_kubo_config.py, run by p                                         *)

\* Mutant of Exit: the watchdog leaves it to the next start of kubo to load the file.
Exit_NoRestart(p, ok) == Goto(p, IF p = "fula" THEN "down" ELSE "check")

\* A run ends: fula.sh goes on whatever came of it, the watchdog when it succeeded.
Exit(p, ok) == Goto(p, IF p = "fula" THEN "down" ELSE IF ok THEN "restart" ELSE "check")

\* Mutant of Merged: the template is taken whole, its empty identity included.
Merged_Whole == [relays |-> Template, id |-> "none", dirty |-> TRUE]

\* merge_configs: the template's managed fields, what is preserved as it was read.
Merged == [relays |-> Template, id |-> id, dirty |-> relays # Template]

\* A file that is not JSON ends the run.
ScriptReads(p) ==
    /\ pc[p] = "read"
    /\ \/ /\ id # "none"
          /\ draft' = [draft EXCEPT ![p] = Merged]
          /\ Goto(p, "fetch") /\ NoFault
       \/ id = "none" /\ Exit(p, FALSE) /\ NoFault /\ UNCHANGED draft
       \/ Fault /\ Exit(p, FALSE) /\ UNCHANGED draft
    /\ UNCHANGED <<listed, net, file, temp, go, kubo, loaded, due, fails, post, missed, raced,
                   changes>>

\* The fetched list goes over the template's; without one the template's stays.  A list
\* that went to the template's and back counts as two changes, and is written.
ScriptFetches(p) ==
    /\ pc[p] = "fetch"
    /\ Goto(p, "write")
    /\ \/ /\ net # "none" /\ NoFault
          /\ draft' = [draft EXCEPT ![p].relays = listed,
                                    ![p].dirty = @ \/ listed # Template]
       \/ net = "none" /\ NoFault /\ UNCHANGED draft
       \/ net # "none" /\ Fault /\ UNCHANGED draft
    /\ UNCHANGED <<listed, net, file, temp, go, kubo, loaded, due, fails, post, missed, raced,
                   changes>>

\* p is inside save_json.  A temporary file that nobody is going to move counts as none:
\* the next run empties it.
InTemp(p)     == pc[p] \in {"dump", "move"}
LeftBehind(p) == temp' = IF \E q \in Runs \ {p} : InTemp(q) THEN temp ELSE Absent

\* It opens the temporary file, which empties the one the other run has written.
ScriptOpens(p) ==
    /\ pc[p] = "write"
    /\ \/ /\ draft[p].dirty /\ Goto(p, "dump") /\ UNCHANGED draft
          /\ \/ temp' = Empty /\ (\A q \in Runs \ {p} : ~InTemp(q)) /\ NoFault
             \/ temp' = Mixed /\ (\E q \in Runs \ {p} : InTemp(q)) /\ Fault
       \/ ~draft[p].dirty /\ Exit(p, TRUE) /\ Forget(p) /\ NoFault /\ UNCHANGED temp
       \/ Fault /\ Exit(p, FALSE) /\ Forget(p) /\ UNCHANGED temp
    /\ UNCHANGED <<listed, net, file, go, kubo, loaded, due, fails, post, missed, raced, changes>>

\* What the file comes to hold: the draft, or a mixture when the other run has had it too.
Dumped(p) ==
    {[relays |-> draft[p].relays, id |-> draft[p].id]} \cup IF temp = Empty THEN {} ELSE {Mixed}

\* c gets into the deployed file, where a mixture cannot be read.
Deploy(c) == relays' = c.relays /\ id' = IF c = Mixed THEN "none" ELSE c.id

\* The draft is written and the file closed.  When the other run has moved it into place
\* meanwhile, it is the deployed file that is being written.
ScriptDumps(p) ==
    /\ pc[p] = "dump"
    /\ \/ /\ Goto(p, "move") /\ NoFault /\ UNCHANGED draft
          /\ \/ temp # Absent /\ temp' \in Dumped(p) /\ UNCHANGED <<file, raced>>
             \/ /\ temp = Absent /\ UNCHANGED temp
                /\ raced' = TRUE
                /\ \E c \in Dumped(p) : Deploy(c)
       \/ Fault /\ Exit(p, FALSE) /\ Forget(p) /\ LeftBehind(p) /\ UNCHANGED <<file, raced>>
    /\ UNCHANGED <<listed, net, go, kubo, loaded, due, fails, post, missed, changes>>

\* The temporary file, whoever wrote it, is moved over the deployed one.
Replace == temp # Absent /\ temp' = Absent /\ Deploy(temp) /\ raced' = (raced \/ temp = Mixed)

\* The move fails when the other run has moved the file; the watchdog may have stopped
\* waiting for a run that has moved it.
ScriptMoves(p) ==
    /\ pc[p] = "move"
    /\ \/ Replace /\ Exit(p, TRUE) /\ NoFault /\ UNCHANGED <<kubo, loaded, missed>>
       \/ Replace /\ p = "watchdog" /\ Exit(p, FALSE) /\ Fault /\ Misses
       \/ /\ \/ temp = Absent /\ NoFault /\ UNCHANGED temp
             \/ Fault /\ LeftBehind(p)
          /\ Exit(p, FALSE) /\ UNCHANGED <<file, raced, kubo, loaded, missed>>
    /\ Forget(p)
    /\ UNCHANGED <<listed, net, go, due, fails, post, changes>>

----------------------------------------------------------------------------
(* fula.sh start and stop                                                  *)

\* docker takes all the containers down, or is killed or fails and leaves some as they are.
AllDown  == Kubo("down") /\ goFula' = "down"
SomeStay == (Kubo("down") \/ Misses) /\ goFula' \in {goFula, "down"}

\* dockerComposeDown, whose failure is tolerated.
ComposeDown ==
    /\ pc["fula"] = "down"
    /\ Goto("fula", "migrate")
    /\ (AllDown /\ NoFault) \/ (SomeStay /\ Fault)
    /\ UNCHANGED <<listed, net, file, temp, sentinel, underived, draft, due, fails, post, raced,
                   changes>>

\* Mutant of Migrate: the derivation is left to kubo's init script to ask for.
Migrate_KeepsSentinel ==
    /\ pc["fula"] = "migrate"
    /\ Goto("fula", "up")
    /\ UNCHANGED <<listed, net, file, temp, go, kubo, loaded, draft, due, fails, post, missed,
                   raced, changes, faults>>

\* The sentinel goes when kubo and cluster share an identity, also under a kubo that runs.
Migrate ==
    /\ pc["fula"] = "migrate"
    /\ Goto("fula", "up")
    /\ \/ /\ id = "shared" /\ sentinel' = FALSE
          /\ underived' = (underived \/ goFula = "running")
          /\ Misses
       \/ id # "shared" /\ UNCHANGED <<sentinel, underived, kubo, loaded, missed>>
    /\ UNCHANGED <<listed, net, file, temp, goFula, draft, due, fails, post, raced, changes,
                   faults>>

\* up --no-recreate starts the containers that are down.
ComposeUp ==
    /\ pc["fula"] = "up"
    /\ Goto("fula", "idle")
    /\ IF kubo = "down" THEN Kubo("starting") ELSE UNCHANGED <<kubo, loaded, missed>>
    /\ goFula' = IF goFula = "down" THEN "starting" ELSE goFula
    /\ UNCHANGED <<listed, net, file, temp, sentinel, underived, draft, due, fails, post, raced,
                   changes, faults>>

\* systemctl restart fula: ExecStop takes the containers down, ExecStart begins again.
\* Another repair, an update or the app does it, or fula.sh dies and systemd does.
OthersRestartFula ==
    /\ Fault
    /\ AllDown \/ SomeStay
    /\ Goto("fula", "read") /\ Forget("fula") /\ LeftBehind("fula")
    /\ UNCHANGED <<listed, net, file, sentinel, underived, due, fails, post, raced, changes>>

----------------------------------------------------------------------------
(* The containers                                                          *)

\* initipfs, run once there is internet, derives kubo's identity unless the sentinel says
\* that it has been done.  The sentinel is written whatever came of it.
InitIpfs ==
    /\ goFula = "starting" /\ net # "none"
    /\ goFula' = "running" /\ sentinel' = TRUE
    /\ \/ /\ NoFault
          /\ id' = IF sentinel \/ id = "none" THEN id ELSE "own"
          /\ underived' = (underived /\ sentinel)
       \/ Fault /\ ~sentinel /\ id' = id /\ underived' = TRUE
    /\ raced' = \/ raced
                \/ id' # id /\ \E p \in Runs : pc[p] \in {"fetch", "write", "dump", "move"}
    /\ UNCHANGED <<listed, net, relays, temp, kubo, loaded, pc, draft, due, fails, post, missed,
                   changes>>

\* kubo-container-init.d.sh: a shared identity has to be derived again.
KuboStarts ==
    /\ kubo = "starting" /\ kubo' = "waiting"
    /\ sentinel' = (sentinel /\ id # "shared")
    /\ UNCHANGED <<listed, net, file, temp, goFula, underived, loaded, pc, draft, due, fails, post,
                   missed, raced, changes, faults>>

\* It waits for the sentinel, then kubo reads its config, if that can be read.
KuboLoads ==
    /\ kubo = "waiting" /\ sentinel /\ id # "none"
    /\ kubo' = "running"
    /\ loaded' = [relays |-> relays, id |-> id]
    /\ UNCHANGED <<listed, net, file, temp, go, pc, draft, due, fails, post, missed, raced, changes,
                   faults>>

----------------------------------------------------------------------------
(* The watchdog: heartbeat, relay list, relay check                        *)

\* Mutant of Circuits: a heartbeat goes out whether or not kubo has a circuit.
Circuits_Any == TRUE

\* kubo answers and has reservations on relays.
Circuits == kubo = "running" /\ net = "open"

\* post_heartbeat: the key is read from the file, unless it is too early.
LoadKey ==
    /\ pc["watchdog"] = "beat"
    /\ \/ id # "none" /\ signer' = id /\ Goto("watchdog", "sign")
       \/ UNCHANGED signer /\ Goto("watchdog", "drift")
    /\ UNCHANGED <<listed, net, file, temp, go, kubo, loaded, draft, due, fails, beat, missed,
                   raced, changes, faults>>

\* Then the addresses are kubo's; without a circuit nothing is sent.
PostHeartbeat ==
    /\ pc["watchdog"] = "sign"
    /\ Goto("watchdog", "drift") /\ signer' = "own"
    /\ \/ /\ Circuits
          /\ beat' = IF kubo = "running" /\ loaded.id = signer THEN "own"
                     ELSE IF signer = id /\ ~missed THEN "other" ELSE "overtaken"
       \/ UNCHANGED beat
    /\ UNCHANGED <<listed, net, file, temp, go, kubo, loaded, draft, due, fails, missed, raced,
                   changes, faults>>

\* Mutant of RefreshRelays: kubo is restarted without running the script.
RefreshRelays_RestartOnly ==
    /\ pc["watchdog"] = "drift"
    /\ due' = FALSE /\ beat' = "own"
    /\ Goto("watchdog", IF due /\ net # "none" /\ relays # listed
                           THEN "restart" ELSE "check")
    /\ UNCHANGED <<listed, net, file, temp, go, kubo, loaded, draft, fails, signer, missed, raced,
                   changes, faults>>

\* maybe_refresh_relays: what is listed is compared with the file, not with kubo.
RefreshRelays ==
    /\ pc["watchdog"] = "drift"
    /\ due' = FALSE /\ beat' = "own"
    /\ \/ /\ due /\ net # "none" /\ relays # listed
          /\ Goto("watchdog", "read") /\ NoFault
       \/ /\ ~due \/ net = "none" \/ relays = listed
          /\ Goto("watchdog", "check") /\ NoFault
       \/ due /\ Fault /\ Goto("watchdog", "check")
    /\ UNCHANGED <<listed, net, file, temp, go, kubo, loaded, draft, fails, signer, missed, raced,
                   changes>>

\* docker restart ipfs_host, whose failure is logged.
RestartKubo ==
    /\ pc["watchdog"] = "restart"
    /\ Goto("watchdog", "check")
    /\ \/ Kubo(IF kubo = "down" THEN "down" ELSE "starting") /\ NoFault
       \/ Misses /\ Fault
    /\ UNCHANGED <<listed, net, file, temp, go, draft, due, fails, post, raced, changes>>

\* The end of check_and_fix_ipfs_host.
Skip     == (net = "none" \/ kubo # "running") /\ Goto("watchdog", "beat")
            /\ UNCHANGED <<fails, kubo, loaded, goFula, draft, temp, missed>>
Reached  == net = "open" /\ kubo = "running" /\ fails' = 0 /\ Goto("watchdog", "beat")
            /\ UNCHANGED <<kubo, loaded, goFula, draft, temp, missed>>
Isolated == net = "isolated" /\ kubo = "running"

\* Mutant of Strike: the count saturates below the limit.
Strike_Saturates == IF fails + 1 < FailLimit THEN fails + 1 ELSE fails

Strike == fails + 1

RelayCheck ==
    /\ pc["watchdog"] = "check"
    /\ \/ Skip /\ NoFault
       \/ Reached /\ NoFault
       \/ /\ Isolated /\ Strike >= FailLimit
          /\ fails' = 0
          /\ \/ /\ (AllDown /\ NoFault) \/ (SomeStay /\ Fault)
                /\ pc' = [pc EXCEPT !["watchdog"] = "beat", !["fula"] = "read"]
                /\ Forget("fula") /\ LeftBehind("fula")
             \/ /\ Fault /\ Goto("watchdog", "beat")
                /\ UNCHANGED <<kubo, loaded, goFula, draft, temp, missed>>
       \/ /\ Isolated /\ Strike < FailLimit
          /\ fails' = Strike
          /\ Goto("watchdog", "beat") /\ NoFault
          /\ UNCHANGED <<kubo, loaded, goFula, draft, temp, missed>>
    /\ UNCHANGED <<listed, net, file, sentinel, underived, due, post, raced, changes>>

----------------------------------------------------------------------------
(* The watchdog dies, with the script it runs; the device boots            *)

WatchdogDies ==
    /\ Fault
    /\ Goto("watchdog", "beat") /\ Forget("watchdog") /\ LeftBehind("watchdog")
    /\ due' = TRUE /\ fails' = 0 /\ signer' = "own" /\ beat' = "own"
    /\ IF pc["watchdog"] = "restart" THEN Misses ELSE UNCHANGED <<kubo, loaded, missed>>
    /\ UNCHANGED <<listed, net, file, go, raced, changes>>

\* docker starts the containers by itself, then systemd fula and the watchdog.
Reboot ==
    /\ Fault
    /\ pc' = [p \in Runs |-> IF p = "fula" THEN "read" ELSE "beat"]
    /\ due' = TRUE /\ fails' = 0 /\ signer' = "own" /\ beat' = "own"
    /\ draft' = [p \in Runs |-> NoDraft] /\ temp' = Absent
    /\ Kubo("starting") /\ goFula' = "starting"
    /\ UNCHANGED <<listed, net, file, sentinel, underived, raced, changes>>

World     == ListChanges \/ NetChanges
Script(p) ==
    ScriptReads(p) \/ ScriptFetches(p) \/ ScriptOpens(p) \/ ScriptDumps(p) \/ ScriptMoves(p)
Fula      == Script("fula") \/ ComposeDown \/ Migrate \/ ComposeUp
Watchdog  ==
    Script("watchdog") \/ LoadKey \/ PostHeartbeat \/ RefreshRelays \/ RestartKubo \/ RelayCheck

Next ==
    \/ World \/ Elapse \/ Fula \/ Watchdog
    \/ InitIpfs \/ KuboStarts \/ KuboLoads
    \/ OthersRestartFula \/ WatchdogDies \/ Reboot

Spec == Init /\ [][Next]_vars

\* The two scripts go on (their calls have time-outs), docker starts what it is told to,
\* and of the watchdog's comparisons there is always one more that comes after the hour.
Fairness ==
    /\ WF_vars(Fula) /\ WF_vars(Watchdog) /\ SF_vars(Elapse)
    /\ WF_vars(InitIpfs) /\ WF_vars(KuboStarts) /\ SF_vars(KuboLoads)

FairSpec == Spec /\ Fairness

----------------------------------------------------------------------------
(* Properties                                                              *)

\* The variables have their types.
TypeOK ==
    /\ listed \in Lists /\ net \in {"none", "isolated", "open"}
    /\ relays \in Lists /\ id \in Ids
    /\ sentinel \in BOOLEAN /\ goFula \in {"down", "starting", "running"}
    /\ kubo \in {"down", "starting", "waiting", "running"}
    /\ loaded \in [relays : Lists, id : {"shared", "own"}]
    /\ pc \in [Runs -> {"idle", "read", "fetch", "write", "dump", "move", "down", "migrate", "up",
                        "beat", "sign", "drift", "restart", "check"}]
    /\ draft \in [Runs -> Drafts] /\ temp \in Contents
    /\ due \in BOOLEAN /\ fails \in 0..(FailLimit - 1)
    /\ signer \in {"shared", "own"} /\ beat \in {"own", "other", "overtaken"}
    /\ missed \in BOOLEAN /\ raced \in BOOLEAN /\ underived \in BOOLEAN
    /\ changes \in 0..MaxChanges /\ faults \in 0..MaxFaults

\* The identity of the deployed config is never lost, nor set back to the one that ipfs-
\* cluster has, by a run of the script, also when runs of the watchdog and of fula.sh
\* overlap and die, unless initipfs came between a read and a write or what both runs wrote
\* into one temporary file got there (update_kubo_config.py:62-69, 97-102, 138-170, 300-330).
IdentityKept == [][id' = id \/ id' = "own" \/ raced']_vars

\* A heartbeat signed with the identity of the file reports the addresses of that identity,
\* unless a run of the script has put an old one back or kubo missed its restart
\* (readiness-check.py:1030-1054).
HeartbeatIsOwn == raced \/ beat # "other"

\* A kubo that runs with another config than the file's is about to be restarted, by the
\* run of the script that wrote the file, or has missed that restart: the runs overlap and
\* die, and initipfs writes the file too, but never under a kubo that runs, unless docker
\* left that kubo running (fula.sh:1855-1880, readiness-check.py:901-922).
KuboRunsTheFile ==
    kubo = "running" /\ loaded # [relays |-> relays, id |-> id]
        => missed \/ pc["watchdog"] = "restart" \/ pc["fula"] = "down" \/ raced

\* A kubo that waits for the sentinel has a go-fula that will write it, now or when
\* fula.sh has come to its end: nobody takes the sentinel away after initipfs has looked
\* at it, unless the script put the shared identity back, initipfs failed to derive
\* another, or docker left go-fula as it was
\* (fula.sh:1863-1873, go-fula.sh:334-335, kubo-container-init.d.sh:34-46, 127-130).
KuboHasHelp ==
    kubo = "waiting" /\ ~sentinel
        => goFula = "starting" \/ pc["fula"] # "idle" \/ raced \/ underived

\* Once the discovery service lists l for good and is in reach, kubo runs with l for
\* good: the failures on the way, the template put in its place and overlapping runs are
\* corrected.  Only a restart that kubo missed is not (readiness-check.py:866-922).
RelaysConverge ==
    \A l \in Lists :
        <>[](net # "none" /\ listed = l)
            => <>[](kubo = "running" => loaded.relays = l \/ missed \/ raced)

\* With internet kubo is not left in its init script: the identity it waits for is derived,
\* unless the script undid that or nobody is left to do it
\* (fula.sh:1863-1873, go-fula.sh:304-335, kubo-container-init.d.sh:34-46, 127-130).
KuboComesBack == <>[](net # "none") => []<>(kubo = "running" \/ raced \/ underived)

\* A kubo that has internet and yet neither relay nor swarm makes the watchdog restart
\* fula again and again, whatever else restarts it meanwhile, as long as kubo gets as far
\* as running (readiness-check.py:2980-3062).
IsolatedIsRestarted ==
    <>[](net = "isolated") => []<>(pc["fula"] = "read" \/ raced \/ underived)
=============================================================================
