-------------------------- MODULE ContainerRepairs ---------------------------
(***************************************************************************)
(* The repairs the readiness watchdog makes inside a round of its monitor, *)
(* in the order of the round: ipfs-cluster, kubo (ipfs_host), config.yaml, *)
(* kubo-local.  A repair is chosen by the last lines of a container's log, *)
(* stops what it works on, removes the damaged files and starts it again;  *)
(* the watchdog may die and the device may boot between two of its steps.   *)
(*                                                                         *)
(* Many log patterns lead to a few kinds of repair: removing or writing a  *)
(* small file ("minor"), wiping a database ("pebble"), handing an ext4     *)
(* error to fsck ("ebadmsg"); a dead disk behind the union has none.       *)
(* Docker, go-fula, blox-ai, fsck and the disks are external.  What counts *)
(* the rounds and escalates is in Watchdog.                                *)
(***************************************************************************)
EXTENDS Naturals, FiniteSets

CONSTANT MaxFaults    \* bound: damages, failed calls, losses of the internet, crashes, boots

ASSUME FaultAssumption == MaxFaults \in Nat

Containers == {"cluster", "host", "local"}
Critical   == {"cluster", "host"}    \* containers_to_check; kubo-local is not
Damages    == {"minor", "pebble", "ebadmsg", "dead"}

VARIABLES
    damage,  \* what is wrong with the files of a container
    log,     \* the repair that the tail of its log asks for
    up,      \* the containers docker ps lists
    fula,    \* fula.service is active
    stage,   \* go-fula.sh since then: "clear" and "write" identity.json, "done"
    online,  \* the device has internet
    ident,   \* ipfs-cluster/identity.json: "file", "absent", or a "dir"ectory
    rewritten, \* go-fula has put a file there since the watchdog saw the directory, and before
             \*   it stopped fula.service
    blox,    \* blox-ai.service is active
    yaml,    \* config.yaml: "good", "bad", "absent", or "empty", which YAML can parse
    backup,  \*   and config.yaml.backup
    pc,      \* where the watchdog is
    fixed,   \* a repair of this round returned True
    lost,    \* containers whose sound data was wiped
    faults   \* faults still allowed

path  == <<ident, rewritten>>
run   == <<fula, stage, up, log>>
stack == <<damage, run, lost>>
files == <<yaml, backup>>
vars  == <<stack, online, path, blox, files, pc, fixed, faults>>

Fault   == faults > 0 /\ faults' = faults - 1
NoFault == UNCHANGED faults

Init ==
    /\ damage = [c \in Containers |-> "none"] /\ log = [c \in Containers |-> "none"]
    /\ up = Containers /\ fula = TRUE /\ stage = "clear"
    /\ online = TRUE
    /\ ident \in {"file", "absent"} /\ rewritten = FALSE /\ blox = TRUE
    /\ yaml = "good" /\ backup = "absent"
    /\ pc = "monitor" /\ fixed = FALSE /\ lost = {}
    /\ faults = MaxFaults

----------------------------------------------------------------------------
(* What goes wrong, and what the containers do                             *)

\* A power cut or a disk damages files.
Harm ==
    /\ Fault
    /\ \/ /\ \E c \in Containers, d \in Damages :
                damage[c] = "none" /\ damage' = [damage EXCEPT ![c] = d]
          /\ UNCHANGED yaml
       \/ yaml' \in {"bad", "empty", "absent"} /\ UNCHANGED damage
    /\ UNCHANGED <<run, lost, online, path, blox, backup, pc, fixed>>

\* A container that runs prints what is wrong; the log of a sound one scrolls.
Prints(c) ==
    /\ c \in up
    /\ log' = [log EXCEPT ![c] = CASE damage[c] = "none"  -> "none"
                                   [] damage[c] = "minor" -> "minor"
                                   [] OTHER -> "pebble"]
    /\ log' # log
    /\ UNCHANGED <<damage, up, fula, stage, lost, online, path, blox, files, pc, fixed, faults>>

\* The internet is lost, and comes back.
NetChanges ==
    /\ online' = ~online
    /\ IF online THEN Fault ELSE NoFault
    /\ UNCHANGED <<stack, path, blox, files, pc, fixed>>

\* go-fula.sh, with internet and a config.yaml, waits for kubo to answer; then a directory
\* in the place of identity.json goes.
ClearIdentity ==
    /\ fula /\ stage = "clear" /\ online /\ yaml # "absent"
    /\ "host" \in up /\ damage["host"] = "none"
    /\ stage' = "write"
    /\ ident' = IF ident = "dir" THEN "absent" ELSE ident
    /\ UNCHANGED <<damage, log, up, fula, lost, online, rewritten, blox, files, pc, fixed, faults>>

\* Then initipfscluster writes the file from config.yaml, not over a directory, which
\* nobody notices.  With a config.yaml it cannot read the container starts again.
InitCluster ==
    /\ fula /\ stage = "write"
    /\ \/ /\ yaml = "good" /\ ident = "absent"
          /\ ident' = "file" /\ stage' = "done"
          /\ rewritten' = (pc \in {"id_blox", "id_fula"})
       \/ yaml = "good" /\ ident # "absent" /\ stage' = "done" /\ UNCHANGED path
       \/ yaml # "good" /\ stage' = "clear" /\ UNCHANGED path
    /\ UNCHANGED <<damage, log, up, fula, lost, online, blox, files, pc, fixed, faults>>

\* Docker creates the missing end of blox-ai's bind mount as a directory.
BloxMounts ==
    /\ blox /\ ident = "absent"
    /\ ident' = "dir"
    /\ UNCHANGED <<stack, online, rewritten, blox, files, pc, fixed, faults>>

\* go-fula writes a config.yaml when the app sets the device up again.
SetUpAgain ==
    /\ yaml = "absent" /\ backup \in {"absent", "bad"}
    /\ yaml' = "good"
    /\ UNCHANGED <<stack, online, path, blox, backup, pc, fixed, faults>>

----------------------------------------------------------------------------
(* systemctl and docker                                                    *)

\* fula.sh takes the containers down, with their logs, and up.
Recreated ==
    /\ fula' = TRUE /\ stage' = "clear"
    /\ up' = Containers /\ log' = [c \in Containers |-> "none"]

StartFula == IF fula THEN UNCHANGED run ELSE Recreated

StopFula ==
    /\ fula' = FALSE /\ UNCHANGED stage
    /\ up' = {} /\ log' = [c \in Containers |-> "none"]

\* check_and_repair_ext4: fsck leaves a database that has to be wiped; it starts fula.  It
\* may be skipped in the hour after another run.
RepairExt4(c) ==
    \/ /\ damage' = [damage EXCEPT ![c] = IF @ = "ebadmsg" THEN "pebble" ELSE @]
       /\ Recreated /\ NoFault
    \/ Fault /\ UNCHANGED <<damage, run>>

\* rm -rf of a database; what was sound is lost.
Wipe(c) ==
    /\ damage[c] \in {"none", "minor", "pebble"}
    /\ damage' = [damage EXCEPT ![c] = IF @ = "pebble" THEN "none" ELSE @]
    /\ lost' = IF damage[c] = "pebble" THEN lost ELSE lost \cup {c}

Goto(at)    == pc' = at
Done(at)    == pc' = at /\ fixed' = TRUE
Nothing(at) == pc' = at /\ UNCHANGED fixed

----------------------------------------------------------------------------
(* main, and the head of a round of monitor_docker_logs_and_restart        *)

\* Mutant of Monitor: a container that is not running is left alone.
Monitor_OnlyConditions ==
    /\ pc = "monitor"
    /\ IF fula
          THEN Nothing("cluster") /\ UNCHANGED <<damage, run>> /\ NoFault
          ELSE Nothing("monitor") /\ Recreated /\ UNCHANGED damage /\ NoFault
    /\ UNCHANGED <<lost, path, blox, files>>

\* Without fula_go check_conditions fails: fsck, or everything is stopped and started,
\* and the round ends.  Another container that is not running has fula restarted.
Monitor ==
    /\ pc = "monitor"
    /\ pc' = (IF fula THEN "cluster" ELSE "monitor") /\ fixed' = FALSE
    /\ \/ ~fula /\ \E c \in Containers : damage[c] = "ebadmsg" /\ RepairExt4(c)
       \/ fula /\ Critical \subseteq up /\ NoFault /\ UNCHANGED <<damage, run>>
       \/ ~(Critical \subseteq up) /\ Recreated /\ NoFault /\ UNCHANGED damage
       \/ ~(Critical \subseteq up) /\ Fault /\ UNCHANGED <<damage, run>>
    /\ UNCHANGED <<lost, path, blox, files>>

\* main enters the monitor with internet.  It restarts fula_go only while docker ps -a
\* lists it, which it does not after "compose down": a fula.service that was stopped stays
\* so, unless there is a fsck.
Main ==
    /\ pc = "main"
    /\ \/ fula /\ online /\ Goto("monitor") /\ NoFault /\ UNCHANGED <<damage, run>>
       \/ ~fula /\ UNCHANGED pc /\ \E c \in Containers : damage[c] = "ebadmsg" /\ RepairExt4(c)
    /\ UNCHANGED <<lost, path, blox, files, fixed>>

----------------------------------------------------------------------------
(* check_and_fix_ipfs_cluster                                              *)

\* Mutant of StopBlox: blox-ai is left running.
StopBlox_Not == UNCHANGED blox

StopBlox == blox' = FALSE

\* identity.json is a directory.
IdentityIsDir ==
    /\ pc = "cluster" /\ ident = "dir"
    /\ Nothing("id_blox")
    /\ UNCHANGED <<stack, path, blox, files, faults>>

\* blox-ai is stopped first, which can fail unnoticed or time out; fula runs on meanwhile.
StopBloxFirst ==
    /\ pc = "id_blox"
    /\ \/ StopBlox /\ Nothing("id_fula") /\ NoFault /\ UNCHANGED rewritten
       \/ Fault /\ UNCHANGED blox /\ Nothing("id_fula") /\ UNCHANGED rewritten
       \/ Fault /\ StopBlox /\ Done("host") /\ rewritten' = FALSE
    /\ UNCHANGED <<stack, ident, files>>

\* Mutant of StopFulaThen: fula goes on while the directory is taken away.
StopFulaThen_Not ==
    /\ pc = "id_fula"
    /\ Nothing("id_remove") /\ NoFault
    /\ UNCHANGED <<damage, run, lost, path, blox, files>>

\* Then fula is stopped, or that fails.
StopFulaThen ==
    /\ pc = "id_fula"
    /\ \/ StopFula /\ Nothing("id_remove") /\ NoFault /\ UNCHANGED rewritten
       \/ Fault /\ Done("host") /\ UNCHANGED run /\ rewritten' = FALSE
    /\ UNCHANGED <<damage, lost, ident, blox, files>>

\* rm -rf of whatever is there by now; nobody looks whether it failed.
RemoveIdentityDir ==
    /\ pc = "id_remove"
    /\ rewritten' = FALSE
    /\ \/ ident' = "absent" /\ StartFula /\ Nothing("id_wait") /\ NoFault
       \/ Fault /\ ident' = ident /\ StartFula /\ Nothing("id_wait")
       \/ Fault /\ ident' \in {"absent", ident} /\ Done("host") /\ UNCHANGED run
    /\ UNCHANGED <<damage, lost, blox, files>>

\* blox-ai comes back with the file; it stays stopped when three minutes were not enough.
AwaitIdentity ==
    /\ pc = "id_wait"
    /\ Done("host")
    /\ \/ ident = "file" /\ blox' = TRUE /\ NoFault
       \/ UNCHANGED blox /\ NoFault
    /\ UNCHANGED <<stack, path, files>>

\* service.json, the lock, an API that does not answer: fula is stopped, a file removed.
ClusterMinor ==
    /\ pc = "cluster" /\ ident # "dir" /\ log["cluster"] = "minor"
    /\ \/ StopFula /\ Nothing("c_remove") /\ NoFault
       \/ Fault /\ Nothing("host") /\ UNCHANGED run
    /\ UNCHANGED <<damage, lost, path, blox, files>>

RemoveClusterFile ==
    /\ pc = "c_remove"
    /\ damage' = [damage EXCEPT !["cluster"] = IF @ = "minor" THEN "none" ELSE @]
    /\ \/ StartFula /\ Done("host") /\ NoFault
       \/ Fault /\ Nothing("host") /\ UNCHANGED run
    /\ UNCHANGED <<lost, path, blox, files>>

\* A database: fsck when its files cannot be read, else fula is stopped.
ClusterPebble ==
    /\ pc = "cluster" /\ ident # "dir" /\ log["cluster"] = "pebble"
    /\ \/ /\ damage["cluster"] = "ebadmsg"
          /\ RepairExt4("cluster") /\ Nothing("host")
       \/ /\ damage["cluster"] # "ebadmsg"
          /\ StopFula /\ Nothing("c_wipe") /\ NoFault /\ UNCHANGED damage
       \/ Fault /\ Nothing("host") /\ UNCHANGED <<damage, run>>
    /\ UNCHANGED <<lost, path, blox, files>>

\* Mutant of Restarted: the database goes, the log stays.
Restarted_LogStays ==
    /\ fula' = TRUE /\ stage' = "clear"
    /\ up' = Containers /\ log' = [log EXCEPT !["cluster"] = "pebble"]

\* safe_start_fula, and the log of ipfs_cluster is truncated.
Restarted == StartFula

\* rm can meet what the scan did not; a dead disk leaves fula stopped; rm may time out,
\* which nothing catches.
WipeCluster ==
    /\ pc = "c_wipe"
    /\ \/ /\ Wipe("cluster")
          /\ \/ Restarted /\ Done("host") /\ NoFault
             \/ Fault /\ Nothing("host") /\ UNCHANGED run
       \/ /\ damage["cluster"] = "ebadmsg"
          /\ RepairExt4("cluster") /\ Nothing("host") /\ UNCHANGED lost
       \/ /\ damage["cluster"] = "dead"
          /\ Nothing("host") /\ NoFault /\ UNCHANGED stack
       \/ Fault /\ Nothing("main") /\ UNCHANGED stack
    /\ UNCHANGED <<path, blox, files>>

ClusterSound ==
    /\ pc = "cluster" /\ ident # "dir" /\ log["cluster"] = "none"
    /\ Nothing("host")
    /\ UNCHANGED <<stack, path, blox, files, faults>>

----------------------------------------------------------------------------
(* check_and_fix_ipfs_host                                                 *)

\* version, datastore_spec, Provider, the config: fixed in place, then a restart.
HostMinor ==
    /\ pc = "host" /\ log["host"] = "minor"
    /\ damage' = [damage EXCEPT !["host"] = IF @ = "minor" THEN "none" ELSE @]
    /\ \/ /\ log' = [log EXCEPT !["host"] = "none"] /\ up' = up \cup {"host"}
          /\ UNCHANGED <<fula, stage>>
       \/ Recreated
    /\ Done("yaml") /\ NoFault
    /\ UNCHANGED <<lost, path, blox, files>>

\* "IPFS Host issue 3" stops the container, but not fula; "issue 1", its blocks, fula.
HostPebble ==
    /\ pc = "host" /\ log["host"] = "pebble"
    /\ \/ up' = up \ {"host"} /\ UNCHANGED <<log, fula, stage>>
       \/ StopFula
    /\ Nothing("h_wipe") /\ NoFault
    /\ UNCHANGED <<damage, lost, path, blox, files>>

\* Starting fula does nothing where it is active.  A failed rm raises: the process ends.
WipeHost ==
    /\ pc = "h_wipe"
    /\ \/ Wipe("host") /\ StartFula /\ Done("yaml") /\ NoFault
       \/ /\ damage["host"] \in {"ebadmsg", "dead"}
          /\ Nothing("main") /\ NoFault /\ UNCHANGED stack
    /\ UNCHANGED <<path, blox, files>>

HostSound ==
    /\ pc = "host" /\ log["host"] = "none"
    /\ Nothing("yaml")
    /\ UNCHANGED <<stack, path, blox, files, faults>>

----------------------------------------------------------------------------
(* check_and_fix_config_yaml, and the backup                               *)

\* validate_yaml_syntax
Valid(f) == f \in {"good", "empty"}


\* restore_config_from_backup, or rm.
Repaired == IF Valid(backup) THEN backup ELSE "absent"

\* The tail of go-fula's log names config.yaml, rightly or not; go-fula.sh does not run
\* the program without one.  A copy that fails is no restore, and one that is cut short
\* leaves half a file.
FixYaml ==
    /\ pc = "yaml" /\ fula
    /\ \/ /\ yaml = "bad" /\ yaml' = Repaired /\ Done("decide") /\ Recreated /\ NoFault
       \/ /\ yaml = "bad" /\ Fault /\ yaml' = "absent" /\ Done("decide") /\ Recreated
       \/ /\ yaml = "bad" /\ Valid(backup) /\ Fault
          /\ yaml' \in {"bad", "empty"} /\ Nothing("main") /\ UNCHANGED run
       \/ /\ yaml # "bad" /\ UNCHANGED yaml /\ Done("decide") /\ Recreated
          /\ IF yaml = "empty" THEN NoFault ELSE Fault
    /\ UNCHANGED <<damage, lost, path, blox, backup>>

YamlSound ==
    /\ pc = "yaml"
    /\ ~fula \/ yaml # "bad"
    /\ Nothing("decide")
    /\ UNCHANGED <<stack, path, blox, files, faults>>

\* A repair begins the round again; without one kubo-local and the backup get their turn.
Decide ==
    /\ pc = "decide"
    /\ pc' = IF fixed THEN "monitor" ELSE "local"
    /\ UNCHANGED <<stack, path, blox, files, fixed, faults>>

----------------------------------------------------------------------------
(* check_and_fix_kubo_local: never raises, touches ipfs_local only         *)

LocalMinor ==
    /\ pc = "local" /\ log["local"] = "minor"
    /\ damage' = [damage EXCEPT !["local"] = IF @ = "minor" THEN "none" ELSE @]
    /\ Nothing("restore")
    /\ \/ up' = up \cup {"local"} /\ NoFault
       \/ Fault /\ UNCHANGED up
    /\ UNCHANGED <<log, fula, stage, lost, path, blox, files>>

LocalPebble ==
    /\ pc = "local" /\ log["local"] = "pebble"
    /\ \/ /\ damage["local"] = "ebadmsg"
          /\ RepairExt4("local") /\ Nothing("restore")
       \/ /\ damage["local"] # "ebadmsg" /\ NoFault
          /\ up' = up \ {"local"} /\ Nothing("l_wipe") /\ UNCHANGED <<damage, fula, stage, log>>
       \/ Fault /\ Nothing("restore") /\ UNCHANGED <<damage, run>>
    /\ UNCHANGED <<lost, path, blox, files>>

\* Started again with the log it had.
WipeLocal ==
    /\ pc = "l_wipe"
    /\ Nothing("restore")
    /\ \/ /\ Wipe("local") /\ UNCHANGED <<log, fula, stage>>
          /\ \/ up' = up \cup {"local"} /\ NoFault
             \/ Fault /\ UNCHANGED up
       \/ damage["local"] = "ebadmsg" /\ RepairExt4("local") /\ UNCHANGED lost
       \/ damage["local"] = "dead" /\ NoFault /\ UNCHANGED stack
    /\ UNCHANGED <<path, blox, files>>

\* A container that docker ps -a lists is started.
LocalStart ==
    /\ pc = "local" /\ log["local"] = "none"
    /\ Nothing("restore")
    /\ \/ up' = (IF fula THEN up \cup {"local"} ELSE up) /\ NoFault
       \/ Fault /\ UNCHANGED up
    /\ UNCHANGED <<damage, log, fula, stage, lost, path, blox, files>>

----------------------------------------------------------------------------
(* The rest of the round                                                   *)

\* A config.yaml that is gone comes back from the backup.
RestoreYaml ==
    /\ pc = "restore"
    /\ IF yaml = "absent" /\ Valid(backup)
          THEN \/ yaml' = backup /\ Goto("monitor") /\ Recreated /\ NoFault
               \/ Fault /\ yaml' \in {"absent", "bad", "empty"} /\ Goto("backup")
                  /\ UNCHANGED run
          ELSE Goto("backup") /\ NoFault /\ UNCHANGED <<yaml, run>>
    /\ UNCHANGED <<damage, lost, path, blox, backup, fixed>>

\* A healthy device keeps a copy of what parses.
BackUp ==
    /\ pc = "backup"
    /\ \/ /\ Critical \subseteq up /\ Valid(yaml)
          /\ backup' = yaml /\ Goto("monitor") /\ NoFault
       \/ /\ ~(Critical \subseteq up) \/ yaml # "good"   \* or go-fula does not answer
          /\ Goto("monitor") /\ NoFault /\ UNCHANGED backup
       \/ /\ Critical \subseteq up /\ Valid(yaml) /\ Fault
          /\ backup' \in {"empty", "bad"} /\ Goto("main")
    /\ UNCHANGED <<stack, path, blox, yaml, fixed>>

WatchdogDies ==
    /\ Fault
    /\ Goto("main") /\ rewritten' = FALSE
    /\ UNCHANGED <<stack, online, ident, blox, files, fixed>>

\* Everything that is enabled starts, perhaps with a new union drive.
Reboot ==
    /\ Fault
    /\ Recreated /\ blox' = TRUE /\ Goto("main")
    /\ ident' \in {ident, "absent"} /\ rewritten' = FALSE
    /\ UNCHANGED <<damage, lost, online, files, fixed>>

FixCluster ==
    \/ IdentityIsDir \/ StopBloxFirst \/ StopFulaThen \/ RemoveIdentityDir \/ AwaitIdentity
    \/ ClusterMinor \/ RemoveClusterFile \/ ClusterPebble \/ WipeCluster \/ ClusterSound
FixHost    == HostMinor \/ HostPebble \/ WipeHost \/ HostSound
FixConfig  == FixYaml \/ YamlSound \/ RestoreYaml \/ BackUp
FixLocal   == LocalMinor \/ LocalPebble \/ WipeLocal \/ LocalStart
Round      ==
    /\ Main \/ Monitor \/ FixCluster \/ FixHost \/ FixConfig \/ Decide \/ FixLocal
    /\ UNCHANGED online

Next ==
    \/ Round \/ (\E c \in Containers : Prints(c))
    \/ ClearIdentity \/ InitCluster \/ BloxMounts \/ SetUpAgain
    \/ Harm \/ NetChanges \/ WatchdogDies \/ Reboot

Spec == Init /\ [][Next]_vars

\* The watchdog goes on, containers print and go-fula initialises again and again while
\* the watchdog sleeps between its rounds.
Fairness ==
    /\ WF_vars(Round)
    /\ \A c \in Containers : SF_vars(Prints(c))
    /\ SF_vars(ClearIdentity) /\ SF_vars(InitCluster) /\ WF_vars(SetUpAgain)

FairSpec == Spec /\ Fairness

----------------------------------------------------------------------------
(* Properties                                                              *)

\* The variables have their types, and no container runs while fula is stopped.
TypeOK ==
    /\ damage \in [Containers -> Damages \cup {"none"}]
    /\ log \in [Containers -> {"none", "minor", "pebble"}]
    /\ up \subseteq Containers /\ fula \in BOOLEAN /\ stage \in {"clear", "write", "done"}
    /\ online \in BOOLEAN /\ rewritten \in BOOLEAN /\ blox \in BOOLEAN
    /\ ident \in {"file", "absent", "dir"}
    /\ yaml \in {"good", "bad", "empty", "absent"}
    /\ backup \in {"good", "bad", "empty", "absent"}
    /\ pc \in {"main", "monitor", "cluster", "id_blox", "id_fula", "id_remove", "id_wait",
               "c_remove", "c_wipe", "host", "h_wipe", "yaml", "decide", "local", "l_wipe", "restore", "backup"}
    /\ fixed \in BOOLEAN /\ lost \subseteq Containers
    /\ faults \in 0..MaxFaults
    /\ ~fula => up = {}

\* A sound database of ipfs-cluster is never wiped: the log that asked for the wipe does
\* not outlive it (readiness-check.py:2629-2728).
ClusterKept == "cluster" \notin lost

\* Nothing the watchdog cannot cure: no internet, a dead disk, an ext4 error under the store of
\* ipfs_host (WipeHost), a config.yaml that YAML can parse and go-fula cannot use, a death
\* of the watchdog while it had fula stopped (Main).
Curable ==
    /\ online
    /\ \A c \in Containers : damage[c] # "dead"
    /\ damage["host"] # "ebadmsg"
    /\ yaml # "empty"
    /\ pc = "main" => fula

\* Whatever was stopped for a repair that failed half way runs again, and what was damaged
\* is sound again (readiness-check.py:2734-2978, 3065-3303, 4239-4265).
ServesAgain == <>[]Curable => \A c \in Containers : []<>(c \in up /\ damage[c] = "none")

\* identity.json becomes a file again, whenever blox-ai mounts a directory in its place
\* (readiness-check.py:2536-2603).
IdentityComesBack == <>[]Curable => []<>(ident = "file")

\* The repair of identity.json takes away a file only when go-fula has written it after
\* the watchdog saw a directory and before it stopped fula.service: from then on what is
\* to be removed stays as it is, whatever go-fula, blox-ai, deaths and boots do.  Only a
\* boot, with another union drive, loses the file else (readiness-check.py:2555-2571,
\* go-fula.sh:353-357).
IdentityFileKept == [][ident = "file" => ident' = "file" \/ rewritten \/ Reboot]_vars

=============================================================================
